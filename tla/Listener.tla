------------------------------- MODULE Listener -------------------------------
(***************************************************************************)
(* listener_t and the new_connection it calls, as users of the descriptors *)
(* of the server process: the listening socket, the sockets it accepts,    *)
(* the memory file of each connection, and what other threads open and     *)
(* close meanwhile.  The kernel gives the lowest free number and knows     *)
(* nothing of who closes it.                                               *)
(*                                                                         *)
(* The constructor's init_listen, the accept loop with every failure it    *)
(* knows, and stop() as the destructor calls it.                           *)
(***************************************************************************)
EXTENDS Naturals, FiniteSets

CONSTANTS
  MaxFd,     \* descriptors 1..MaxFd are to be had
  Clients,   \* connections that are ever attempted
  Faults     \* what may go wrong, a subset of FaultKinds

FaultKinds == {"bind", "listen", "memfd", "start"}

\* What is assumed of the constants.
ConstantsOK ==
  /\ MaxFd \in Nat \ {0} /\ Faults \subseteq FaultKinds
  /\ Clients \cap {"none", "listen", "reserved", "mem", "other"} = {}

Fds == 1..MaxFd
None == "none"

VARIABLES
  desc,      \* what each number names
  sock,      \* sock_fd; 0 for -1
  waiting,   \* clients in the backlog of the listening socket
  answer,    \* what each client has got
  lpc,       \* the thread of the listener
  conn, mem, \* conn and mem_fd of worker_proc; 0 for -1
  client,    \* whose connection conn is
  upc,       \* the thread that constructs and destroys the listener
  should_stop,
  victims    \* history: descriptors of other parts the listener closed

vars == <<desc, sock, waiting, answer, lpc, conn, mem, client, upc,
          should_stop, victims>>

\* What a number can name: the listening socket, the number accept reserves
\* before it waits, a memory file, the socket accepted from a client, or
\* what belongs to another part of the process.
Kinds == {"listen", "reserved", "mem", "other"} \cup Clients

Init ==
  /\ desc = [f \in Fds |-> None] /\ sock = 0
  /\ waiting = {} /\ answer = [c \in Clients |-> "none"]
  /\ lpc = "none" /\ conn = 0 /\ mem = 0 /\ client = None
  /\ upc = "socket" /\ should_stop = TRUE
  /\ victims = 0

Free == {f \in Fds : desc[f] = None}
LowestFree == CHOOSE f \in Free : \A g \in Free : f <= g
Open(kind) == desc' = [desc EXCEPT ![LowestFree] = kind]

\* close(f), by a thread of the listener; it may be another part's by now.
Close(f) ==
  /\ desc' = [desc EXCEPT ![f] = None]
  /\ victims' = IF desc[f] = "other" THEN victims + 1 ELSE victims

-----------------------------------------------------------------------------
(* The constructor: init_listen, start                                     *)

MakeSocket ==
  /\ upc = "socket" /\ Free # {}
  /\ Open("listen") /\ sock' = LowestFree /\ upc' = "bind"
  /\ UNCHANGED <<waiting, answer, lpc, conn, mem, client, should_stop, victims>>

\* unlink returns -1 for every failure, which is -EPERM: none of them counts.
\* When bind fails, as it does if the path could not be unlinked, or listen
\* does, the constructor throws and the socket stays open.
BindFails ==
  /\ upc = "bind" /\ Faults \cap {"bind", "listen"} # {}
  /\ upc' = "thrown"
  /\ UNCHANGED <<desc, sock, waiting, answer, lpc, conn, mem, client,
                 should_stop, victims>>

BindAndStart ==
  /\ upc = "bind"
  /\ upc' = "up" /\ lpc' = "accept" /\ should_stop' = FALSE
  /\ UNCHANGED <<desc, sock, waiting, answer, conn, mem, client, victims>>

-----------------------------------------------------------------------------
(* Clients and other threads                                               *)

\* A client connects as long as there is a socket that listens; a thread
\* that is in accept keeps a closed one alive.
ClientConnects(c) ==
  /\ answer[c] = "none"
  /\ upc = "up" \/ lpc = "blocked"
  /\ answer' = [answer EXCEPT ![c] = "pending"]
  /\ waiting' = waiting \cup {c}
  /\ UNCHANGED <<desc, sock, lpc, conn, mem, client, upc, should_stop, victims>>

OtherOpens ==
  /\ Free # {} /\ ~\E f \in Fds : desc[f] = "other"
  /\ Open("other")
  /\ UNCHANGED <<sock, waiting, answer, lpc, conn, mem, client, upc,
                 should_stop, victims>>

OtherCloses ==
  /\ \E f \in Fds : desc[f] = "other" /\ desc' = [desc EXCEPT ![f] = None]
  /\ UNCHANGED <<sock, waiting, answer, lpc, conn, mem, client, upc,
                 should_stop, victims>>

-----------------------------------------------------------------------------
(* worker_proc                                                             *)

\* while (!should_stop), then accept, which takes its number first: EMFILE
\* ends the loop as any other failure does.
EnterAccept ==
  /\ lpc = "accept"
  /\ IF should_stop \/ desc[sock] # "listen" \/ Free = {}
       THEN lpc' = "gone" /\ UNCHANGED <<desc, conn>>
       ELSE lpc' = "blocked" /\ Open("reserved") /\ conn' = LowestFree
  /\ UNCHANGED <<sock, waiting, answer, mem, client, upc, should_stop, victims>>

\* accept returns for a client, also when the socket was closed since.
Accept(c) ==
  /\ lpc = "blocked" /\ c \in waiting
  /\ waiting' = waiting \ {c}
  /\ desc' = [desc EXCEPT ![conn] = c] /\ client' = c
  /\ lpc' = IF should_stop THEN "gone" ELSE "memfd"
  /\ UNCHANGED <<sock, answer, conn, mem, upc, should_stop, victims>>

MakeMemory ==
  /\ lpc = "memfd" /\ Free # {}
  /\ Open("mem") /\ mem' = LowestFree /\ lpc' = "start"
  /\ UNCHANGED <<sock, waiting, answer, conn, client, upc, should_stop,
                 victims>>

\* The client gets no answer; its socket stays open.
MemoryFails ==
  /\ lpc = "memfd"
  /\ Free = {} \/ "memfd" \in Faults
  /\ lpc' = "accept"
  /\ UNCHANGED <<desc, sock, waiting, answer, conn, mem, client, upc,
                 should_stop, victims>>

\* connection_mgr_t::new_connection: when start() fails it closes the
\* descriptor it was lent.
StartFails ==
  /\ lpc = "start" /\ "start" \in Faults
  /\ Close(mem) /\ lpc' = "close"
  /\ UNCHANGED <<sock, waiting, answer, conn, mem, client, upc, should_stop>>

\* start() succeeds: the connection runs, and new_connection asks for the
\* mutex of the connections.
StartConnection ==
  /\ lpc = "start" /\ lpc' = "register"
  /\ UNCHANGED <<desc, sock, waiting, answer, conn, mem, client, upc,
                 should_stop, victims>>

\* Faulty: new_connection closes the descriptor in any case.
StartAndClose ==
  /\ lpc = "register"
  /\ answer' = [answer EXCEPT ![client] = "answered"]
  /\ Close(mem) /\ lpc' = "close"
  /\ UNCHANGED <<sock, waiting, conn, mem, client, upc, should_stop>>

\* The mutex is had, the connection put into the map, and send_fd answers.
StartAndSend ==
  /\ lpc = "register"
  /\ answer' = [answer EXCEPT ![client] = "answered"]
  /\ lpc' = "close"
  /\ UNCHANGED <<desc, sock, waiting, conn, mem, client, upc, should_stop,
                 victims>>

\* close(mem_fd), also when new_connection has closed it; conn is dropped.
CloseMemory ==
  /\ lpc = "close" /\ lpc' = "accept"
  /\ Close(mem)
  /\ conn' = 0 /\ mem' = 0 /\ client' = None
  /\ UNCHANGED <<sock, waiting, answer, upc, should_stop>>

-----------------------------------------------------------------------------
(* The destructor: stop()                                                  *)

\* Faulty: the thread is joined, neither flagged nor cut off.
OnlyJoin ==
  /\ upc = "up" /\ upc' = "join"
  /\ UNCHANGED <<desc, sock, waiting, answer, lpc, conn, mem, client,
                 should_stop, victims>>

SetFlag ==
  /\ upc = "up" /\ upc' = "close" /\ should_stop' = TRUE
  /\ UNCHANGED <<desc, sock, waiting, answer, lpc, conn, mem, client, victims>>

\* close(sock_fd): who is in accept stays there; a backlog that nobody
\* accepts from is dropped.
CloseSocket ==
  /\ upc = "close" /\ upc' = "join"
  /\ Close(sock)
  /\ waiting' = IF lpc = "blocked" THEN waiting ELSE {}
  /\ UNCHANGED <<sock, answer, lpc, conn, mem, client, should_stop>>

Join ==
  /\ upc = "join" /\ lpc = "gone" /\ upc' = "done"
  /\ UNCHANGED <<desc, sock, waiting, answer, lpc, conn, mem, client,
                 should_stop, victims>>

-----------------------------------------------------------------------------

\* Without StartAndSend, which waits for who has the mutex.
ListenerStep ==
  \/ EnterAccept \/ (\E c \in Clients : Accept(c))
  \/ MakeMemory \/ MemoryFails
  \/ StartFails \/ StartConnection \/ CloseMemory

Next ==
  \/ MakeSocket \/ BindFails \/ BindAndStart
  \/ \E c \in Clients : ClientConnects(c)
  \/ OtherOpens \/ OtherCloses
  \/ ListenerStep \/ StartAndSend
  \/ SetFlag \/ CloseSocket \/ Join

\* The two threads run.  Nothing makes a client connect, nor on_disconnected
\* release the mutex, which it holds while it joins a connection's threads.
Fairness ==
  /\ WF_vars(ListenerStep)
  /\ WF_vars(CloseSocket \/ Join)

Spec == Init /\ [][Next]_vars /\ Fairness

-----------------------------------------------------------------------------
(* Properties                                                              *)

TypeOK ==
  /\ desc \in [Fds -> Kinds \cup {None}]
  /\ sock \in 0..MaxFd /\ conn \in 0..MaxFd /\ mem \in 0..MaxFd
  /\ waiting \subseteq Clients
  /\ answer \in [Clients -> {"none", "pending", "answered"}]
  /\ lpc \in {"none", "accept", "blocked", "memfd", "start", "register",
              "close", "gone"}
  /\ client \in Clients \cup {None}
  /\ lpc \in {"memfd", "start", "register", "close"} => desc[conn] = client
  /\ upc \in {"socket", "bind", "thrown", "up", "close", "join", "done"}
  /\ should_stop \in BOOLEAN /\ victims \in Nat

\* A handled connection, failed or not, leaves its accepted socket open and
\* nothing else: every memory file is closed again, however often it failed.
OnlySocketsStayOpen ==
  lpc \in {"accept", "blocked", "gone"} => \A f \in Fds : desc[f] # "mem"

\* The listener closes a descriptor of another part only when a connection
\* did not start: new_connection and worker_proc both close the number then.
ClosesItsOwn ==
  [][victims' # victims =>
       lpc = "close" /\ client # None /\ answer[client] = "pending"]_vars

\* The server stops listening when it is told to, or, because accepted
\* sockets are never closed, when it has no descriptor left: no failure to
\* serve one client ends the loop.
OnlyExhaustionEndsLoop ==
  [][lpc # "gone" /\ lpc' = "gone" => should_stop \/ Free = {}]_vars

\* on_disconnected has the mutex of the connections and does not return.
Locked == [](lpc = "register")

\* A client that waits is accepted, unless the loop has ended or is locked
\* out.
WaitingIsAccepted ==
  \A c \in Clients :
    c \in waiting ~> (c \notin waiting \/ lpc = "gone" \/ Locked)

\* stop() ends, unless the thread is in accept and no client comes, since
\* closing the socket does not wake it, or is locked out.
StopEnds ==
  /\ (upc = "join" /\ lpc # "blocked") ~> (upc = "done" \/ Locked)
  /\ (upc = "join") ~>
       (upc = "done" \/ [](lpc = "blocked" /\ waiting = {}) \/ Locked)

\* What the loop may do to the process, and to the clients that come next.
LoopIsSound ==
  /\ [](TypeOK /\ OnlySocketsStayOpen)
  /\ ClosesItsOwn
  /\ OnlyExhaustionEndsLoop

\* What the loop owes to its clients and to stop().
LoopServes == WaitingIsAccepted /\ StopEnds

=============================================================================
