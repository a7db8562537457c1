---------------------------- MODULE ServerRegistry ----------------------------
(***************************************************************************)
(* The threads of an ipc_server_t and the locks they take: the listener's  *)
(* thread in connection_mgr_t::new_connection, the timer thread running    *)
(* the alive and the timeout check of each connection, the reading and the *)
(* writing thread of each connection, and a thread of the application.     *)
(*                                                                         *)
(* connections_mutex, req_processors_mutex and, per connection,            *)
(* waiting_for_sending_packets_mutex and                                   *)
(* waiting_for_response_requests_mutex: a lock is a variable where code    *)
(* that may block runs under it; a section that cannot block is one step.  *)
(* Handlers and callbacks belong to the application and may call the       *)
(* manager again.  connections_mutex lets readers in while a writer waits, *)
(* which is what std::shared_mutex does on Linux.                          *)
(***************************************************************************)
CONSTANTS
  Conns,          \* connection ids, each given to one connection
  None,
  HandlerCalls,   \* what a request processor calls
  CallbackCalls   \* what the callback of a request calls

Operations == {"send", "cancel", "register"}

ASSUME HandlerAssumption == HandlerCalls \subseteq Operations
ASSUME CallbackAssumption == CallbackCalls \subseteq Operations

Acceptor == <<"acceptor", None>>
Timer == <<"timer", None>>
App == <<"app", None>>
R(c) == <<"reader", c>>
W(c) == <<"writer", c>>
Threads ==
  {Acceptor, Timer, App} \cup {R(c) : c \in Conns} \cup {W(c) : c \in Conns}
Callers == {Timer, App} \cup {R(c) : c \in Conns}

\* Calls of the manager: waiting to look the connection up, or using it.
ManagerCalls == [op : Operations, conn : Conns \cup {None},
                 at : {"enter", "queue", "table"}]

ASSUME NoneAssumption == None \notin Conns \cup Threads \cup ManagerCalls

VARIABLES
  life,         \* each connection_t: unborn, constructed, running; dead when
                \* the timer thread destroyed it, failed when new_connection did
  registered,   \* the keys of connections
  stopped,      \* connections whose threads were told to stop
  reader,       \* the reading threads
  writer,       \* the writing threads
  mgrLock,      \* who holds connections_mutex alone
  sharers,      \* who shares it
  procLock,     \* who holds req_processors_mutex
  queueLock,    \* waiting_for_sending_packets_mutex of each connection
  tableLock,    \* waiting_for_response_requests_mutex of each connection
  api,          \* each thread's call of the manager, None outside of one
  starting,     \* the connection new_connection works on
  tpc,          \* the timer thread
  tconn         \* the connection whose check it runs

connVars == <<life, stopped>>
locks == <<mgrLock, sharers, procLock, queueLock, tableLock>>
timerVars == <<tpc, tconn>>
vars == <<life, registered, stopped, reader, writer, mgrLock, sharers,
          procLock, queueLock, tableLock, api, starting, tpc, tconn>>

Init ==
  /\ life = [c \in Conns |-> "unborn"]
  /\ registered = {} /\ stopped = {}
  /\ reader = [c \in Conns |-> "none"] /\ writer = [c \in Conns |-> "none"]
  /\ mgrLock = None /\ sharers = {} /\ procLock = None
  /\ queueLock = [c \in Conns |-> None] /\ tableLock = [c \in Conns |-> None]
  /\ api = [t \in Callers |-> None]
  /\ starting = None
  /\ tpc = "idle" /\ tconn = None

-----------------------------------------------------------------------------
(* connection_mgr_t::new_connection, in the listener's thread              *)

\* The constructor starts the timer of the timeout check.
Construct(c) ==
  /\ starting = None /\ life[c] = "unborn"
  /\ starting' = c
  /\ life' = [life EXCEPT ![c] = "constructed"]
  /\ UNCHANGED <<registered, stopped, reader, writer, locks, api,
                 timerVars>>

StartConnection(c) ==
  /\ starting = c /\ life[c] = "constructed"
  /\ life' = [life EXCEPT ![c] = "running"]
  /\ reader' = [reader EXCEPT ![c] = "idle"]
  /\ writer' = [writer EXCEPT ![c] = "idle"]
  /\ UNCHANGED <<registered, stopped, locks, api, starting, timerVars>>

\* start() returns false: the connection is destroyed at once, in this thread.
StartFails(c) ==
  /\ starting = c /\ life[c] = "constructed"
  /\ starting' = None
  /\ life' = [life EXCEPT ![c] = "failed"]
  /\ UNCHANGED <<registered, stopped, reader, writer, locks, api,
                 timerVars>>

RegisterConnection ==
  /\ starting # None /\ life[starting] = "running"
  /\ mgrLock = None /\ sharers = {}
  /\ registered' = registered \cup {starting}
  /\ starting' = None
  /\ UNCHANGED <<connVars, reader, writer, locks, api, timerVars>>

-----------------------------------------------------------------------------
(* Calls of send_packet, cancel_sending and register_request_processor     *)

\* What the application's code that t runs now may call.
MayCall(t) ==
  {op \in Operations :
     \/ t = App
     \/ t = Timer /\ tpc \in {"tableCb", "queueCb"} /\ op \in CallbackCalls
     \/ \E c \in Conns :
          /\ t = R(c)
          /\ \/ reader[c] = "handler" /\ op \in HandlerCalls
             \/ reader[c] = "callback" /\ op \in CallbackCalls}

Call(t) ==
  /\ api[t] = None
  /\ \E op \in MayCall(t), c \in Conns \cup {None} :
       /\ c = None <=> op = "register"
       /\ api' = [api EXCEPT ![t] = [op |-> op, conn |-> c, at |-> "enter"]]
  /\ UNCHANGED <<connVars, registered, reader, writer, locks, starting,
                 timerVars>>

Calling(t, ops, where) ==
  api[t] # None /\ api[t].op \in ops /\ api[t].at = where

\* Faulty: the connection is used after connections_mutex is released.
EnterBriefly(t) ==
  /\ Calling(t, {"send", "cancel"}, "enter")
  /\ mgrLock = None
  /\ api' = [api EXCEPT ![t] = IF api[t].conn \in registered
                                 THEN [@ EXCEPT !.at = "queue"] ELSE None]
  /\ UNCHANGED <<connVars, registered, reader, writer, locks, starting,
                 timerVars>>

\* Share connections_mutex and look the connection up.
Enter(t) ==
  /\ Calling(t, {"send", "cancel"}, "enter")
  /\ mgrLock = None
  /\ IF api[t].conn \in registered
       THEN /\ api' = [api EXCEPT ![t].at = "queue"]
            /\ sharers' = sharers \cup {t}
       ELSE api' = [api EXCEPT ![t] = None] /\ UNCHANGED sharers
  /\ UNCHANGED <<connVars, registered, reader, writer, mgrLock, procLock,
                 queueLock, tableLock, starting, timerVars>>

\* The queue: push to it, or erase from it and go on to the table.
UseQueue(t) ==
  /\ Calling(t, {"send", "cancel"}, "queue")
  /\ queueLock[api[t].conn] = None
  /\ IF api[t].op = "send"
       THEN api' = [api EXCEPT ![t] = None] /\ sharers' = sharers \ {t}
       ELSE api' = [api EXCEPT ![t].at = "table"] /\ UNCHANGED sharers
  /\ UNCHANGED <<connVars, registered, reader, writer, mgrLock, procLock,
                 queueLock, tableLock, starting, timerVars>>

UseTable(t) ==
  /\ Calling(t, {"cancel"}, "table")
  /\ tableLock[api[t].conn] = None
  /\ api' = [api EXCEPT ![t] = None] /\ sharers' = sharers \ {t}
  /\ UNCHANGED <<connVars, registered, reader, writer, mgrLock, procLock,
                 queueLock, tableLock, starting, timerVars>>

RegisterProcessor(t) ==
  /\ Calling(t, {"register"}, "enter")
  /\ procLock = None
  /\ api' = [api EXCEPT ![t] = None]
  /\ UNCHANGED <<connVars, registered, reader, writer, locks, starting,
                 timerVars>>

CallStep(t) == Enter(t) \/ UseQueue(t) \/ UseTable(t) \/ RegisterProcessor(t)

-----------------------------------------------------------------------------
(* read_proc, process_packet and on_receive_req, in the reading thread     *)

ReaderMoves(c, from, to) ==
  /\ reader[c] = from
  /\ reader' = [reader EXCEPT ![c] = to]
  /\ UNCHANGED <<connVars, registered, writer, mgrLock, sharers, queueLock,
                 api, starting, timerVars>>

\* A packet: a request or a response.  The flags are tested between batches of
\* packets, so a reader may take more of them after it was stopped.
ReaderTakes(c) ==
  /\ \E to \in {"lookup", "match"} : ReaderMoves(c, "idle", to)
  /\ UNCHANGED <<procLock, tableLock>>

ReaderLooksUp(c) ==
  /\ procLock = None
  /\ \/ ReaderMoves(c, "lookup", "handler") /\ procLock' = R(c)
     \/ ReaderMoves(c, "lookup", "idle") /\ UNCHANGED procLock
  /\ UNCHANGED tableLock

HandlerReturns(c) ==
  /\ api[R(c)] = None
  /\ ReaderMoves(c, "handler", "idle")
  /\ procLock' = None
  /\ UNCHANGED tableLock

\* Only a connection that was registered was ever sent a request.
ReaderMatches(c) ==
  /\ tableLock[c] = None
  /\ \/ /\ ReaderMoves(c, "match", "callback") /\ starting # c
        /\ tableLock' = [tableLock EXCEPT ![c] = R(c)]
     \/ ReaderMoves(c, "match", "idle") /\ UNCHANGED tableLock
  /\ UNCHANGED procLock

CallbackReturns(c) ==
  /\ api[R(c)] = None
  /\ ReaderMoves(c, "callback", "idle")
  /\ tableLock' = [tableLock EXCEPT ![c] = None]
  /\ UNCHANGED procLock

\* Stopped, or its robust mutex failed, or it woke for nothing.
ReaderLeaves(c) ==
  ReaderMoves(c, "idle", "gone") /\ UNCHANGED <<procLock, tableLock>>

-----------------------------------------------------------------------------
(* write_proc, in the writing thread                                       *)

WriterMoves(c, from, to) ==
  /\ writer[c] = from
  /\ writer' = [writer EXCEPT ![c] = to]
  /\ UNCHANGED <<connVars, registered, reader, locks, api, starting, timerVars>>

WriterPops(c) ==
  /\ queueLock[c] = None /\ c \notin stopped
  /\ WriterMoves(c, "idle", "popped")

\* There is room: commit a push, or go on to register a request.
WriterIsReady(c) ==
  /\ c \notin stopped
  /\ \E to \in {"idle", "register"} : WriterMoves(c, "popped", to)

WriterRegisters(c) ==
  /\ tableLock[c] = None
  /\ WriterMoves(c, "register", "idle")

\* Stopped at the queue, or stopped or given up at the robust mutex.
WriterLeaves(c) ==
  \/ c \in stopped /\ queueLock[c] = None /\ WriterMoves(c, "idle", "gone")
  \/ WriterMoves(c, "popped", "gone")

-----------------------------------------------------------------------------
(* timer_mgr_t::worker_proc                                                *)

HasTimer(kind, c) ==
  \/ life[c] = "running"
  \/ life[c] = "constructed" /\ kind = "timeout"

\* An expired timer that was not stopped since epoll_wait returned it.
TimerFires(kind, c) ==
  /\ tpc = "idle" /\ HasTimer(kind, c)
  /\ tpc' = kind /\ tconn' = c
  /\ UNCHANGED <<connVars, registered, reader, writer, locks, api, starting>>

TimerMoves(from, to) ==
  /\ tpc = from /\ tpc' = to
  /\ UNCHANGED <<tconn, reader, writer, sharers, procLock, api, starting>>

\* on_alive_check_timer: the peer was silent too long, or it was not.
AliveCheck ==
  /\ \E to \in {"erase", "idle"} : TimerMoves("alive", to)
  /\ UNCHANGED <<life, stopped, registered, mgrLock, queueLock, tableLock>>

\* on_disconnected: connections.erase under connections_mutex.
Erase ==
  /\ mgrLock = None /\ sharers = {}
  /\ IF tconn \in registered
       THEN /\ TimerMoves("erase", "stop")
            /\ mgrLock' = Timer /\ registered' = registered \ {tconn}
       ELSE TimerMoves("erase", "idle") /\ UNCHANGED <<mgrLock, registered>>
  /\ UNCHANGED <<life, stopped, queueLock, tableLock>>

\* ~connection_t: stop() sets the flags and signals ...
StopThreads ==
  /\ TimerMoves("stop", "joinW")
  /\ stopped' = stopped \cup {tconn}
  /\ UNCHANGED <<life, registered, mgrLock, queueLock, tableLock>>

\* ... joins ...
JoinWriter ==
  /\ TimerMoves("joinW", "joinR") /\ writer[tconn] = "gone"
  /\ UNCHANGED <<life, stopped, registered, mgrLock, queueLock, tableLock>>

JoinReader ==
  /\ TimerMoves("joinR", "lifetime") /\ reader[tconn] = "gone"
  /\ UNCHANGED <<life, stopped, registered, mgrLock, queueLock, tableLock>>

\* ... and waits for c_lifetime_lock, which the client gives up when it is told
\* to or dies, at a moment nothing here depends on.
Destroy ==
  /\ TimerMoves("lifetime", "idle")
  /\ life' = [life EXCEPT ![tconn] = "dead"]
  /\ mgrLock' = None
  /\ UNCHANGED <<stopped, registered, queueLock, tableLock>>

\* on_request_timeout_check_timer: callbacks under the table's mutex, then
\* under the queue's.
ScanTable ==
  /\ tpc = "timeout" /\ tableLock[tconn] = None
  /\ \/ /\ TimerMoves("timeout", "tableCb") /\ tconn \in registered
        /\ tableLock' = [tableLock EXCEPT ![tconn] = Timer]
     \/ TimerMoves("timeout", "queue") /\ UNCHANGED tableLock
  /\ UNCHANGED <<life, stopped, registered, mgrLock, queueLock>>

\* Faulty: the mutex of the table is not released.
TableScannedLocked ==
  /\ api[Timer] = None
  /\ TimerMoves("tableCb", "queue")
  /\ UNCHANGED <<life, stopped, registered, mgrLock, queueLock, tableLock>>

TableScanned ==
  /\ api[Timer] = None
  /\ TimerMoves("tableCb", "queue")
  /\ tableLock' = [tableLock EXCEPT ![tconn] = None]
  /\ UNCHANGED <<life, stopped, registered, mgrLock, queueLock>>

ScanQueue ==
  /\ tpc = "queue" /\ queueLock[tconn] = None
  /\ \/ /\ TimerMoves("queue", "queueCb") /\ tconn \in registered
        /\ queueLock' = [queueLock EXCEPT ![tconn] = Timer]
     \/ TimerMoves("queue", "idle") /\ UNCHANGED queueLock
  /\ UNCHANGED <<life, stopped, registered, mgrLock, tableLock>>

QueueScanned ==
  /\ api[Timer] = None
  /\ TimerMoves("queueCb", "idle")
  /\ queueLock' = [queueLock EXCEPT ![tconn] = None]
  /\ UNCHANGED <<life, stopped, registered, mgrLock, tableLock>>

-----------------------------------------------------------------------------

ReaderStep(c) ==
  \/ ReaderTakes(c) \/ ReaderLooksUp(c) \/ HandlerReturns(c)
  \/ ReaderMatches(c) \/ CallbackReturns(c) \/ ReaderLeaves(c)

WriterStep(c) ==
  \/ WriterPops(c) \/ WriterIsReady(c) \/ WriterRegisters(c)
  \/ WriterLeaves(c)

TimerStep ==
  \/ \E kind \in {"alive", "timeout"}, c \in Conns : TimerFires(kind, c)
  \/ AliveCheck \/ Erase \/ StopThreads \/ JoinWriter \/ JoinReader \/ Destroy
  \/ ScanTable \/ TableScanned \/ ScanQueue \/ QueueScanned

Next ==
  \/ \E c \in Conns :
       \/ Construct(c) \/ StartConnection(c) \/ StartFails(c)
       \/ ReaderStep(c) \/ WriterStep(c)
  \/ RegisterConnection
  \/ \E t \in Callers : Call(t) \/ CallStep(t)
  \/ TimerStep

Spec == Init /\ [][Next]_vars

-----------------------------------------------------------------------------
(* Who waits for whom                                                      *)

NeedsShared(t) == t \in Callers /\ Calling(t, {"send", "cancel"}, "enter")

NeedsExclusive(t) ==
  \/ t = Acceptor /\ starting # None /\ life[starting] = "running"
  \/ t = Timer /\ tpc = "erase"

NeedsProcs(t) ==
  \/ t \in Callers /\ Calling(t, {"register"}, "enter")
  \/ \E c \in Conns : t = R(c) /\ reader[c] = "lookup"

NeedsQueue(t, c) ==
  \/ t \in Callers /\ Calling(t, {"send", "cancel"}, "queue") /\ api[t].conn = c
  \/ t = W(c) /\ writer[c] = "idle"
  \/ t = Timer /\ tpc = "queue" /\ tconn = c

NeedsTable(t, c) ==
  \/ t \in Callers /\ Calling(t, {"cancel"}, "table") /\ api[t].conn = c
  \/ t = R(c) /\ reader[c] = "match"
  \/ t = W(c) /\ writer[c] = "register"
  \/ t = Timer /\ tpc = "timeout" /\ tconn = c

\* Thread t cannot go on before thread u has.
Awaits(t, u) ==
  \/ u = mgrLock /\ (NeedsShared(t) \/ NeedsExclusive(t))
  \/ u \in sharers /\ NeedsExclusive(t)
  \/ u = procLock /\ NeedsProcs(t)
  \/ \E c \in Conns : u = queueLock[c] /\ NeedsQueue(t, c)
  \/ \E c \in Conns : u = tableLock[c] /\ NeedsTable(t, c)
  \/ t = Timer /\ tpc = "joinW" /\ u = W(tconn) /\ writer[tconn] # "gone"
  \/ t = Timer /\ tpc = "joinR" /\ u = R(tconn) /\ reader[tconn] # "gone"

Blocked == {t \in Threads : \E u \in Threads : Awaits(t, u)}

\* Each thread in S waits for another one in it, or for itself.
Circle(S) == S # {} /\ \A t \in S : \E u \in S : Awaits(t, u)

-----------------------------------------------------------------------------
(* Properties                                                              *)

TypeOK ==
  /\ life \in [Conns -> {"unborn", "constructed", "running", "dead", "failed"}]
  /\ registered \subseteq Conns /\ stopped \subseteq Conns
  /\ reader \in [Conns -> {"none", "idle", "lookup", "handler", "match",
                          "callback", "gone"}]
  /\ writer \in [Conns -> {"none", "idle", "popped", "register", "gone"}]
  /\ mgrLock \in {None, Timer} /\ sharers \subseteq Callers
  /\ procLock \in {None} \cup {R(c) : c \in Conns}
  /\ queueLock \in [Conns -> {None, Timer}]
  /\ tableLock \in [Conns -> {None, Timer} \cup {R(c) : c \in Conns}]
  /\ \A c \in Conns : procLock = R(c) <=> reader[c] = "handler"
  /\ api \in [Callers -> {None} \cup ManagerCalls]
  /\ starting \in Conns \cup {None}
  /\ tpc \in {"idle", "alive", "erase", "stop", "joinW", "joinR", "lifetime",
              "timeout", "tableCb", "queue", "queueCb"}
  /\ tconn \in Conns \cup {None} /\ (tpc # "idle" => tconn \in Conns)

\* Nobody uses a connection that on_disconnected has begun to destroy: not a
\* call of send_packet or cancel_sending that has looked it up, nor the timer
\* thread with a callback it has copied, except for one that new_connection
\* destroys because it did not start.
UsedIsAlive ==
  /\ \A t \in sharers : api[t] # None /\ api[t].conn \in registered
  /\ \A t \in Callers :
       api[t] # None /\ api[t].at # "enter" => life[api[t].conn] = "running"
  /\ tpc # "idle" => life[tconn] \in {"constructed", "running", "failed"}

\* Threads wait for each other in a circle in three cases only.  The timer
\* thread, holding connections_mutex, joins a reading thread while a handler or
\* a callback, perhaps of another connection, calls the manager; or it joins a
\* writing thread that waits to register a request while a callback of that
\* connection calls the manager; or the callback of a request that timed out on
\* the queue uses that queue.
CirclesAreKnown ==
  \A S \in SUBSET Blocked :
    Circle(S) =>
      /\ Timer \in S
      /\ \/ /\ tpc = "joinR"
            /\ \E c \in Conns : R(c) \in S /\ api[R(c)] # None
         \/ /\ tpc = "joinW" /\ writer[tconn] = "register"
            /\ reader[tconn] = "callback" /\ api[R(tconn)] # None
         \/ tpc = "queueCb" /\ api[Timer] # None /\ api[Timer].conn = tconn

=============================================================================
