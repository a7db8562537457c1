----------------------------- MODULE ServerLife -----------------------------
(***************************************************************************)
(* An ipc_server_t from its constructor to its destructor.  Its members    *)
(* are the listener, whose thread starts with it, and the connection       *)
(* manager, which is made after the listener and destroyed before it.  The *)
(* manager's own members are the timer, the connections with their mutex   *)
(* and the table of request processors with its mutex.  Here the owner's   *)
(* steps meet the listener's thread, the timer thread and the reading      *)
(* threads of the connections, whose handlers may send.                    *)
(*                                                                         *)
(* A use of a member, or by the timer thread of a connection, outside its  *)
(* life, which ends when the destructor begins, is recorded in bad; what   *)
(* it does is undefined: a connection that is put into a map that does not *)
(* exist is lost, with its threads.                                        *)
(***************************************************************************)
EXTENDS Naturals

CONSTANTS Conns   \* the connections that clients make

\* What is assumed of the constant: tpc tells a connection from its states.
ConstantsOK == Conns \cap {"none", "idle", "gone"} = {}

Objects == {"timer", "connections", "table"}

VARIABLES
  stage,    \* what the thread that owns the server has done
  alive,    \* the objects whose life has begun and not ended
  born,     \* the objects whose life has begun
  flag,     \* should_stop of the listener
  lpc,      \* the listener's thread
  lconn,    \* the connection it is making
  conn,     \* none, live (with its threads), closing, removed, lost, or gone
  tpc,      \* the timer thread: idle, gone, or the connection it checks
  held,     \* it has the mutex of the connections
  bad       \* history: <<thread, object, "before" or "after" its life>>

vars == <<stage, alive, born, flag, lpc, lconn, conn, tpc, held, bad>>
lifeVars == <<alive, born>>

Stages == <<"new", "listener", "timer", "connections", "up", "noTable",
            "noConnections", "joinTimer", "stop", "close", "join", "done">>

TypeOK ==
  /\ stage \in {Stages[i] : i \in 1 .. 12}
  /\ alive \subseteq born /\ born \subseteq Objects
  /\ flag \in BOOLEAN
  /\ lpc \in {"none", "accept", "accepted", "make", "insert", "gone"}
  /\ lconn \in Conns \cup {"none"}
  /\ conn \in [Conns -> {"none", "live", "closing", "removed", "lost",
                       "gone"}]
  /\ tpc \in Conns \cup {"none", "idle", "gone"}
  /\ held \in BOOLEAN /\ (held => tpc \in Conns)
  /\ lpc = "none" <=> stage = "new"

Init ==
  /\ stage = "new" /\ alive = {} /\ born = {} /\ flag = TRUE
  /\ lpc = "none" /\ lconn = "none"
  /\ conn = [k \in Conns |-> "none"]
  /\ tpc = "none" /\ held = FALSE /\ bad = {}

Begin(o) == alive' = alive \cup {o} /\ born' = born \cup {o}
End(o) == alive' = alive \ {o} /\ UNCHANGED born

Misuse(thread, o) ==
  IF o \in alive THEN {}
  ELSE {<<thread, o, IF o \in born THEN "after" ELSE "before">>}

-----------------------------------------------------------------------------
(* The constructor and the destructor                                      *)

\* The listener's thread runs from here on.
MakeListener ==
  /\ stage = "new" /\ stage' = "listener"
  /\ flag' = FALSE /\ lpc' = "accept"
  /\ UNCHANGED <<lifeVars, lconn, conn, tpc, held, bad>>

MakeTimer ==
  /\ stage = "listener" /\ stage' = "timer"
  /\ Begin("timer") /\ tpc' = "idle"
  /\ UNCHANGED <<flag, lpc, lconn, conn, held, bad>>

MakeConnections ==
  /\ stage = "timer" /\ stage' = "connections"
  /\ Begin("connections")
  /\ UNCHANGED <<flag, lpc, lconn, conn, tpc, held, bad>>

MakeTable ==
  /\ stage = "connections" /\ stage' = "up"
  /\ Begin("table")
  /\ UNCHANGED <<flag, lpc, lconn, conn, tpc, held, bad>>

DestroyTable ==
  /\ stage = "up" /\ stage' = "noTable"
  /\ End("table")
  /\ UNCHANGED <<flag, lpc, lconn, conn, tpc, held, bad>>

\* The mutex, then the map: its connections are destroyed one by one.
DestroyConnections ==
  /\ stage = "noTable" /\ stage' = "noConnections"
  /\ End("connections")
  /\ conn' = [k \in Conns |-> IF conn[k] = "live" THEN "closing" ELSE conn[k]]
  /\ UNCHANGED <<flag, lpc, lconn, tpc, held, bad>>

\* ~connection_t stops its timers and joins its threads, which may be in a
\* handler, and waits for the client's lifetime thread.
CloseConnection(k) ==
  /\ stage = "noConnections" /\ conn[k] = "closing"
  /\ conn' = [conn EXCEPT ![k] = "gone"]
  /\ bad' = bad \cup Misuse("owner", "timer")
  /\ UNCHANGED <<stage, lifeVars, flag, lpc, lconn, tpc, held>>

\* All are gone; ~timer_mgr_t sets the flag of its thread.
ConnectionsClosed ==
  /\ stage = "noConnections" /\ stage' = "joinTimer"
  /\ \A k \in Conns : conn[k] # "closing"
  /\ UNCHANGED <<lifeVars, flag, lpc, lconn, conn, tpc, held, bad>>

\* Faulty: the timer thread is not waited for.
DetachTimer ==
  /\ stage = "joinTimer" /\ stage' = "stop"
  /\ End("timer")
  /\ UNCHANGED <<flag, lpc, lconn, conn, tpc, held, bad>>

\* ~timer_mgr_t joins its thread, which finishes its callback first.
DestroyTimer ==
  /\ stage = "joinTimer" /\ stage' = "stop"
  /\ tpc = "idle" /\ tpc' = "gone"
  /\ End("timer")
  /\ UNCHANGED <<flag, lpc, lconn, conn, held, bad>>

\* ~listener_t: should_stop is set last of all, after the manager is gone.
StopListener ==
  /\ stage = "stop" /\ stage' = "close"
  /\ flag' = TRUE
  /\ UNCHANGED <<lifeVars, lpc, lconn, conn, tpc, held, bad>>

\* close(sock_fd) does not wake a thread that is in accept.
CloseSocket ==
  /\ stage = "close" /\ stage' = "join"
  /\ UNCHANGED <<lifeVars, flag, lpc, lconn, conn, tpc, held, bad>>

JoinListener ==
  /\ stage = "join" /\ stage' = "done"
  /\ lpc = "gone"
  /\ UNCHANGED <<lifeVars, flag, lpc, lconn, conn, tpc, held, bad>>

-----------------------------------------------------------------------------
(* The listener's thread                                                   *)

Accept(k) ==
  /\ lpc = "accept"
  /\ conn[k] = "none" /\ lconn' = k /\ lpc' = "accepted"
  /\ UNCHANGED <<stage, lifeVars, flag, conn, tpc, held, bad>>

\* The flag is looked at only behind accept; with the socket closed a new
\* accept fails.
Accepted ==
  /\ lpc = "accepted"
  /\ lpc' = IF flag THEN "gone" ELSE "make"
  /\ UNCHANGED <<stage, lifeVars, flag, lconn, conn, tpc, held, bad>>

\* new_connection up to the insertion: its timers are started in the
\* manager's timer.  When start fails the connection is destroyed again.
MakeConnection ==
  /\ lpc = "make"
  /\ bad' = bad \cup Misuse("listener", "timer")
  /\ \/ /\ lpc' = "insert"
        /\ UNCHANGED <<lconn, conn, held>>
     \/ /\ conn' = [conn EXCEPT ![lconn] = "gone"]
        /\ lpc' = IF flag THEN "gone" ELSE "accept"
        /\ lconn' = "none"
  /\ UNCHANGED <<stage, lifeVars, flag, tpc, held>>

\* Faulty: the listener goes on without an entry.
InsertNothing ==
  /\ lpc = "insert" /\ ~held
  /\ conn' = [conn EXCEPT ![lconn] = "lost"]
  /\ lpc' = IF flag THEN "gone" ELSE "accept"
  /\ lconn' = "none"
  /\ UNCHANGED <<stage, lifeVars, flag, tpc, held, bad>>

\* With the mutex of the connections.
InsertConnection ==
  /\ lpc = "insert" /\ ~held
  /\ bad' = bad \cup Misuse("listener", "connections")
  /\ conn' = [conn EXCEPT ![lconn] =
       IF "connections" \in alive THEN "live" ELSE "lost"]
  /\ lpc' = IF flag THEN "gone" ELSE "accept"
  /\ lconn' = "none"
  /\ UNCHANGED <<stage, lifeVars, flag, tpc, held>>

\* A new accept on the closed descriptor fails.
AcceptFails ==
  /\ lpc = "accept" /\ stage = "join" /\ lpc' = "gone"
  /\ UNCHANGED <<stage, lifeVars, flag, lconn, conn, tpc, held, bad>>

-----------------------------------------------------------------------------
(* The threads of the connections and the timer thread                     *)

\* From start() to the end of its destructor, or for good, also before the
\* listener has inserted it.
Runs(k) ==
  \/ conn[k] \in {"live", "closing", "removed", "lost"}
  \/ lpc = "insert" /\ lconn = k

\* on_receive_req: the mutex of the table, and the table.
ReaderLooksUp(k) ==
  /\ Runs(k)
  /\ bad' = bad \cup Misuse("reader", "table")
  /\ UNCHANGED <<stage, lifeVars, flag, lpc, lconn, conn, tpc, held>>

\* A handler that was found there, or the callback of a call, may send a
\* packet or cancel one: the mutex of the connections, shared, and the map.
HandlerSends(k) ==
  /\ Runs(k) /\ "table" \in born
  /\ bad' = bad \cup Misuse("reader", "connections")
  /\ UNCHANGED <<stage, lifeVars, flag, lpc, lconn, conn, tpc, held>>

\* A timer of the connection has fired; the timer thread sees its flag before
\* the next callback.
CheckFires(k) ==
  /\ tpc = "idle" /\ stage # "joinTimer"
  /\ Runs(k)
  /\ tpc' = k
  /\ UNCHANGED <<stage, lifeVars, flag, lpc, lconn, conn, held, bad>>

\* on_alive_check_timer has found a silent connection, which may be gone by
\* now.  on_disconnected takes the mutex of the connections and erases: the
\* connection's destructor begins ...
RemoveConnection ==
  /\ tpc \in Conns /\ ~held
  /\ bad' = bad \cup Misuse("timer", "connections")
       \cup (IF conn[tpc] \in {"closing", "gone"}
               THEN {<<"timer", "connection", "after">>} ELSE {})
  /\ IF "connections" \in alive /\ conn[tpc] = "live"
       THEN /\ conn' = [conn EXCEPT ![tpc] = "removed"]
            /\ held' = TRUE /\ UNCHANGED tpc
       ELSE tpc' = "idle" /\ UNCHANGED <<conn, held>>
  /\ UNCHANGED <<stage, lifeVars, flag, lpc, lconn>>

\* ... and ends, after what CloseConnection waits for.
ConnectionRemoved ==
  /\ held /\ held' = FALSE
  /\ bad' = bad \cup Misuse("timer", "timer")
  /\ conn' = [conn EXCEPT ![tpc] = "gone"]
  /\ tpc' = "idle"
  /\ UNCHANGED <<stage, lifeVars, flag, lpc, lconn>>

\* The connection is not silent, or it was the check of its requests.
CheckReturns ==
  /\ tpc \in Conns /\ ~held /\ tpc' = "idle"
  /\ bad' = bad \cup
       (IF conn[tpc] \in {"closing", "gone"}
          THEN {<<"timer", "connection", "after">>} ELSE {})
  /\ UNCHANGED <<stage, lifeVars, flag, lpc, lconn, conn, held>>

-----------------------------------------------------------------------------

Construct == MakeListener \/ MakeTimer \/ MakeConnections \/ MakeTable

\* Without CloseConnection, which waits for what may not return.
Destruct ==
  \/ DestroyConnections \/ ConnectionsClosed \/ DestroyTimer
  \/ StopListener \/ CloseSocket \/ JoinListener

\* Without Accept, which depends on the clients.  AcceptFails is for a call
\* of accept that is made after the close, not for one that waits.
ListenerStep == Accepted \/ MakeConnection \/ InsertConnection

ConnectionStep(k) ==
  \/ CloseConnection(k)
  \/ Accept(k) \/ ReaderLooksUp(k) \/ HandlerSends(k) \/ CheckFires(k)

Next ==
  \/ Construct \/ DestroyTable \/ Destruct
  \/ ListenerStep \/ AcceptFails
  \/ (\E k \in Conns : ConnectionStep(k))
  \/ RemoveConnection \/ ConnectionRemoved \/ CheckReturns

\* A constructor or destructor that has begun goes on, and the listener's
\* thread runs.  Nothing is owed by what runs the user's callbacks, or joins
\* what does: the readers, the timer thread and the connections' destructors.
Fairness ==
  WF_vars(Construct) /\ WF_vars(Destruct) /\ WF_vars(ListenerStep)

Spec == Init /\ [][Next]_vars /\ Fairness

-----------------------------------------------------------------------------
(* Properties                                                              *)

\* The ways in which a thread uses a member outside its life, all of them:
\* the listener on both sides of the manager's life, and the readers and the
\* timer around the table and the map, whose mutexes are made after the
\* listener's thread runs and go before the connections do; and a late check
\* of a connection.  The timer itself is there whenever a connection stops
\* its timers.
UsesAreKnown ==
  bad \subseteq
    {<<"listener", "timer", "before">>, <<"listener", "timer", "after">>,
     <<"listener", "connections", "before">>,
     <<"listener", "connections", "after">>,
     <<"reader", "table", "before">>, <<"reader", "table", "after">>,
     <<"timer", "connections", "before">>,
     <<"timer", "connections", "after">>,
     <<"reader", "connections", "after">>,
     <<"timer", "connection", "after">>}

\* When the destructor has returned the listener and the timer have no
\* thread, and only a connection that the listener put into a map outside
\* its life still has any.
NoThreadOutlives ==
  stage = "done" =>
    /\ lpc = "gone" /\ tpc = "gone"
    /\ \A k \in Conns :
         \/ conn[k] \in {"none", "gone"}
         \/ /\ conn[k] = "lost"
            /\ \E when \in {"before", "after"} :
                 <<"listener", "connections", when>> \in bad

\* The destructor comes to the join of the listener's thread, unless a
\* connection that it closes, or the timer thread in a connection's callback,
\* never returns: the timer's holds no lock that the rest needs.
DestructorReachesJoin ==
  stage = "noTable" ~>
    \/ stage = "join"
    \/ [](\E k \in Conns : conn[k] = "closing") \/ [](tpc \in Conns)

\* There a thread that is on its way through new_connection is joined: it
\* looks at the flag before the next accept.  One that is in accept may stay.
BusyListenerEnds ==
  (stage = "join" /\ lpc # "accept") ~> stage = "done"

\* Both together: what stops the server ends.
DestructorEnds == DestructorReachesJoin /\ BusyListenerEnds

=============================================================================
