------------------------------ MODULE ClientLife ------------------------------
(***************************************************************************)
(* An ipc_client_t from its constructor to its destructor: the order in    *)
(* which its members are made and destroyed, against the threads that use  *)
(* them meanwhile - the connector's, which starts with that member and     *)
(* ends in connector_t::stop, the timer thread and the threads of the      *)
(* session.                                                                *)
(*                                                                         *)
(* A life ends when the destructor begins; only the threads that the       *)
(* destructor joins may use the object until then.  A use outside the life *)
(* is recorded in bad.  What it does is undefined; here a session that is  *)
(* started in no connection is lost: its threads run, and nobody knows.    *)
(***************************************************************************)

\* Members of ipc_client_t; "table" is req_processors with its mutex, conn_fd
\* the connector's descriptor, which lives as long as it is open.  The state,
\* an atomic that is made first and goes last, is left out.
Objects == {"timer", "connector", "connection", "table", "conn_fd"}

VARIABLES
  stage,    \* what the thread that owns the client has done
  alive,    \* the objects whose life has begun and not ended
  born,     \* the objects whose life has begun
  stopping, \* should_stop of connector_t
  cpc,      \* the thread of the connector
  fd,       \* what on_connected is called with
  inited,   \* the session of connection
  rpc,      \* its threads: writing, reading, lifetime
  lost,     \* the threads of a session started in no connection run
  tpc,      \* the timer thread
  bad       \* history: <<thread, object, "before" or "after" its life>>

vars == <<stage, alive, born, stopping, cpc, fd, inited, rpc, lost, tpc, bad>>
lifeVars == <<alive, born>>

Init ==
  /\ stage = "new" /\ alive = {} /\ born = {} /\ stopping = TRUE
  /\ cpc = "none" /\ fd = "none" /\ inited = FALSE
  /\ rpc = "none" /\ lost = FALSE /\ tpc = "none" /\ bad = {}

Begin(o) == alive' = alive \cup {o} /\ born' = born \cup {o}
End(o) == alive' = alive \ {o} /\ UNCHANGED born

Use(thread, objects) ==
  bad' = bad \cup {<<thread, o, IF o \in born THEN "after" ELSE "before">> :
                    o \in objects \ alive}

-----------------------------------------------------------------------------
(* The constructor, in the order of the members                            *)

MakeTimer ==
  /\ stage = "new" /\ stage' = "timer"
  /\ Begin("timer") /\ tpc' = "idle"
  /\ UNCHANGED <<stopping, cpc, fd, inited, rpc, lost, bad>>

\* The connector's thread runs from here on.
MakeConnector ==
  /\ stage = "timer" /\ stage' = "connector"
  /\ Begin("connector") /\ stopping' = FALSE /\ cpc' = "connect"
  /\ UNCHANGED <<fd, inited, rpc, lost, tpc, bad>>

\* Sets inited to false, whatever was done to the member before.
MakeConnection ==
  /\ stage = "connector" /\ stage' = "connection"
  /\ Begin("connection") /\ inited' = FALSE
  /\ UNCHANGED <<stopping, cpc, fd, rpc, lost, tpc, bad>>

MakeTable ==
  /\ stage = "connection" /\ stage' = "table"
  /\ Begin("table")
  /\ UNCHANGED <<stopping, cpc, fd, inited, rpc, lost, tpc, bad>>

\* The heartbeat and the reconnect timer are started last.
StartTimers ==
  /\ stage = "table" /\ stage' = "up"
  /\ UNCHANGED <<lifeVars, stopping, cpc, fd, inited, rpc, lost, tpc, bad>>

-----------------------------------------------------------------------------
(* The destructor, in the reverse order                                    *)

DestroyTable ==
  /\ stage = "up" /\ stage' = "noTable"
  /\ End("table")
  /\ UNCHANGED <<stopping, cpc, fd, inited, rpc, lost, tpc, bad>>

\* ~connection_t: the request timer is stopped, then the session, if it is
\* up: its threads see their flag.  One that the connector's thread is
\* stopping is not waited for.
DestroyConnection ==
  /\ stage = "noTable"
  /\ stage' = IF inited THEN "joinSession" ELSE "noConnection"
  /\ End("connection") /\ Use("owner", {"timer"})
  /\ inited' = FALSE /\ rpc' = IF inited THEN "stopping" ELSE rpc
  /\ UNCHANGED <<stopping, cpc, fd, lost, tpc>>

\* They are joined, unless one never returns from what it is in.
JoinSession ==
  /\ stage = "joinSession" /\ stage' = "noConnection"
  /\ rpc # "stopping"
  /\ UNCHANGED <<lifeVars, stopping, cpc, fd, inited, rpc, lost, tpc, bad>>

\* connector_t::stop: the flag, then close(conn_fd) unless it is -1.
StopConnector ==
  /\ stage = "noConnection" /\ stage' = "notify"
  /\ stopping' = TRUE /\ End("conn_fd")
  /\ IF cpc = "closed" THEN Use("owner", {"conn_fd"}) ELSE UNCHANGED bad
  /\ UNCHANGED <<cpc, fd, inited, rpc, lost, tpc>>

\* Faulty: the thread is joined without a notification.
NotifyNobody ==
  /\ stage = "notify" /\ stage' = "join"
  /\ UNCHANGED <<lifeVars, stopping, cpc, fd, inited, rpc, lost, tpc, bad>>

\* notify_one, without the mutex of the wait
NotifyConnector ==
  /\ stage = "notify" /\ stage' = "join"
  /\ cpc' = IF cpc = "wait" THEN "connect" ELSE cpc
  /\ UNCHANGED <<lifeVars, stopping, fd, inited, rpc, lost, tpc, bad>>

JoinConnector ==
  /\ stage = "join" /\ stage' = "noConnector"
  /\ cpc = "gone"
  /\ End("connector")
  /\ UNCHANGED <<stopping, cpc, fd, inited, rpc, lost, tpc, bad>>

\* ~timer_mgr_t: the timer thread sees its flag before the next callback ...
StopTimer ==
  /\ stage = "noConnector" /\ stage' = "joinTimer"
  /\ UNCHANGED <<lifeVars, stopping, cpc, fd, inited, rpc, lost, tpc, bad>>

\* ... and is joined; the client is gone.
DestroyTimer ==
  /\ stage = "joinTimer" /\ stage' = "done"
  /\ tpc = "idle" /\ tpc' = "gone"
  /\ End("timer")
  /\ UNCHANGED <<stopping, cpc, fd, inited, rpc, lost, bad>>

-----------------------------------------------------------------------------
(* connector_t::worker_proc                                                *)

Loop ==
  /\ cpc = "connect" /\ stopping /\ cpc' = "gone"
  /\ UNCHANGED <<stage, lifeVars, stopping, fd, inited, rpc, lost, tpc, bad>>

\* conn_fd = connect_to_server(), or -1
Connect ==
  /\ cpc = "connect" /\ ~stopping
  /\ \/ cpc' = "connected" /\ Begin("conn_fd") /\ fd' = "none"
     \/ cpc' = "refused" /\ UNCHANGED lifeVars /\ fd' = "refused"
  /\ UNCHANGED <<stage, stopping, inited, rpc, lost, tpc, bad>>

\* The flag is looked at before the socket is used; the socket stays open.
Connected ==
  /\ cpc \in {"connected", "refused"}
  /\ cpc' = CASE stopping                        -> "gone"
              [] ~stopping /\ cpc = "refused"   -> "stop"
              [] ~stopping /\ cpc = "connected" -> "recv"
  /\ UNCHANGED <<stage, lifeVars, stopping, fd, inited, rpc, lost, tpc, bad>>

\* recvmsg, on a number that stop() may have closed by now: then it fails.
EnterReceive ==
  /\ cpc = "recv"
  /\ cpc' = IF "conn_fd" \in alive THEN "receiving" ELSE "received"
  /\ Use("connector", {"conn_fd"})
  /\ UNCHANGED <<stage, lifeVars, stopping, fd, inited, rpc, lost, tpc>>

\* The listener answers, or closes its socket.
Receive ==
  /\ cpc = "receiving" /\ cpc' = "received"
  /\ fd' \in {"none", "mem"}
  /\ UNCHANGED <<stage, lifeVars, stopping, inited, rpc, lost, tpc, bad>>

CloseSocket ==
  /\ cpc = "received" /\ cpc' = "closed"
  /\ End("conn_fd") /\ Use("connector", {"conn_fd"})
  /\ UNCHANGED <<stage, stopping, fd, inited, rpc, lost, tpc>>

\* conn_fd = -1, and the flag is looked at again.
ForgetSocket ==
  /\ cpc = "closed" /\ cpc' = IF stopping THEN "gone" ELSE "stop"
  /\ UNCHANGED <<stage, lifeVars, stopping, fd, inited, rpc, lost, tpc, bad>>

\* on_connected: connection.stop() sets the flags of a session ...
StopSession ==
  /\ cpc = "stop"
  /\ Use("connector", {"connection", "timer"})
  /\ IF inited /\ "connection" \in alive
       THEN inited' = FALSE /\ rpc' = "stopping" /\ cpc' = "joining"
       ELSE UNCHANGED <<inited, rpc>> /\ cpc' = "start"
  /\ UNCHANGED <<stage, lifeVars, stopping, fd, lost, tpc>>

\* ... and joins its threads ...
JoinStopped ==
  /\ cpc = "joining" /\ rpc # "stopping" /\ cpc' = "start"
  /\ UNCHANGED <<stage, lifeVars, stopping, fd, inited, rpc, lost, tpc, bad>>

\* ... then connection.start(), or not: without a descriptor, when mapping
\* fails, or when there is no such object.
StartSession ==
  /\ cpc = "start"
  /\ Use("connector", {"connection", "timer"})
  /\ \/ /\ fd = "mem" /\ "connection" \in alive
        /\ inited' = TRUE /\ rpc' = "run" /\ UNCHANGED lost
     \/ /\ fd = "mem" /\ "connection" \notin alive
        /\ lost' = TRUE /\ UNCHANGED <<inited, rpc>>
     \/ UNCHANGED <<inited, rpc, lost>>
  /\ cpc' = IF fd = "refused" THEN "connect" ELSE "prewait"
  /\ UNCHANGED <<stage, lifeVars, stopping, fd, tpc>>

\* After a refusal the loop goes on, otherwise the thread waits.
Wait ==
  /\ cpc = "prewait" /\ cpc' = "wait"
  /\ UNCHANGED <<stage, lifeVars, stopping, fd, inited, rpc, lost, tpc, bad>>

-----------------------------------------------------------------------------
(* The threads of the sessions and the timer thread                        *)

\* write_proc, read_proc and c_lifetime_proc use the members of the
\* connection, which those that the destructor joins may; so does send_packet
\* in a handler, which on_receive_req looks up in the table.
SessionRuns ==
  /\ rpc # "none" \/ lost
  /\ Use("session", IF stage = "joinSession" /\ ~lost THEN {"table"}
                    ELSE {"connection", "table"})
  /\ UNCHANGED <<stage, lifeVars, stopping, cpc, fd, inited, rpc, lost, tpc>>

\* stop() has reached the threads of the session it knows of.
SessionEnds ==
  /\ rpc = "stopping" /\ rpc' = "none"
  /\ UNCHANGED <<stage, lifeVars, stopping, cpc, fd, inited, lost, tpc, bad>>

\* on_heartbeat_timer and on_reconnect_timer, started by the client, run
\* until its timer manager is destroyed.
Heartbeat ==
  /\ tpc = "idle" /\ stage \notin {"new", "timer", "connector", "connection",
                                   "table", "joinTimer", "done"}
  /\ Use("timer", {"connection"})
  /\ UNCHANGED <<stage, lifeVars, stopping, cpc, fd, inited, rpc, lost, tpc>>

Reconnect ==
  /\ tpc = "idle" /\ stage \notin {"new", "timer", "connector", "connection",
                                   "table", "joinTimer", "done"}
  /\ Use("timer", {"connector"})
  /\ cpc' = IF cpc = "wait" THEN "connect" ELSE cpc
  /\ UNCHANGED <<stage, lifeVars, stopping, fd, inited, rpc, lost, tpc>>

\* The timers of the connection and of a lost session: stop_timer does not
\* wait for a callback that was copied before.
CheckFires ==
  /\ tpc = "idle" /\ stage # "joinTimer" /\ tpc' = "check"
  /\ "connection" \in alive \/ lost
  /\ UNCHANGED <<stage, lifeVars, stopping, cpc, fd, inited, rpc, lost, bad>>

Check ==
  /\ tpc = "check" /\ tpc' = "idle"
  /\ Use("timer", {"connection"})
  /\ UNCHANGED <<stage, lifeVars, stopping, cpc, fd, inited, rpc, lost>>

-----------------------------------------------------------------------------

Construct ==
  MakeTimer \/ MakeConnector \/ MakeConnection \/ MakeTable \/ StartTimers

Destruct ==
  \/ DestroyConnection \/ StopConnector
  \/ NotifyConnector \/ JoinConnector \/ StopTimer \/ DestroyTimer

\* Without Receive, which depends on the listener, and JoinStopped.
ConnectorStep ==
  \/ Loop \/ Connect \/ Connected \/ EnterReceive
  \/ CloseSocket \/ ForgetSocket \/ StopSession \/ StartSession \/ Wait

Next ==
  \/ Construct \/ DestroyTable \/ Destruct \/ JoinSession
  \/ ConnectorStep \/ JoinStopped \/ Receive
  \/ SessionRuns \/ SessionEnds
  \/ Heartbeat \/ Reconnect \/ CheckFires \/ Check

\* A destructor that has begun goes on, and the connector's thread runs.
\* Nothing is owed by what runs the user's callbacks, or joins what does: the
\* threads of a session and the checks of the timer thread.
Fairness ==
  /\ WF_vars(Destruct) /\ WF_vars(JoinSession) /\ WF_vars(ConnectorStep)
  /\ WF_vars(JoinStopped)

Spec == Init /\ [][Next]_vars /\ Fairness

-----------------------------------------------------------------------------
(* Properties                                                              *)

TypeOK ==
  /\ stage \in {"new", "timer", "connector", "connection", "table", "up",
                "noTable", "joinSession", "noConnection", "notify", "join",
                "noConnector", "joinTimer", "done"}
  /\ alive \subseteq born /\ born \subseteq Objects
  /\ stopping \in BOOLEAN
  /\ cpc \in {"none", "connect", "connected", "refused", "recv", "receiving",
              "received", "closed", "stop", "joining", "start", "prewait",
              "wait", "gone"}
  /\ cpc = "none" <=> stage \in {"new", "timer"}
  /\ fd \in {"none", "refused", "mem"} /\ inited \in BOOLEAN
  /\ rpc \in {"none", "run", "stopping"} /\ lost \in BOOLEAN
  /\ tpc \in {"none", "idle", "check", "gone"}

\* The ways in which a thread uses a member outside its life, all of them:
\* the connector's thread, and what it starts there or stops meanwhile, before
\* the connection is made and after it is destroyed; the timer's before and
\* after the connection and after the connector; the session's around the
\* table; and the connector's descriptor, which both it and stop() may close.
UsesAreKnown ==
  bad \subseteq
    {<<"connector", "connection", "before">>,
     <<"connector", "connection", "after">>,
     <<"session", "connection", "before">>,
     <<"session", "connection", "after">>,
     <<"timer", "connection", "before">>, <<"timer", "connection", "after">>,
     <<"session", "table", "before">>, <<"session", "table", "after">>,
     <<"timer", "connector", "after">>,
     <<"connector", "conn_fd", "after">>, <<"owner", "conn_fd", "after">>}

\* When the destructor has returned no thread of the client is left, unless
\* the connector's thread started a session in no connection.
NoThreadOutlives ==
  stage = "done" =>
    /\ cpc = "gone" /\ tpc = "gone" /\ rpc = "none"
    /\ lost => \E when \in {"before", "after"} :
                 <<"connector", "connection", when>> \in bad

\* Past the session the destructor returns, unless the connector's thread is
\* in recvmsg, which close(conn_fd) does not wake, or the notification came
\* before its wait; or a callback of the user's does not return, in a session
\* that the connector's thread joins or in a check of the timer thread.
DestructorReturns ==
  stage = "noConnection" ~>
    \/ stage = "done"
    \/ [](cpc = "receiving") \/ [](cpc = "wait")
    \/ [](cpc = "joining") \/ [](tpc = "check")

\* A thread that waits when it is notified, or has not yet entered recvmsg,
\* is joined, and then the timer's if its callback returns.
StoppedConnectorEnds ==
  (stage = "notify" /\ cpc \in {"wait", "connect", "connected", "refused"})
    ~> (stage = "done" \/ [](tpc = "check"))

\* Both together: what stops the client ends.
DestructorEnds == DestructorReturns /\ StoppedConnectorEnds

=============================================================================
