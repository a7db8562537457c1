---------------------------- MODULE ClientSession ----------------------------
(***************************************************************************)
(* How an ipc_client_t keeps a session with its server: the thread of      *)
(* connector_t with the on_connected it calls, the timer thread with the   *)
(* alive check of connection_t and the reconnect check of ipc_client_t,    *)
(* the lifetime thread of the session, and connection_state, which the     *)
(* three write without a lock.                                             *)
(*                                                                         *)
(* The server is reduced to what a client sees of it: a listener that      *)
(* refuses, answers or leaves a connection unanswered, and the server's    *)
(* half of the session, which ends with or without a broadcast.            *)
(***************************************************************************)
CONSTANT Faults   \* which of FaultKinds the surroundings may show

FaultKinds == 
  {"refuse", "mute", "close", "nomap", "leave", "crash", "spurious"}

ASSUME FaultsAssumption == Faults \subseteq FaultKinds

VARIABLES
  cpc,      \* the connector thread
  answer,   \* what the listener did with the connection being received from
  fd,       \* what on_connected is called with
  state,    \* connection_state
  inited,   \* inited of connection_t; its alive timer exists with it
  peer,     \* the server's half of the session lives
  silent,   \* last_recv_time is longer ago than a connection's lifetime
  lpc,      \* the lifetime thread of the session
  tpc       \* the timer thread

serverVars == <<answer, peer>>
vars == <<cpc, answer, fd, state, inited, peer, silent, lpc, tpc>>

Init ==
  /\ cpc = "connect" /\ answer = "none" /\ fd = "none"
  /\ state = "connecting"
  /\ inited = FALSE /\ peer = FALSE /\ silent = FALSE
  /\ lpc = "none" /\ tpc = "idle"

-----------------------------------------------------------------------------
(* The listener, seen from the client's socket                             *)

\* send_fd, or nothing: after memfd_create or new_connection has failed the
\* accepted socket is neither written nor closed.
ListenerHandles ==
  /\ answer = "pending"
  /\ \/ answer' = "sent"
     \/ "mute" \in Faults /\ answer' = "mute"
  /\ UNCHANGED <<cpc, fd, state, inited, peer, silent, lpc, tpc>>

\* The server process ends, and its sockets with it.
ListenerCloses ==
  /\ "close" \in Faults
  /\ answer \in {"pending", "mute"} /\ answer' = "closed"
  /\ UNCHANGED <<cpc, fd, state, inited, peer, silent, lpc, tpc>>

-----------------------------------------------------------------------------
(* connector_t::worker_proc                                                *)

Connect ==
  /\ cpc = "connect"
  /\ cpc' = "recv" /\ answer' = "pending"
  /\ UNCHANGED <<fd, state, inited, peer, silent, lpc, tpc>>

\* cb(0, -1), and the loop goes on without waiting.
ConnectFails ==
  /\ "refuse" \in Faults
  /\ cpc = "connect"
  /\ cpc' = "stop" /\ fd' = "refused"
  /\ UNCHANGED <<serverVars, state, inited, silent, lpc, tpc>>

\* receive_fd
Receive ==
  /\ cpc = "recv" /\ answer \in {"sent", "closed"}
  /\ fd' = IF answer = "sent" THEN "mem" ELSE "none"
  /\ cpc' = "stop" /\ answer' = "none"
  /\ UNCHANGED <<state, inited, peer, silent, lpc, tpc>>

\* cond.wait, without a predicate
Wait ==
  /\ cpc = "prewait" /\ cpc' = "wait"
  /\ UNCHANGED <<serverVars, fd, state, inited, silent, lpc, tpc>>

SpuriousWakeup ==
  /\ "spurious" \in Faults
  /\ cpc = "wait" /\ cpc' = "connect"
  /\ UNCHANGED <<serverVars, fd, state, inited, silent, lpc, tpc>>

-----------------------------------------------------------------------------
(* ipc_client_t::on_connected: connection.stop(), connection.start()       *)

\* Faulty: a session that was reported disconnected is not joined.
StopConnectedSession ==
  /\ cpc = "stop"
  /\ cpc' = IF inited /\ state # "disconnected" THEN "join" ELSE "start"
  /\ inited' = FALSE
  /\ UNCHANGED <<serverVars, fd, state, silent, lpc, tpc>>

StopSession ==
  /\ cpc = "stop"
  /\ cpc' = IF inited THEN "join" ELSE "start"
  /\ inited' = FALSE
  /\ UNCHANGED <<serverVars, fd, state, silent, lpc, tpc>>

\* Faulty: the lifetime thread is joined without a signal.
JoinThreadsSilently ==
  /\ cpc = "join"
  /\ cpc' = "joinLifetime"
  /\ UNCHANGED <<serverVars, fd, state, inited, silent, lpc, tpc>>

\* The reading and the writing thread are joined, then the lifetime thread
\* is signalled, which may not be waiting yet.
JoinThreads ==
  /\ cpc = "join"
  /\ lpc' = IF lpc = "waiting" THEN "leaving" ELSE lpc
  /\ cpc' = "joinLifetime"
  /\ UNCHANGED <<serverVars, fd, state, inited, silent, tpc>>

JoinLifetime ==
  /\ cpc = "joinLifetime" /\ lpc = "ended"
  /\ lpc' = "none" /\ cpc' = "start"
  /\ UNCHANGED <<serverVars, fd, state, inited, silent, tpc>>

\* The server may have ended its half before the client starts the other.
StartSession ==
  /\ cpc = "start" /\ fd = "mem"
  /\ inited' = TRUE /\ lpc' = "starting" /\ silent' = FALSE
  /\ peer' \in {TRUE, Faults \cap {"leave", "crash"} = {}}
  /\ cpc' = "report"
  /\ UNCHANGED <<answer, fd, state, tpc>>

\* No descriptor, or one that cannot be mapped.
StartFails ==
  /\ cpc = "start"
  /\ fd # "mem" \/ "nomap" \in Faults
  /\ cpc' = "report"
  /\ UNCHANGED <<serverVars, fd, state, inited, silent, lpc, tpc>>

\* Faulty: a failed start leaves the state as it was.
ReportSuccessOnly ==
  /\ cpc = "report"
  /\ state' = IF inited THEN "connected" ELSE state
  /\ cpc' = IF fd = "refused" THEN "connect" ELSE "prewait"
  /\ fd' = "none"
  /\ UNCHANGED <<serverVars, inited, silent, lpc, tpc>>

ReportState ==
  /\ cpc = "report"
  /\ state' = IF inited THEN "connected" ELSE "disconnected"
  /\ cpc' = IF fd = "refused" THEN "connect" ELSE "prewait"
  /\ fd' = "none"
  /\ UNCHANGED <<serverVars, inited, silent, lpc, tpc>>

-----------------------------------------------------------------------------
(* c_lifetime_proc                                                         *)

\* Where the server has left first, it has destroyed the mutexes: the second
\* lock fails, and the thread ends without a word.  (A server that crashed
\* before the start is not told from one that left.)
LifetimeWaits ==
  /\ lpc = "starting"
  /\ \/ lpc' = "waiting"
     \/ "leave" \in Faults /\ ~peer /\ lpc' = "ended"
  /\ UNCHANGED <<cpc, serverVars, fd, state, inited, silent, tpc>>

\* Woken: on_disconnected, also when the client itself stops the session.
LifetimeReports ==
  /\ lpc = "leaving" /\ lpc' = "ended"
  /\ state' = "disconnected"
  /\ UNCHANGED <<cpc, serverVars, fd, inited, silent, tpc>>

-----------------------------------------------------------------------------
(* The server's half of the session                                        *)

\* connection_t::stop of the server broadcasts c_should_stop_con ...
ServerLeaves ==
  /\ "leave" \in Faults
  /\ peer /\ peer' = FALSE
  /\ lpc' = IF lpc = "waiting" THEN "leaving" ELSE lpc
  /\ UNCHANGED <<cpc, answer, fd, state, inited, silent, tpc>>

\* ... a killed server does not.
ServerCrashes ==
  /\ "crash" \in Faults
  /\ peer /\ peer' = FALSE
  /\ UNCHANGED <<cpc, answer, fd, state, inited, silent, lpc, tpc>>

\* Nothing is received for active_connection_lifetime_seconds: the server
\* sends no heartbeats, so an idle one is silent too.
GoSilent ==
  /\ inited /\ ~silent /\ silent' = TRUE
  /\ UNCHANGED <<cpc, serverVars, fd, state, inited, lpc, tpc>>

Hear ==
  /\ inited /\ peer /\ silent /\ silent' = FALSE
  /\ UNCHANGED <<cpc, serverVars, fd, state, inited, lpc, tpc>>

-----------------------------------------------------------------------------
(* timer_mgr_t::worker_proc: one callback at a time.  The alive check and   *)
(* the reconnect check have the same period, so they take turns.            *)

\* The callback is copied; it runs even if stop_timer comes in between.
AliveTimerFires ==
  /\ tpc = "idle"
  /\ tpc' = IF inited THEN "alive" ELSE "due"
  /\ UNCHANGED <<cpc, serverVars, fd, state, inited, silent, lpc>>

\* Faulty: a session that was never marked connected is not checked.
AliveCheckConnected ==
  /\ tpc = "alive" /\ tpc' = "due"
  /\ state' = IF silent /\ state = "connected" THEN "disconnected" ELSE state
  /\ UNCHANGED <<cpc, serverVars, fd, inited, silent, lpc>>

\* on_alive_check_timer, on_disconnected
AliveCheck ==
  /\ tpc = "alive" /\ tpc' = "due"
  /\ state' = IF silent THEN "disconnected" ELSE state
  /\ UNCHANGED <<cpc, serverVars, fd, inited, silent, lpc>>

\* on_reconnect_timer reads the state, writes it, and notifies, in turn.
ReconnectCheck ==
  /\ tpc = "due"
  /\ tpc' = IF state = "disconnected" THEN "write" ELSE "idle"
  /\ UNCHANGED <<cpc, serverVars, fd, state, inited, silent, lpc>>

ReconnectWrites ==
  /\ tpc = "write" /\ tpc' = "notify"
  /\ state' = "connecting"
  /\ UNCHANGED <<cpc, serverVars, fd, inited, silent, lpc>>

\* notify_one, without the mutex of the wait
ReconnectNotifies ==
  /\ tpc = "notify" /\ tpc' = "idle"
  /\ cpc' = IF cpc = "wait" THEN "connect" ELSE cpc
  /\ UNCHANGED <<serverVars, fd, state, inited, silent, lpc>>

-----------------------------------------------------------------------------

\* What the connector thread does as soon as it can.  JoinThreads is not
\* here: the two threads may not end (Channel: ReaderStopHangsOnlyIdle).
ConnectorStep ==
  \/ Connect \/ Receive \/ Wait \/ StopSession \/ JoinLifetime
  \/ StartSession \/ StartFails \/ ReportState

LifetimeStep == LifetimeWaits \/ LifetimeReports

TimerStep ==
  \/ AliveTimerFires \/ AliveCheck
  \/ ReconnectCheck \/ ReconnectWrites \/ ReconnectNotifies

Next ==
  \/ ListenerHandles \/ ListenerCloses
  \/ ConnectorStep \/ ConnectFails \/ JoinThreads \/ SpuriousWakeup
  \/ LifetimeStep
  \/ ServerLeaves \/ ServerCrashes \/ GoSilent \/ Hear
  \/ TimerStep

\* Threads run, the periodic timers fire, the listener handles what it
\* accepted, and time passes for a session whose server is gone.
Fairness ==
  /\ WF_vars(ConnectorStep) /\ WF_vars(LifetimeStep) /\ WF_vars(TimerStep)
  /\ WF_vars(ListenerHandles)
  /\ WF_vars(~peer /\ GoSilent)

Spec == Init /\ [][Next]_vars /\ Fairness

-----------------------------------------------------------------------------
(* Properties                                                              *)

TypeOK ==
  /\ cpc \in {"connect", "recv", "stop", "join", "joinLifetime", "start",
              "report", "prewait", "wait"}
  /\ answer \in {"none", "pending", "sent", "mute", "closed"}
  /\ answer # "none" <=> cpc = "recv"
  /\ fd \in {"none", "refused", "mem"}
  /\ state \in {"connecting", "connected", "disconnected"}
  /\ inited \in BOOLEAN /\ peer \in BOOLEAN /\ silent \in BOOLEAN
  /\ lpc \in {"none", "starting", "waiting", "leaving", "ended"}
  /\ tpc \in {"idle", "alive", "due", "write", "notify"}

\* start() finds no thread of an earlier session: assigning to a joinable
\* std::thread would terminate the process.
NoThreadLeft == cpc = "start" => lpc = "none"

\* connection_state claims a session only while there is one, but for the
\* time the connector thread takes to replace it.
ConnectedHasSession ==
  state = "connected" =>
    inited \/ cpc \in {"join", "joinLifetime", "start", "report"}

\* A session whose server is gone is stopped at last, by way of on_connected,
\* unless the connector waits for ever for an answer of the listener.
DeadSessionIsStopped ==
  (inited /\ ~peer) ~> (~inited \/ [](cpc = "recv"))

\* A client without a session tries to connect again, unless the one
\* notification was lost: then connection_state says connecting, for ever,
\* and nothing is left to notify again.
SessionlessRetries ==
  (cpc = "wait" /\ ~inited) ~>
    (cpc # "wait" \/ [](cpc = "wait" /\ state = "connecting"))

\* stop() gets past the lifetime thread, unless its signal comes before that
\* thread waits: the code does not take c_should_stop_lock to signal.
LifetimeIsJoined ==
  (cpc = "join" /\ lpc # "starting") ~> (cpc = "start" \/ [](cpc = "join"))

\* What ipc_client_t::on_disconnected relies on: "on_connected do the job" of
\* stopping the session that was reported disconnected.
OnConnectedDoesTheJob == (inited /\ state = "disconnected") ~> ~inited

=============================================================================
