------------------------------- MODULE Lifetime -------------------------------
(***************************************************************************)
(* The control block of one connection, from its making to its end: the    *)
(* server that initialises the synchronisation objects one by one and, in  *)
(* stop(), broadcasts, waits for c_lifetime_lock and destroys them; the    *)
(* client whose lifetime thread holds that lock, whose reading thread      *)
(* sleeps on s_can_r_con, and whose stop() signals and joins both.         *)
(*                                                                         *)
(* The threads of the server are joined before its broadcasts (Channel),   *)
(* and the client's writing thread is to c_lock what its reading thread is *)
(* to s_lock, so one of them stands for both.  Locking a destroyed mutex   *)
(* fails (EINVAL); a signal on a destroyed condition, whose count of       *)
(* waiters the server has zeroed, may or may not find its waiter.          *)
(***************************************************************************)
EXTENDS Naturals, Sequences

CONSTANT Faults   \* what may go wrong, a subset of FaultKinds

FaultKinds == {"init", "spurious", "kill"}

\* What is assumed of the constant.
ConstantsOK == Faults \subseteq FaultKinds

VARIABLES
  spc,     \* the thread of the server that starts and stops the connection
  made,    \* how many objects of InitOrder were initialised
  undone,  \* how far the list of pthread_*_destroy calls under way is
  gone,    \* the objects destroyed
  stray,   \* history: those destroyed when they were not there
  cpc,     \* the thread of the client that starts and stops it
  lpc,     \* c_lifetime_proc
  rpc,     \* read_proc of the client
  holder,  \* who holds c_lifetime_lock
  met      \* history: the lifetime thread had the lock before the server

serverVars == <<spc, made, undone, gone, stray>>
vars == <<serverVars, cpc, lpc, rpc, holder, met>>

\* The order of the pthread_*_init calls, the flags that make up result, and
\* the order of the *_destroy calls of stop().
InitOrder ==
  <<"mutex_attr", "cond_attr",
    "c_lifetime_lock", "c_should_stop_lock", "c_should_stop_con",
    "c_lock", "s_lock",
    "c_can_r_con", "c_can_w_con", "s_can_r_con", "s_can_w_con">>

\* Faulty: the last flag is left out, as those of c_lifetime_lock and of
\* c_should_stop are.
ResultWithoutLast ==
  {"mutex_attr", "cond_attr", "c_lock", "s_lock",
   "c_can_r_con", "c_can_w_con", "s_can_r_con"}

ResultFlags ==
  {"mutex_attr", "cond_attr", "c_lock", "s_lock",
   "c_can_r_con", "c_can_w_con", "s_can_r_con", "s_can_w_con"}

DestroyOrder ==
  <<"c_can_r_con", "c_can_w_con", "s_can_r_con", "s_can_w_con",
    "c_lock", "s_lock",
    "c_should_stop_con", "c_should_stop_lock", "c_lifetime_lock">>

\* The end of init_synchronization_objects: the flag that is tested and the
\* object that is destroyed.  The attributes go in any case, the rest (and
\* they again) when result is false; one line names another object than its
\* flag.
CleanUp ==
  <<[if |-> "mutex_attr",  do |-> "mutex_attr"],
    [if |-> "cond_attr",   do |-> "cond_attr"],
    [if |-> "c_lock",      do |-> "c_lock"],
    [if |-> "s_lock",      do |-> "s_lock"],
    [if |-> "c_can_r_con", do |-> "c_can_r_con"],
    [if |-> "c_can_w_con", do |-> "c_can_w_con"],
    [if |-> "s_can_r_con", do |-> "s_can_r_con"],
    [if |-> "s_can_w_con", do |-> "s_can_r_con"],
    [if |-> "c_lifetime_lock",    do |-> "c_lifetime_lock"],
    [if |-> "c_should_stop_lock", do |-> "c_should_stop_lock"],
    [if |-> "c_should_stop_con",  do |-> "c_should_stop_con"],
    [if |-> "mutex_attr",  do |-> "mutex_attr"],
    [if |-> "cond_attr",   do |-> "cond_attr"]>>

Attributes == {"mutex_attr", "cond_attr"}
Shared == {InitOrder[i] : i \in 1..Len(InitOrder)} \ Attributes

\* The _inited flags, which are never reset.
Inited(o) == \E i \in 1..made : InitOrder[i] = o
Result == \A o \in ResultFlags : Inited(o)

Live(o) == Inited(o) /\ o \notin gone

Init ==
  /\ spc = "init" /\ made = 0 /\ undone = 0 /\ gone = {} /\ stray = {}
  /\ cpc = "absent" /\ lpc = "none" /\ rpc = "none"
  /\ holder = "nobody" /\ met = FALSE

-----------------------------------------------------------------------------
(* The server: init_synchronization_objects, uninit_synchronization_objects *)

InitNext ==
  /\ spc = "init"
  /\ made' = made + 1
  /\ spc' = IF made' = Len(InitOrder) THEN "cleanup" ELSE "init"
  /\ UNCHANGED <<undone, gone, stray, cpc, lpc, rpc, holder, met>>

\* One of the calls fails: break.
InitFails ==
  /\ spc = "init" /\ "init" \in Faults
  /\ spc' = "cleanup"
  /\ UNCHANGED <<made, undone, gone, stray, cpc, lpc, rpc, holder, met>>

\* pthread_*_destroy
Destroy(o) ==
  /\ gone' = gone \cup {o}
  /\ stray' = IF Live(o) THEN stray ELSE stray \cup {o}

\* The next line of CleanUp; start() goes on after the attributes, or returns
\* false at the end, the memory still mapped.
CleanUpNext ==
  /\ spc = "cleanup"
  /\ undone' = undone + 1
  /\ IF Inited(CleanUp[undone'].if) THEN Destroy(CleanUp[undone'].do)
                                    ELSE UNCHANGED <<gone, stray>>
  /\ spc' = CASE undone' = 2 /\ Result -> "run"
              [] undone' = Len(CleanUp) -> "failed"
              [] OTHER -> "cleanup"
  /\ UNCHANGED <<made, cpc, lpc, rpc, holder, met>>

\* The server's stop() begins; its own threads are joined first.
ServerStops ==
  /\ spc = "run" /\ spc' = "broadcast"
  /\ UNCHANGED <<made, undone, gone, stray, cpc, lpc, rpc, holder, met>>

\* Nobody holds a mutex while broadcasting.
Broadcast ==
  /\ spc = "broadcast" /\ spc' = "lockwait"
  /\ rpc' = IF rpc = "asleep" THEN "woken" ELSE rpc
  /\ lpc' = IF lpc = "asleep" THEN "woken" ELSE lpc
  /\ UNCHANGED <<made, undone, gone, stray, cpc, holder, met>>

\* Faulty: the server does not wait for the lock.
TryClient ==
  /\ spc = "lockwait"
  /\ spc' = "destroy" /\ undone' = 0
  /\ UNCHANGED <<made, gone, stray, cpc, lpc, rpc, holder, met>>

\* wait_for_client_finished_uninit_connection: lock and unlock at once.  The
\* lock of a dead owner is given to the server as well.
WaitForClient ==
  /\ spc = "lockwait" /\ holder = "nobody"
  /\ spc' = "destroy" /\ undone' = 0
  /\ UNCHANGED <<made, gone, stray, cpc, lpc, rpc, holder, met>>

DestroyNext ==
  /\ spc = "destroy"
  /\ undone' = undone + 1
  /\ Destroy(DestroyOrder[undone'])
  /\ spc' = IF undone' = Len(DestroyOrder) THEN "done" ELSE "destroy"
  /\ UNCHANGED <<made, cpc, lpc, rpc, holder, met>>

-----------------------------------------------------------------------------
(* The client: start() and stop()                                          *)

\* The descriptor was sent once start() had succeeded in the server; the
\* server may have stopped the connection by the time it is received.
ClientStarts ==
  /\ cpc = "absent" /\ spc \notin {"init", "cleanup", "failed"}
  /\ cpc' = "run" /\ lpc' = "begin" /\ rpc' = "top"
  /\ UNCHANGED <<serverVars, holder, met>>

\* reading_thread_stopped
StopFlags ==
  /\ cpc = "run" /\ cpc' = "flag"
  /\ UNCHANGED <<serverVars, lpc, rpc, holder, met>>

\* Faulty: the reading thread is not signalled.
StopSilently ==
  /\ cpc = "flag" /\ cpc' = "join"
  /\ UNCHANGED <<serverVars, lpc, rpc, holder, met>>

\* The signal on s_can_r_con
StopSignals ==
  /\ cpc = "flag" /\ cpc' = "join"
  /\ rpc' \in CASE rpc # "asleep" -> {rpc}
                [] rpc = "asleep" /\ Live("s_can_r_con") -> {"woken"}
                [] OTHER -> {"asleep", "woken"}
  /\ UNCHANGED <<serverVars, lpc, holder, met>>

\* The reading thread is joined, then c_should_stop_con signalled.
JoinReader ==
  /\ cpc = "join" /\ rpc = "gone" /\ cpc' = "joinLifetime"
  /\ lpc' \in CASE lpc # "asleep" -> {lpc}
                [] lpc = "asleep" /\ Live("c_should_stop_con") -> {"woken"}
                [] OTHER -> {"asleep", "woken"}
  /\ UNCHANGED <<serverVars, rpc, holder, met>>

JoinLifetime ==
  /\ cpc = "joinLifetime" /\ lpc = "ended" /\ cpc' = "stopped"
  /\ UNCHANGED <<serverVars, lpc, rpc, holder, met>>

\* The kernel marks the robust mutexes of a killed process.
ClientKilled ==
  /\ "kill" \in Faults
  /\ cpc \notin {"absent", "stopped", "killed"} /\ cpc' = "killed"
  /\ lpc' = "ended" /\ rpc' = "gone"
  /\ holder' = "nobody"
  /\ UNCHANGED <<serverVars, met>>

-----------------------------------------------------------------------------
(* c_lifetime_proc                                                         *)

\* The result of this lock is not looked at.
LocksLifetime ==
  /\ lpc = "begin"
  /\ IF Live("c_lifetime_lock")
       THEN /\ holder = "nobody" /\ holder' = "client"
            /\ met' = (spc \in {"run", "broadcast", "lockwait"})
       ELSE UNCHANGED <<holder, met>>
  /\ lpc' = "locked"
  /\ UNCHANGED <<serverVars, cpc, rpc>>

\* When c_should_stop_lock is destroyed the thread returns, c_lifetime_lock
\* still its own: the thread's end passes it on.
LocksShouldStop ==
  /\ lpc = "locked"
  /\ IF Live("c_should_stop_lock")
       THEN lpc' = "asleep" /\ UNCHANGED holder
       ELSE lpc' = "ended" /\ holder' = "nobody"
  /\ UNCHANGED <<serverVars, cpc, rpc, met>>

SpuriousWakeup ==
  /\ "spurious" \in Faults
  /\ lpc = "asleep" /\ lpc' = "woken"
  /\ UNCHANGED <<serverVars, cpc, rpc, holder, met>>

\* Woken by whomever: the lock is released and the session reported.
UnlocksLifetime ==
  /\ lpc = "woken" /\ lpc' = "ended"
  /\ holder' = "nobody"
  /\ UNCHANGED <<serverVars, cpc, rpc, met>>

-----------------------------------------------------------------------------
(* read_proc of the client                                                 *)

\* The flag is tested, then s_lock taken.
ReaderLocks ==
  /\ rpc = "top"
  /\ rpc' = IF cpc = "run" /\ Live("s_lock") THEN "locked" ELSE "gone"
  /\ UNCHANGED <<serverVars, cpc, lpc, holder, met>>

ReaderSleeps ==
  /\ rpc = "locked" /\ rpc' = "asleep"
  /\ UNCHANGED <<serverVars, cpc, lpc, holder, met>>

\* There are packets; the buffer outlives the server's stop().
ReaderDrains ==
  /\ rpc \in {"locked", "woken"} /\ cpc = "run"
  /\ rpc' = "top"
  /\ UNCHANGED <<serverVars, cpc, lpc, holder, met>>

\* Woken to an empty buffer, or to the flag.
ReaderEnds ==
  /\ rpc = "woken" \/ (rpc = "locked" /\ cpc \in {"flag", "join"})
  /\ rpc' = "gone"
  /\ UNCHANGED <<serverVars, cpc, lpc, holder, met>>

\* The server's writing thread, while it runs.
DataArrives ==
  /\ spc = "run" /\ rpc = "asleep" /\ rpc' = "woken"
  /\ UNCHANGED <<serverVars, cpc, lpc, holder, met>>

-----------------------------------------------------------------------------

ServerStep ==
  InitNext \/ CleanUpNext \/ Broadcast \/ WaitForClient \/ DestroyNext
ClientStop == StopSignals \/ JoinReader \/ JoinLifetime
LifetimeStep == LocksLifetime \/ LocksShouldStop \/ UnlocksLifetime
ReaderStep == ReaderLocks \/ ReaderSleeps \/ ReaderDrains \/ ReaderEnds

Next ==
  \/ ServerStep \/ InitFails \/ ServerStops
  \/ ClientStarts \/ StopFlags \/ ClientStop \/ ClientKilled
  \/ LifetimeStep \/ SpuriousWakeup
  \/ ReaderStep \/ DataArrives

\* Threads run.  Nothing makes either side start or stop.
Fairness ==
  /\ WF_vars(ServerStep)
  /\ WF_vars(ClientStop)
  /\ WF_vars(LifetimeStep)
  /\ WF_vars(ReaderStep)

Spec == Init /\ [][Next]_vars /\ Fairness

-----------------------------------------------------------------------------
(* Properties                                                              *)

TypeOK ==
  /\ spc \in {"init", "cleanup", "failed", "run", "broadcast", "lockwait",
              "destroy", "done"}
  /\ made \in 0..Len(InitOrder) /\ undone \in 0..Len(CleanUp)
  /\ gone \subseteq Shared \cup Attributes
  /\ stray \subseteq Shared \cup Attributes
  /\ cpc \in {"absent", "run", "flag", "join", "joinLifetime", "stopped",
              "killed"}
  /\ lpc \in {"none", "begin", "locked", "asleep", "woken", "ended"}
  /\ rpc \in {"none", "top", "locked", "asleep", "woken", "gone"}
  /\ holder \in {"nobody", "client"}
  /\ met \in BOOLEAN

\* start() leaves all shared objects behind, or none: one after the other, a
\* failed initialisation and the destruction undo what was done, although the
\* clean-up never destroys s_can_w_con.  The attributes never stay.
AllOrNothing ==
  /\ spc \in {"run", "broadcast", "lockwait"} => \A o \in Shared : Live(o)
  /\ spc \in {"failed", "done"} => \A o \in Shared : ~Live(o)
  /\ spc \notin {"init", "cleanup"} => \A o \in Attributes : ~Live(o)

\* Nothing is destroyed that is not there, but the attributes a second time
\* when the initialisation has failed.
DestroysOnce ==
  /\ stray \subseteq Attributes
  /\ stray # {} => spc \in {"cleanup", "failed"}

\* The server destroys nothing under a lifetime thread that had the lock
\* before the server asked for it: such a thread has finished by then.
HandshakeCoversLifetime ==
  met /\ gone \cap Shared # {} => lpc = "ended"

\* stop() of the server ends when the lifetime thread sleeps at the time of
\* the broadcast or has ended.  One that only holds the lock by then, or
\* takes it before the server, misses the broadcast; the server then waits
\* until the client stops by itself.
ServerStopEnds ==
  /\ (spc = "broadcast" /\ lpc \in {"asleep", "woken", "ended"})
       ~> spc = "done"
  /\ (spc = "lockwait") ~> (spc = "done" \/ [](lpc = "asleep"))

\* stop() of the client gets past a reading thread that was asleep when it
\* began, unless the server destroys the condition before the signal; one
\* that was not between its test and its sleep sees the flag.  The lifetime
\* thread is then joined once woken.
ClientStopEnds ==
  /\ (cpc = "flag" /\ rpc \in {"top", "woken", "gone"})
       ~> cpc \notin {"flag", "join"}
  /\ (cpc = "flag" /\ rpc = "asleep")
       ~> (cpc \notin {"flag", "join"} \/ spc \in {"destroy", "done"})
  /\ (cpc = "joinLifetime" /\ lpc \in {"woken", "ended"})
       ~> cpc \in {"stopped", "killed"}

\* The comment on the lifetime thread: "only unlock when stop or process
\* kill, server can check if client connection is alive".  Here the stop of
\* either side will do, since the server's wakes the thread too.
OnlyUnlockWhenStop ==
  [][holder = "client" /\ holder' = "nobody" =>
       \/ cpc' \in {"flag", "join", "joinLifetime", "stopped", "killed"}
       \/ spc \in {"lockwait", "destroy", "done"}]_vars

\* The objects at every moment, for those who use them.
ObjectsAreThere ==
  TypeOK /\ AllOrNothing /\ DestroysOnce /\ HandshakeCoversLifetime

\* stop() of either side ends, but where the other one's must come first.
StopsEnd == ServerStopEnds /\ ClientStopEnds

=============================================================================
