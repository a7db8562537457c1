------------------------------- MODULE TimerMgr -------------------------------
(***************************************************************************)
(* timer_mgr_t: the worker that reads expired timer descriptors and calls  *)
(* back, and a thread that starts and stops timers meanwhile.  A timer is  *)
(* known to its holder, to the map timers and to epoll by the number of    *)
(* its descriptor only, and the kernel gives the lowest number that is     *)
(* free, so a number that an earlier epoll_wait has returned may by now    *)
(* name another timer, or a descriptor of another part of the process.     *)
(*                                                                         *)
(* Reads of a timer that has not expired block, as in the code (there is   *)
(* no TFD_NONBLOCK).  One call of start_timer or stop_timer runs at a time *)
(* next to the worker; callbacks may stop timers too.                      *)
(***************************************************************************)
EXTENDS Naturals, FiniteSets

CONSTANTS
  Timers,      \* the timers that are ever started, each at most once
  Once,        \* those started with once = true
  MaxFd,       \* descriptors 1..MaxFd are to be had
  WithOthers   \* other parts of the process open descriptors too

ASSUME OnceAssumption == Once \subseteq Timers
ASSUME MaxFdAssumption == MaxFd \in Nat \ {0}
ASSUME WithOthersAssumption == WithOthers \in BOOLEAN

Fds == 1..MaxFd
None == "none"
Other == "other"

ASSUME TimersAssumption == None \notin Timers /\ Other \notin Timers

VARIABLES
  desc,     \* what each number names: a timer, Other or None
  armed,    \* timers that will expire (again)
  expired,  \* timers whose descriptor is readable
  timers,   \* the map from numbers to timers
  held,     \* the number each timer's holder has; 0 before and after
  used,     \* timers for which start_timer was called
  upc,      \* the other thread, in start_timer
  wpc,      \* the worker
  batch,    \* numbers epoll_wait returned that are still to be looked at
  cur,      \* events[i].data.fd
  tick,     \* the timer whose expiry was read from cur
  copy,     \* the timer_t that was found under cur
  stopped   \* the manager is being destroyed

vars == <<desc, armed, expired, timers, held, used, upc, wpc, batch, cur,
          tick, copy, stopped>>
kernelVars == <<desc, armed, expired>>
workerVars == <<wpc, batch, cur, tick, copy>>

Init ==
  /\ desc = [f \in Fds |-> None] /\ armed = {} /\ expired = {}
  /\ timers = [f \in Fds |-> None]
  /\ held = [t \in Timers |-> 0] /\ used = {}
  /\ upc = None
  /\ wpc = "wait" /\ batch = {} /\ cur = 0 /\ tick = None /\ copy = None
  /\ stopped = FALSE

Free == {f \in Fds : desc[f] = None}
LowestFree == {f \in Free : \A g \in Free : f <= g}

Registered(t) == \E f \in Fds : timers[f] = t
FdOf(t) == CHOOSE f \in Fds : desc[f] = t

-----------------------------------------------------------------------------
(* start_timer                                                             *)

\* timerfd_create, timerfd_settime, EPOLL_CTL_ADD: from here on the worker
\* may see the timer.
Create(t) ==
  /\ upc = None /\ ~stopped /\ t \notin used
  /\ used' = used \cup {t} /\ upc' = t
  /\ \E f \in LowestFree : desc' = [desc EXCEPT ![f] = t]
  /\ armed' = armed \cup {t}
  /\ UNCHANGED <<expired, timers, held, workerVars, stopped>>

\* timers[timer_fd] = timer_t{once, cb}, and the number is returned.
Insert ==
  /\ upc \in Timers
  /\ LET f == FdOf(upc) IN
       /\ timers' = [timers EXCEPT ![f] = upc]
       /\ held' = [held EXCEPT ![upc] = f]
  /\ upc' = None
  /\ UNCHANGED <<kernelVars, used, workerVars, stopped>>

-----------------------------------------------------------------------------
(* stop_timer                                                              *)

\* Faulty: the descriptor is closed, the entry stays.
StopTimerKeeping(f) ==
  /\ IF timers[f] = None
       THEN UNCHANGED kernelVars
       ELSE desc' = [desc EXCEPT ![f] = None] /\ UNCHANGED <<armed, expired>>
  /\ UNCHANGED timers

\* Under timers_mutex: whatever timer the number names now is removed from
\* epoll, closed and erased.
StopTimer(f) ==
  IF timers[f] = None
    THEN UNCHANGED <<kernelVars, timers>>
    ELSE /\ desc' = [desc EXCEPT ![f] = None]
         /\ timers' = [timers EXCEPT ![f] = None]
         /\ UNCHANGED <<armed, expired>>

\* The holder of t stops it, once, in its own thread or, from a callback,
\* in the worker.
Stop(t) ==
  /\ upc = None \/ wpc = "call"
  /\ held[t] # 0 /\ held' = [held EXCEPT ![t] = 0]
  /\ StopTimer(held[t])
  /\ UNCHANGED <<used, upc, workerVars, stopped>>

-----------------------------------------------------------------------------
(* The kernel and the rest of the process                                  *)

\* A timer lives as long as its descriptor, or a read of it, does.
Expire(t) ==
  /\ (\E f \in Fds : desc[f] = t) \/ (wpc = "reading" /\ tick = t)
  /\ t \in armed /\ t \notin expired
  /\ expired' = expired \cup {t}
  /\ armed' = armed \ (Once \cap {t})
  /\ UNCHANGED <<desc, timers, held, used, upc, workerVars, stopped>>

\* A start_timer that fails after timerfd_create leaves its descriptor open,
\* unwatched: that is such a descriptor too.
OthersOpen ==
  /\ WithOthers
  /\ \E f \in LowestFree : desc' = [desc EXCEPT ![f] = Other]
  /\ UNCHANGED <<armed, expired, timers, held, used, upc, workerVars, stopped>>

\* Closing a descriptor does not wake who reads from it.
OthersClose ==
  /\ \E f \in Fds : desc[f] = Other /\ desc' = [desc EXCEPT ![f] = None]
  /\ wpc # "blocked"
  /\ UNCHANGED <<armed, expired, timers, held, used, upc, workerVars, stopped>>

-----------------------------------------------------------------------------
(* worker_proc                                                             *)

\* epoll_wait returns every number that is ready; event_fd, when stop() has
\* written it, anywhere among them, and it ends the batch.
Wait ==
  /\ wpc = "wait"
  /\ LET ready == {f \in Fds : desc[f] \in expired} IN
       IF stopped THEN batch' \in SUBSET ready
                  ELSE ready # {} /\ batch' = ready
  /\ wpc' = "next"
  /\ UNCHANGED <<kernelVars, timers, held, used, upc, cur, tick, copy, stopped>>

NextEvent ==
  /\ wpc = "next"
  /\ \/ \E f \in batch : cur' = f /\ batch' = batch \ {f} /\ wpc' = "read"
     \/ /\ batch = {} /\ cur' = 0 /\ UNCHANGED batch
        /\ wpc' = IF stopped THEN "gone" ELSE "wait"
  /\ tick' = None /\ copy' = None
  /\ UNCHANGED <<kernelVars, timers, held, used, upc, stopped>>

\* read(), of whatever the number names now: a timer; nothing (EBADF); or
\* something of another part, where it takes bytes, meets the end, or waits
\* for data that may never come.
Read ==
  /\ wpc = "read"
  /\ CASE desc[cur] = None  -> wpc' = "drop" /\ tick' = None
       [] desc[cur] = Other -> wpc' \in {"look", "drop", "blocked"}
                               /\ tick' = None
       [] OTHER             -> wpc' = "reading" /\ tick' = desc[cur]
  /\ UNCHANGED <<kernelVars, timers, held, used, upc, batch, cur, copy,
                 stopped>>

\* It returns when that timer has expired, closed in between or not.
ReadReturns ==
  /\ wpc = "reading" /\ tick \in expired
  /\ expired' = expired \ {tick}
  /\ wpc' = "look"
  /\ UNCHANGED <<desc, armed, timers, held, used, upc, batch, cur, tick, copy,
                 stopped>>

\* Faulty: a failed read ends the worker.
DropAndEnd ==
  /\ wpc = "drop" /\ wpc' = "gone"
  /\ StopTimer(cur)
  /\ UNCHANGED <<held, used, upc, batch, cur, tick, copy, stopped>>

\* After a failed read.
Drop ==
  /\ wpc = "drop" /\ wpc' = "next"
  /\ StopTimer(cur)
  /\ UNCHANGED <<held, used, upc, batch, cur, tick, copy, stopped>>

\* Faulty: any timer of the map may be the one that is found.
LookUpAny ==
  /\ wpc = "look"
  /\ \E f \in Fds : copy' = timers[f]
  /\ wpc' = IF copy' = None THEN "next" ELSE "call"
  /\ UNCHANGED <<kernelVars, timers, held, used, upc, batch, cur, tick,
                 stopped>>

\* The entry found under the number is copied, if there is one.
LookUp ==
  /\ wpc = "look"
  /\ copy' = timers[cur]
  /\ wpc' = IF timers[cur] = None THEN "next" ELSE "call"
  /\ UNCHANGED <<kernelVars, timers, held, used, upc, batch, cur, tick,
                 stopped>>

\* Faulty: no timer is.
ReturnAndKeep ==
  /\ wpc = "call" /\ wpc' = "next"
  /\ UNCHANGED <<kernelVars, timers, held, used, upc, batch, cur, tick, copy,
                 stopped>>

\* The callback returns; a one-shot timer is stopped by its number.
Return ==
  /\ wpc = "call" /\ wpc' = "next"
  /\ IF copy \in Once THEN StopTimer(cur) ELSE UNCHANGED <<kernelVars, timers>>
  /\ UNCHANGED <<held, used, upc, batch, cur, tick, copy, stopped>>

-----------------------------------------------------------------------------
(* The destructor: stop()                                                  *)

\* stopped is set and event_fd written; the rest of the batch is handled.
Destroy ==
  /\ upc = None /\ ~stopped /\ stopped' = TRUE
  /\ UNCHANGED <<kernelVars, timers, held, used, upc, workerVars>>

\* The worker is joined and every timer of the map closed.
CloseAll ==
  /\ stopped /\ wpc = "gone" /\ \E f \in Fds : timers[f] # None
  /\ desc' = [f \in Fds |-> IF timers[f] = None THEN desc[f] ELSE None]
  /\ timers' = [f \in Fds |-> None]
  /\ UNCHANGED <<armed, expired, held, used, upc, workerVars, stopped>>

-----------------------------------------------------------------------------

WorkerStep ==
  \/ Wait \/ NextEvent \/ Read \/ ReadReturns \/ Drop \/ LookUp \/ Return

Next ==
  \/ \E t \in Timers : Create(t) \/ Stop(t) \/ Expire(t)
  \/ Insert
  \/ OthersOpen \/ OthersClose
  \/ WorkerStep
  \/ Destroy \/ CloseAll

\* The worker runs, callbacks return, time passes, and start_timer returns.
Fairness ==
  /\ WF_vars(WorkerStep) /\ WF_vars(Insert) /\ WF_vars(CloseAll)
  /\ \A t \in Timers : WF_vars(Expire(t))

Spec == Init /\ [][Next]_vars /\ Fairness

-----------------------------------------------------------------------------
(* Properties                                                              *)

TypeOK ==
  /\ desc \in [Fds -> Timers \cup {Other, None}]
  /\ armed \subseteq Timers /\ expired \subseteq Timers
  /\ timers \in [Fds -> Timers \cup {None}]
  /\ held \in [Timers -> 0..MaxFd] /\ used \subseteq Timers
  /\ upc \in Timers \cup {None}
  /\ wpc \in {"wait", "next", "read", "reading", "blocked", "drop", "look",
              "call", "gone"}
  /\ batch \subseteq Fds /\ cur \in 0..MaxFd
  /\ tick \in Timers \cup {None}
  /\ copy \in Timers \cup {None} /\ (wpc = "call" => copy # None)
  /\ stopped \in BOOLEAN

\* However numbers are reused, the map and the kernel agree: an entry names
\* an open timer, and an open timer has an entry but for the moment before
\* start_timer inserts it.  No descriptor leaks and none is left unwatched.
MapNamesOpen ==
  \A f \in Fds :
    /\ timers[f] # None => desc[f] = timers[f]
    /\ desc[f] \in Timers => timers[f] = desc[f] \/ upc = desc[f]

\* A callback follows an expiry of its own timer.  The exceptions: the timer
\* whose expiry was read is stopped, or what was read is no timer's, and the
\* entry belongs to the one that has the number next.
CallFollowsOwnTick ==
  wpc = "call" /\ copy # tick => tick = None \/ ~Registered(tick)

\* The number under which u was returned now names t.
Takes(u, t) == held[u] # 0 /\ held'[u] = 0 /\ timers[held[u]] = t

\* A timer ends because its holder stops it, because it is a one-shot timer
\* that was called, or with the manager.  The exceptions act on a number
\* that was given to t meanwhile: the worker after a failed read or after the
\* callback of a one-shot timer, and the holder of a timer that had ended.
EndsOnlyByStop ==
  [][\A t \in Timers : Registered(t) /\ ~Registered(t)' =>
       \/ stopped
       \/ Takes(t, t)
       \/ wpc = "call" /\ copy \in Once /\ (copy = t \/ ~Registered(copy))
       \/ wpc = "drop"
       \/ \E u \in Timers : Takes(u, t) /\ ~Registered(u)]_vars

\* A one-shot timer that is neither due nor being handled never calls.
Lost(t) ==
  /\ t \in Once /\ Registered(t) /\ t \notin armed \cup expired
  /\ ~(tick = t /\ wpc \in {"look", "call"})

\* That happens only when its expiry was read before start_timer had
\* inserted it.
LostOnlyBeforeInsert ==
  [][\A t \in Timers : Lost(t)' /\ ~Lost(t) => upc = t]_vars

\* Every expiry of a timer is followed by its callback or its end, unless
\* the worker is blocked for ever on a descriptor that is no timer.
TicksAreServed ==
  \A t \in Timers :
    (Registered(t) /\ t \in expired) ~>
      \/ wpc = "call" /\ copy = t
      \/ ~Registered(t)
      \/ [](wpc = "blocked")

\* How a timer ends without having been served: stopped, or by a named race.
EndsOnlyAsNamed == EndsOnlyByStop /\ LostOnlyBeforeInsert

=============================================================================
