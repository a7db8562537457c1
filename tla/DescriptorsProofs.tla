--------------------------- MODULE DescriptorsProofs ---------------------------
(***************************************************************************)
(* The two users of descriptors, whoever else opens and closes descriptors *)
(* meanwhile.  timer_mgr_t, for any number of timers and descriptors: the  *)
(* map and the kernel agree, callbacks follow their timers, and timers end *)
(* as named.  listener_t, for any number of clients and descriptors, and   *)
(* whatever fails: what the accept loop closes, leaves open and ends by.   *)
(***************************************************************************)
EXTENDS MCDescriptors, WellFoundedInduction, TLAPS

-----------------------------------------------------------------------------
(* The timer manager: the map and the kernel                               *)

\* What the worker acts on is a number of a descriptor.
Types ==
  /\ desc \in [Fds -> Timers \cup {Other, None}]
  /\ timers \in [Fds -> Timers \cup {None}]
  /\ held \in [Timers -> 0..MaxFd]
  /\ upc \in Timers \cup {None}
  /\ batch \subseteq Fds
  /\ wpc \in {"wait", "next", "gone"} \/ cur \in Fds

\* A timer has one descriptor at most, and none before start_timer.
OneDescriptor ==
  \A f, g \in Fds : desc[f] \in Timers =>
    desc[f] \in used /\ (desc[f] = desc[g] => f = g)

\* Between timerfd_create and the insertion nobody closes the descriptor: its
\* number has no entry yet, and stop_timer goes by entries.
InCreation ==
  upc \in Timers => \E f \in Fds : desc[f] = upc /\ timers[f] = None

MapInv == Types /\ OneDescriptor /\ InCreation /\ MapNamesOpen

LEMMA MapInit == Init => MapInv
  BY TimersAssumption, MaxFdAssumption
  DEF Init, MapInv, Types, OneDescriptor, InCreation, MapNamesOpen, Fds

\* The map, the kernel and the thread in start_timer after a step.
MapKept ==
  /\ desc' \in [Fds -> Timers \cup {Other, None}]
  /\ timers' \in [Fds -> Timers \cup {None}]
  /\ OneDescriptor' /\ InCreation' /\ MapNamesOpen'

\* Whichever number stop_timer is given, entry and descriptor go together.
LEMMA StopTimerKeeps ==
  ASSUME MapInv, NEW f \in Fds, StopTimer(f), UNCHANGED <<used, upc>>
  PROVE  MapKept
  <1>1. CASE timers[f] = None
    BY <1>1 DEF MapInv, Types, MapKept, StopTimer, kernelVars, OneDescriptor,
               InCreation, MapNamesOpen
  <1>2. CASE timers[f] # None
    BY <1>2, TimersAssumption
    DEF MapInv, Types, MapKept, StopTimer, OneDescriptor, InCreation,
        MapNamesOpen
  <1> QED  BY <1>1, <1>2

\* A number that the kernel gives has no entry left from earlier.
LEMMA FreeHasNoEntry ==
  ASSUME MapInv, NEW f \in Fds, desc[f] \notin Timers
  PROVE  timers[f] = None
  BY DEF MapInv, Types, MapNamesOpen

LEMMA MapNext == MapInv /\ [Next]_vars => MapInv'
  <1> SUFFICES ASSUME MapInv, [Next]_vars
               PROVE  MapInv'
    OBVIOUS
  <1> USE DEF MapInv, Types
  <1>1. ASSUME NEW t \in Timers, Create(t) PROVE MapInv'
    <2>1. PICK f \in LowestFree : desc' = [desc EXCEPT ![f] = t]
      BY <1>1 DEF Create
    <2>2. f \in Fds /\ desc[f] = None /\ timers[f] = None
      BY <2>1, FreeHasNoEntry, TimersAssumption DEF LowestFree, Free
    <2>3. /\ upc = None /\ upc' = t /\ t \notin used /\ used' = used \cup {t}
          /\ UNCHANGED <<timers, held, batch, wpc, cur>>
      BY <1>1 DEF Create, workerVars
    <2>4. Types'
      BY <2>1, <2>2, <2>3
    <2>5. OneDescriptor'
      BY <2>1, <2>2, <2>3 DEF OneDescriptor
    <2>6. InCreation'
      BY <2>1, <2>2, <2>3 DEF InCreation
    <2>7. MapNamesOpen'
      BY <2>1, <2>2, <2>3, TimersAssumption DEF MapNamesOpen
    <2> QED  BY <2>4, <2>5, <2>6, <2>7
  <1>2. CASE Insert
    <2>1. PICK f \in Fds : desc[f] = upc /\ timers[f] = None
      BY <1>2 DEF Insert, InCreation
    <2>2. FdOf(upc) = f
      BY <1>2, <2>1 DEF Insert, FdOf, OneDescriptor
    <2>3. /\ timers' = [timers EXCEPT ![f] = upc]
          /\ held' = [held EXCEPT ![upc] = f]
          /\ upc \in Timers /\ upc' = None
          /\ UNCHANGED <<desc, used, batch, wpc, cur>>
      BY <1>2, <2>2 DEF Insert, kernelVars, workerVars
    <2>4. Types'
      BY <2>3, MaxFdAssumption DEF Fds
    <2>5. OneDescriptor' /\ InCreation'
      BY <2>3, TimersAssumption DEF OneDescriptor, InCreation
    <2>6. MapNamesOpen'
      BY <2>1, <2>3 DEF MapNamesOpen, OneDescriptor
    <2> QED  BY <2>4, <2>5, <2>6
  <1>3. ASSUME NEW t \in Timers, Stop(t) PROVE MapInv'
    <2>1. /\ held[t] \in Fds /\ held' = [held EXCEPT ![t] = 0]
          /\ StopTimer(held[t]) /\ UNCHANGED <<used, upc, batch, wpc, cur>>
      BY <1>3 DEF Stop, workerVars, Fds
    <2>2. held' \in [Timers -> 0..MaxFd]
      BY <2>1, MaxFdAssumption
    <2> QED  BY <2>1, <2>2, StopTimerKeeps DEF MapKept
  <1>4. CASE Drop
    BY <1>4, StopTimerKeeps DEF Drop, MapKept
  <1>5. CASE Return
    <2>1. CASE copy \in Once
      BY <1>5, <2>1, StopTimerKeeps DEF Return, MapKept
    <2>2. CASE copy \notin Once
      BY <1>5, <2>2
      DEF Return, kernelVars, OneDescriptor, InCreation, MapNamesOpen
    <2> QED  BY <2>1, <2>2
  <1>6. CASE OthersOpen
    <2>1. PICK f \in LowestFree : desc' = [desc EXCEPT ![f] = Other]
      BY <1>6 DEF OthersOpen
    <2>2. f \in Fds /\ desc[f] = None /\ timers[f] = None
      BY <2>1, FreeHasNoEntry, TimersAssumption DEF LowestFree, Free
    <2>3. UNCHANGED <<timers, held, used, upc, batch, wpc, cur>>
      BY <1>6 DEF OthersOpen, workerVars
    <2> QED
      BY <2>1, <2>2, <2>3, TimersAssumption
      DEF OneDescriptor, InCreation, MapNamesOpen
  <1>7. CASE OthersClose
    <2>1. PICK f \in Fds : desc[f] = Other /\ desc' = [desc EXCEPT ![f] = None]
      BY <1>7 DEF OthersClose
    <2>2. timers[f] = None
      BY <2>1, FreeHasNoEntry, TimersAssumption
    <2>3. UNCHANGED <<timers, held, used, upc, batch, wpc, cur>>
      BY <1>7 DEF OthersClose, workerVars
    <2> QED
      BY <2>1, <2>2, <2>3, TimersAssumption
      DEF OneDescriptor, InCreation, MapNamesOpen
  <1>8. CASE CloseAll
    <2>1. /\ desc' = [f \in Fds |-> IF timers[f] = None THEN desc[f] ELSE None]
          /\ timers' = [f \in Fds |-> None]
          /\ UNCHANGED <<held, used, upc, batch, wpc, cur>>
      BY <1>8 DEF CloseAll, workerVars
    <2> QED
      BY <2>1, TimersAssumption DEF OneDescriptor, InCreation, MapNamesOpen
  <1>9. ASSUME UNCHANGED <<desc, timers, held, used, upc>>,
               batch' \subseteq Fds,
               wpc' \in {"wait", "next", "gone"} \/ cur' \in Fds
        PROVE  MapInv'
    BY <1>9 DEF OneDescriptor, InCreation, MapNamesOpen
  <1>10. ASSUME NEW t \in Timers, Expire(t) PROVE MapInv'
    BY <1>9, <1>10 DEF Expire, workerVars
  <1>11. CASE Wait
    BY <1>9, <1>11 DEF Wait, kernelVars
  <1>12. CASE NextEvent
    BY <1>9, <1>12 DEF NextEvent, kernelVars
  <1>13. CASE Read
    BY <1>9, <1>13 DEF Read, kernelVars
  <1>14. CASE ReadReturns
    BY <1>9, <1>14 DEF ReadReturns
  <1>15. CASE LookUp
    BY <1>9, <1>15 DEF LookUp, kernelVars
  <1>16. CASE Destroy
    BY <1>9, <1>16 DEF Destroy, kernelVars, workerVars
  <1>17. CASE UNCHANGED vars
    BY <1>9, <1>17 DEF vars
  <1> QED
    BY <1>1, <1>2, <1>3, <1>4, <1>5, <1>6, <1>7, <1>8, <1>10, <1>11, <1>12,
       <1>13, <1>14, <1>15, <1>16, <1>17
    DEF Next, WorkerStep

-----------------------------------------------------------------------------

\* However the kernel gives numbers out again, an entry of timers names an
\* open timer, and an open timer has an entry or is about to get one, so that
\* stop_timer and the destructor find it.
THEOREM MapIsTrue == Spec => []MapNamesOpen
  <1>1. MapInv => MapNamesOpen
    BY DEF MapInv
  <1> QED BY <1>1, MapInit, MapNext, PTL DEF Spec

-----------------------------------------------------------------------------
(* Whose expiry a callback follows                                         *)

\* The timer whose expiry is being handled had the number cur, the only one
\* it ever has; an entry of another timer under cur means that it has ended.
TickIsOfCur ==
  /\ tick \in used \cup {None}
  /\ tick # None /\ wpc \in {"reading", "look"} =>
       \A f \in Fds : desc[f] = tick => f = cur
  /\ wpc = "call" /\ copy # tick =>
       tick = None \/ (~Registered(tick) /\ upc # tick)

TickInv == MapInv /\ used \subseteq Timers /\ TickIsOfCur

LEMMA TickInit == Init => TickInv
  BY MapInit DEF Init, TickInv, TickIsOfCur

\* A step of others: no timer of old gets a number or an entry, but for the
\* one in start_timer its entry.
LEMMA OthersKeepTick ==
  ASSUME TickInv, MapInv', used' \subseteq Timers, used \subseteq used',
         UNCHANGED <<tick, wpc, copy, cur>>,
         \A f \in Fds : desc'[f] \in used => desc'[f] = desc[f],
         \A f \in Fds : timers'[f] \in {timers[f], None, upc},
         upc' \in {upc, None} \/ upc' \notin used
  PROVE  TickInv'
  <1>1. ASSUME tick # None, ~Registered(tick), upc # tick
        PROVE  ~Registered(tick)' /\ upc' # tick
    BY <1>1 DEF TickInv, TickIsOfCur, Registered
  <1> QED  BY <1>1 DEF TickInv, TickIsOfCur

LEMMA StopTimerOnlyRemoves ==
  ASSUME MapInv, NEW f \in Fds, StopTimer(f)
  PROVE  \A g \in Fds : /\ desc'[g] \in {desc[g], None}
                        /\ timers'[g] \in {timers[g], None}
  BY DEF StopTimer, MapInv, Types, kernelVars

LEMMA TickNext == TickInv /\ [Next]_vars => TickInv'
  <1> SUFFICES ASSUME TickInv, [Next]_vars
               PROVE  TickInv'
    OBVIOUS
  <1>map. MapInv /\ MapInv'
    BY MapNext DEF TickInv
  <1>used. None \notin used /\ used \subseteq Timers
    BY TimersAssumption DEF TickInv
  <1>1. ASSUME NEW t \in Timers, Create(t) PROVE TickInv'
    <2>1. PICK f \in LowestFree : desc' = [desc EXCEPT ![f] = t]
      BY <1>1 DEF Create
    <2>2. /\ t \notin used /\ used' = used \cup {t} /\ upc' = t
          /\ UNCHANGED <<tick, wpc, copy, cur, timers>>
      BY <1>1 DEF Create, workerVars
    <2>3. \A g \in Fds : desc'[g] \in used => desc'[g] = desc[g]
      BY <1>map, <2>1, <2>2 DEF MapInv, Types
    <2> QED  BY <1>map, <1>used, <2>2, <2>3, OthersKeepTick
  <1>2. CASE Insert
    <2>1. /\ UNCHANGED <<tick, wpc, copy, cur, desc, used>> /\ upc' = None
          /\ timers' = [timers EXCEPT ![FdOf(upc)] = upc]
      BY <1>2 DEF Insert, workerVars, kernelVars
    <2>2. \A f \in Fds : timers'[f] \in {timers[f], None, upc}
      BY <1>map, <2>1 DEF MapInv, Types
    <2> QED  BY <1>map, <1>used, <2>1, <2>2, OthersKeepTick
  <1>3. ASSUME NEW t \in Timers, Stop(t) PROVE TickInv'
    <2>1. /\ held[t] \in Fds /\ StopTimer(held[t])
          /\ UNCHANGED <<tick, wpc, copy, cur, used, upc>>
      BY <1>map, <1>3 DEF Stop, workerVars, Fds, MapInv, Types
    <2> QED
      BY <1>map, <1>used, <2>1, StopTimerOnlyRemoves, OthersKeepTick
  <1>4. CASE OthersOpen
    <2>1. PICK f \in LowestFree : desc' = [desc EXCEPT ![f] = Other]
      BY <1>4 DEF OthersOpen
    <2>2. \A g \in Fds : desc'[g] \in used => desc'[g] = desc[g]
      BY <1>map, <1>used, <2>1, TimersAssumption DEF MapInv, Types
    <2> QED
      BY <1>map, <1>used, <1>4, <2>2, OthersKeepTick DEF OthersOpen, workerVars
  <1>5. CASE OthersClose
    <2>1. PICK f \in Fds : desc' = [desc EXCEPT ![f] = None]
      BY <1>5 DEF OthersClose
    <2>2. \A g \in Fds : desc'[g] \in used => desc'[g] = desc[g]
      BY <1>map, <1>used, <2>1 DEF MapInv, Types
    <2> QED
      BY <1>map, <1>used, <1>5, <2>2, OthersKeepTick DEF OthersClose, workerVars
  <1>6. CASE CloseAll
    <2>1. \A g \in Fds : /\ desc'[g] \in used => desc'[g] = desc[g]
                         /\ timers'[g] \in {timers[g], None, upc}
      BY <1>map, <1>used, <1>6 DEF CloseAll
    <2> QED
      BY <1>map, <1>used, <1>6, <2>1, OthersKeepTick DEF CloseAll, workerVars
  <1>7. ASSUME NEW t \in Timers, Expire(t) PROVE TickInv'
    BY <1>map, <1>used, <1>7, OthersKeepTick DEF Expire, workerVars
  <1>8. CASE Destroy \/ UNCHANGED vars
    BY <1>map, <1>used, <1>8, OthersKeepTick
    DEF Destroy, vars, workerVars, kernelVars
  <1>9. CASE Wait \/ Drop \/ Return
    BY <1>map, <1>9 DEF Wait, Drop, Return, TickInv, TickIsOfCur
  <1>10. CASE NextEvent
    BY <1>map, <1>10 DEF NextEvent, TickInv, TickIsOfCur
  <1>11. CASE Read
    <2>1. CASE tick' = None /\ wpc' # "call"
      BY <1>map, <1>11, <2>1 DEF Read, TickInv, TickIsOfCur
    <2>2. CASE tick' = desc[cur] /\ desc[cur] \notin {None, Other}
      <3>1. cur \in Fds /\ desc[cur] \in Timers /\ wpc' = "reading"
        BY <1>map, <1>11, <2>2 DEF Read, MapInv, Types
      <3>2. desc[cur] \in used /\ \A f \in Fds : desc[f] = desc[cur] => f = cur
        BY <1>map, <3>1 DEF MapInv, OneDescriptor
      <3> QED
        BY <1>map, <1>11, <2>2, <3>1, <3>2
        DEF Read, TickInv, TickIsOfCur, kernelVars
    <2> QED  BY <1>11, <2>1, <2>2 DEF Read
  <1>12. CASE ReadReturns
    BY <1>map, <1>12 DEF ReadReturns, TickInv, TickIsOfCur
  <1>13. CASE LookUp
    <2>1. /\ wpc = "look" /\ copy' = timers[cur] /\ cur \in Fds
          /\ wpc' = IF timers[cur] = None THEN "next" ELSE "call"
          /\ UNCHANGED <<desc, timers, used, upc, tick, cur>>
      BY <1>map, <1>13 DEF LookUp, MapInv, Types, kernelVars
    <2>2. ASSUME tick # None, timers[cur] # None, timers[cur] # tick
          PROVE  ~Registered(tick) /\ upc # tick
      <3>1. tick \in used /\ \A f \in Fds : desc[f] = tick => f = cur
        BY <2>1, <2>2 DEF TickInv, TickIsOfCur
      <3>2. ~Registered(tick)
        BY <1>map, <2>2, <3>1 DEF Registered, MapInv, MapNamesOpen
      <3>3. upc # tick
        BY <1>map, <1>used, <2>2, <3>1 DEF MapInv, InCreation
      <3> QED  BY <3>2, <3>3
    <2>3. Registered(tick)' = Registered(tick)
      BY <2>1 DEF Registered
    <2> QED  BY <1>map, <2>1, <2>2, <2>3 DEF TickInv, TickIsOfCur
  <1> QED
    BY <1>1, <1>2, <1>3, <1>4, <1>5, <1>6, <1>7, <1>8, <1>9, <1>10, <1>11,
       <1>12, <1>13
    DEF Next, WorkerStep

\* A callback follows an expiry of its own timer, for any number of timers and
\* descriptors, unless that timer has ended since its expiry was read, or what
\* was read belonged to no timer.
THEOREM CallsFollowTicks == Spec => []CallFollowsOwnTick
  <1>1. TickInv => CallFollowsOwnTick
    BY DEF TickInv, TickIsOfCur, CallFollowsOwnTick
  <1> QED BY <1>1, TickInit, TickNext, PTL DEF Spec

-----------------------------------------------------------------------------
(* How a timer ends                                                        *)

\* The number a holder has is the one under which its timer is known, as
\* long as it is.
HeldIsEntry ==
  \A t \in Timers, f \in Fds : timers[f] = t => held[t] \in {0, f}

\* The timer that is called had the number cur, and gets no other.
CopyIsOfCur ==
  wpc = "call" => /\ copy \in used /\ upc # copy
                  /\ \A f \in Fds : timers[f] = copy => f = cur

EndInv == TickInv /\ HeldIsEntry /\ CopyIsOfCur

LEMMA EndInit == Init => EndInv
  BY TickInit, TimersAssumption
  DEF Init, EndInv, HeldIsEntry, CopyIsOfCur

\* Insert gives the timer that is being started its only number.
LEMMA InsertIsOfNew ==
  ASSUME MapInv, Insert
  PROVE  \E f \in Fds : /\ desc[f] = upc /\ timers[f] = None
                        /\ timers' = [timers EXCEPT ![f] = upc]
                        /\ held' = [held EXCEPT ![upc] = f]
                        /\ \A g \in Fds : timers[g] # upc
  <1>1. upc \in Timers
    BY DEF Insert
  <1>2. PICK f \in Fds : desc[f] = upc /\ timers[f] = None
    BY <1>1 DEF MapInv, InCreation
  <1>3. \A g \in Fds : desc[g] = upc => g = f
    BY <1>1, <1>2 DEF MapInv, OneDescriptor
  <1>4. FdOf(upc) = f
    BY <1>2, <1>3 DEF FdOf
  <1>5. \A g \in Fds : timers[g] # upc
    BY <1>1, <1>2, <1>3, TimersAssumption DEF MapInv, MapNamesOpen
  <1> QED  BY <1>2, <1>4, <1>5 DEF Insert

LEMMA HeldNext ==
  ASSUME EndInv, [Next]_vars PROVE HeldIsEntry'
  <1> USE DEF EndInv, TickInv, MapInv, Types
  <1>1. CASE Insert
    <2>1. PICK f \in Fds : /\ timers' = [timers EXCEPT ![f] = upc]
                           /\ held' = [held EXCEPT ![upc] = f]
                           /\ \A g \in Fds : timers[g] # upc
      BY <1>1, InsertIsOfNew
    <2> QED  BY <1>1, <2>1 DEF Insert, HeldIsEntry
  <1>2. ASSUME NEW t \in Timers, Stop(t) PROVE HeldIsEntry'
    <2>1. /\ held[t] \in Fds /\ StopTimer(held[t])
          /\ held' = [held EXCEPT ![t] = 0]
      BY <1>2 DEF Stop, Fds
    <2>2. \A g \in Fds : timers'[g] \in {timers[g], None}
      BY <2>1, StopTimerOnlyRemoves
    <2> QED  BY <2>1, <2>2, TimersAssumption DEF HeldIsEntry
  <1>3. CASE Drop \/ Return
    <2>1. \A g \in Fds : timers'[g] \in {timers[g], None}
      BY <1>3, StopTimerOnlyRemoves DEF Drop, Return
    <2> QED
      BY <1>3, <2>1, TimersAssumption DEF HeldIsEntry, Drop, Return
  <1>4. CASE CloseAll
    BY <1>4, TimersAssumption DEF CloseAll, HeldIsEntry
  <1>5. CASE UNCHANGED <<timers, held>>
    BY <1>5 DEF HeldIsEntry
  <1>6. ASSUME NEW t \in Timers, Create(t) \/ Expire(t) PROVE HeldIsEntry'
    BY <1>5, <1>6 DEF Create, Expire
  <1> QED
    BY <1>1, <1>2, <1>3, <1>4, <1>5, <1>6
    DEF Next, WorkerStep, OthersOpen, OthersClose, Wait, NextEvent, Read,
        ReadReturns, LookUp, Destroy, vars

\* Only the thread in start_timer adds an entry.
LEMMA EntriesOnlyEnd ==
  ASSUME EndInv, [Next]_vars
  PROVE  \A f \in Fds : \/ timers'[f] \in {timers[f], None}
                        \/ Insert /\ timers'[f] = upc /\ timers[f] = None
  <1> USE DEF EndInv, TickInv, MapInv, Types
  <1>1. CASE Insert
    BY <1>1, InsertIsOfNew
  <1>2. ASSUME NEW t \in Timers, Stop(t)
        PROVE  \A f \in Fds : timers'[f] \in {timers[f], None}
    <2>1. held[t] \in Fds /\ StopTimer(held[t])
      BY <1>2 DEF Stop, Fds
    <2> QED  BY <2>1, StopTimerOnlyRemoves
  <1>3. CASE Drop \/ Return
    BY <1>3, StopTimerOnlyRemoves DEF Drop, Return
  <1>4. CASE CloseAll
    BY <1>4 DEF CloseAll
  <1>5. CASE UNCHANGED timers
    BY <1>5
  <1>6. ASSUME NEW t \in Timers, Create(t) \/ Expire(t)
        PROVE  UNCHANGED timers
    BY <1>6 DEF Create, Expire
  <1> QED
    BY <1>1, <1>2, <1>3, <1>4, <1>5, <1>6
    DEF Next, WorkerStep, OthersOpen, OthersClose, Wait, NextEvent, Read,
        ReadReturns, LookUp, Destroy, vars, kernelVars

LEMMA CopyNext ==
  ASSUME EndInv, [Next]_vars PROVE CopyIsOfCur'
  <1>1. MapInv /\ MapInv'
    BY MapNext DEF EndInv, TickInv
  <1>2. CASE LookUp
    <2>1. /\ copy' = timers[cur] /\ UNCHANGED <<timers, desc, used, upc, cur>>
          /\ wpc' = "call" => timers[cur] # None
          /\ cur \in Fds
      BY <1>1, <1>2 DEF LookUp, kernelVars, MapInv, Types
    <2>2. ASSUME timers[cur] # None
          PROVE  /\ timers[cur] \in used /\ upc # timers[cur]
                 /\ \A f \in Fds : timers[f] = timers[cur] => f = cur
      <3>1. desc[cur] = timers[cur] /\ timers[cur] \in Timers
        BY <1>1, <2>1, <2>2 DEF MapInv, Types, MapNamesOpen
      <3>2. /\ timers[cur] \in used
            /\ \A f \in Fds : desc[f] = timers[cur] => f = cur
        BY <1>1, <2>1, <3>1 DEF MapInv, OneDescriptor
      <3>3. \A f \in Fds : timers[f] = timers[cur] => f = cur
        BY <1>1, <2>2, <3>2 DEF MapInv, MapNamesOpen
      <3>4. upc # timers[cur]
        BY <1>1, <2>2, <3>1, <3>2 DEF MapInv, InCreation
      <3> QED  BY <3>2, <3>3, <3>4
    <2> QED  BY <2>1, <2>2 DEF CopyIsOfCur
  <1>3. ASSUME wpc' = "call", ~LookUp
        PROVE  /\ wpc = "call" /\ UNCHANGED <<copy, cur>>
               /\ used \subseteq used'
               /\ upc' \in {upc, None} \/ upc' \notin used
    <2>1. ASSUME NEW t \in Timers, Create(t) \/ Stop(t) \/ Expire(t)
          PROVE  /\ UNCHANGED <<wpc, copy, cur>> /\ used \subseteq used'
                 /\ upc' \in {upc, None} \/ upc' \notin used
      BY <2>1 DEF Create, Stop, Expire, workerVars
    <2>2. ASSUME Insert \/ OthersOpen \/ OthersClose \/ Destroy \/ CloseAll
                   \/ UNCHANGED vars
          PROVE  /\ UNCHANGED <<wpc, copy, cur>> /\ UNCHANGED used
                 /\ upc' \in {upc, None}
      BY <2>2 DEF Insert, OthersOpen, OthersClose, Destroy, CloseAll, vars,
                  workerVars
    <2>3. ~(Wait \/ NextEvent \/ Read \/ ReadReturns \/ Drop \/ Return)
      BY <1>3 DEF Wait, NextEvent, Read, ReadReturns, Drop, Return
    <2> QED  BY <1>3, <2>1, <2>2, <2>3 DEF Next, WorkerStep
  <1>4. CASE ~LookUp
    <2> SUFFICES ASSUME wpc' = "call" PROVE CopyIsOfCur'
      BY DEF CopyIsOfCur
    <2>1. /\ copy \in used /\ upc # copy /\ copy # None
          /\ \A f \in Fds : timers[f] = copy => f = cur
      BY <1>3, <1>4, TimersAssumption DEF CopyIsOfCur, EndInv, TickInv
    <2>2. \A f \in Fds : timers'[f] = copy => timers[f] = copy
      BY <2>1, EntriesOnlyEnd
    <2> QED  BY <1>3, <1>4, <2>1, <2>2 DEF CopyIsOfCur
  <1> QED  BY <1>2, <1>4

LEMMA EndNext == EndInv /\ [Next]_vars => EndInv'
  BY TickNext, HeldNext, CopyNext DEF EndInv

\* Every step that takes an entry out of the map has one of the causes.
LEMMA EndHasCause ==
  ASSUME EndInv, [Next]_vars, NEW t \in Timers, Registered(t), ~Registered(t)'
  PROVE  \/ stopped
         \/ Takes(t, t)
         \/ wpc = "call" /\ copy \in Once /\ (copy = t \/ ~Registered(copy))
         \/ wpc = "drop"
         \/ \E u \in Timers : Takes(u, t) /\ ~Registered(u)
  <1>1. PICK f \in Fds : timers[f] = t /\ timers'[f] # t
    BY DEF Registered
  <1>2. ASSUME NEW g \in Fds, StopTimer(g)
        PROVE  timers[g] = t
    BY <1>1, <1>2 DEF StopTimer, kernelVars, EndInv, TickInv, MapInv, Types
  <1>3. ASSUME NEW u \in Timers, Stop(u)
        PROVE  Takes(t, t) \/ (Takes(u, t) /\ ~Registered(u))
    <2>1. held[u] \in Fds /\ held'[u] = 0 /\ StopTimer(held[u])
      BY <1>3 DEF Stop, Fds, EndInv, TickInv, MapInv, Types
    <2>2. held[u] # 0
      BY <1>3 DEF Stop
    <2>3. Takes(u, t)
      BY <1>2, <2>1, <2>2 DEF Takes
    <2>4. u # t => ~Registered(u)
      BY <1>2, <2>1, <2>2 DEF EndInv, HeldIsEntry, Registered
    <2> QED  BY <2>3, <2>4
  <1>4. CASE Drop
    BY <1>4 DEF Drop
  <1>5. CASE Return
    <2>1. wpc = "call" /\ copy \in Once /\ StopTimer(cur)
      BY <1>1, <1>5 DEF Return
    <2>2. cur \in Fds
      BY <2>1 DEF EndInv, TickInv, MapInv, Types
    <2>3. copy # t => ~Registered(copy)
      BY <1>2, <2>1, <2>2 DEF EndInv, CopyIsOfCur, Registered
    <2> QED  BY <2>1, <2>3
  <1>6. CASE CloseAll
    BY <1>6 DEF CloseAll
  <1>7. ~Insert
    <2>1. ASSUME Insert
          PROVE  timers'[f] = timers[f]
      <3>1. PICK g \in Fds : /\ timers[g] = None
                             /\ timers' = [timers EXCEPT ![g] = upc]
        BY <2>1, InsertIsOfNew DEF EndInv, TickInv
      <3> QED
        BY <1>1, <3>1, TimersAssumption DEF EndInv, TickInv, MapInv, Types
    <2> QED  BY <1>1, <2>1
  <1>8. timers' # timers
    BY <1>1
  <1>9. ASSUME NEW u \in Timers, Create(u) \/ Expire(u)
        PROVE  FALSE
    BY <1>8, <1>9 DEF Create, Expire
  <1> QED
    BY <1>3, <1>4, <1>5, <1>6, <1>7, <1>8, <1>9
    DEF Next, WorkerStep, OthersOpen, OthersClose, Wait, NextEvent, Read,
        ReadReturns, LookUp, Destroy, vars

\* An expiry of a one-shot timer that is known is lost by no step.
LEMMA KeptOnceInserted ==
  ASSUME EndInv, [Next]_vars, NEW t \in Timers, upc # t, ~Lost(t)
  PROVE  ~Lost(t)'
  <1> SUFFICES ASSUME Lost(t)' PROVE FALSE
    OBVIOUS
  <1>1. t \in Once /\ Registered(t)' /\ t \notin armed' \cup expired'
    BY DEF Lost
  <1>2. PICK g \in Fds : timers'[g] = t
    BY <1>1 DEF Registered
  <1>3. timers[g] = t /\ Registered(t)
    BY <1>2, EntriesOnlyEnd, TimersAssumption DEF Registered
  <1>4. CASE tick = t /\ wpc = "look"
    <2>1. \A f \in Fds : desc[f] = t => f = cur
      BY <1>4, TimersAssumption DEF EndInv, TickInv, TickIsOfCur
    <2>2. timers[cur] = t
      BY <1>3, <2>1, TimersAssumption DEF EndInv, TickInv, MapInv, MapNamesOpen
    <2>3. tick' = t /\ wpc' \in {"look", "call"}
      <3>1. CASE LookUp
        BY <1>4, <2>2, <3>1, TimersAssumption DEF LookUp
      <3>2. ASSUME NEW u \in Timers, Create(u) \/ Stop(u) \/ Expire(u)
            PROVE  UNCHANGED <<tick, wpc>>
        BY <3>2 DEF Create, Stop, Expire, workerVars
      <3>3. CASE Insert \/ OthersOpen \/ OthersClose \/ Destroy \/ CloseAll
                   \/ UNCHANGED vars
        BY <1>4, <3>3 DEF Insert, OthersOpen, OthersClose, Destroy, CloseAll,
                          vars, workerVars
      <3>4. ~(Wait \/ NextEvent \/ Read \/ ReadReturns \/ Drop \/ Return)
        BY <1>4 DEF Wait, NextEvent, Read, ReadReturns, Drop, Return
      <3> QED  BY <1>4, <3>1, <3>2, <3>3, <3>4 DEF Next, WorkerStep
    <2> QED  BY <2>3 DEF Lost
  <1>5. CASE tick = t /\ wpc = "call"
    <2>1. copy = t
      BY <1>3, <1>5, TimersAssumption DEF EndInv, TickInv, TickIsOfCur
    <2>2. g = cur
      BY <1>3, <1>5, <2>1 DEF EndInv, CopyIsOfCur
    <2>3. ~Return
      BY <1>1, <1>2, <1>3, <2>1, <2>2, TimersAssumption
      DEF Return, StopTimer, EndInv, TickInv, MapInv, Types
    <2>4. tick' = t /\ wpc' = "call"
      <3>1. ASSUME NEW u \in Timers, Create(u) \/ Stop(u) \/ Expire(u)
            PROVE  UNCHANGED <<tick, wpc>>
        BY <3>1 DEF Create, Stop, Expire, workerVars
      <3>2. CASE Insert \/ OthersOpen \/ OthersClose \/ Destroy \/ CloseAll
                   \/ UNCHANGED vars
        BY <1>5, <3>2 DEF Insert, OthersOpen, OthersClose, Destroy, CloseAll,
                          vars, workerVars
      <3>3. ~(Wait \/ NextEvent \/ Read \/ ReadReturns \/ Drop \/ LookUp)
        BY <1>5 DEF Wait, NextEvent, Read, ReadReturns, Drop, LookUp
      <3> QED  BY <1>5, <2>3, <3>1, <3>2, <3>3 DEF Next, WorkerStep
    <2> QED  BY <2>4 DEF Lost
  <1>6. CASE t \in armed \cup expired
    <2>1. CASE ReadReturns
      <3>1. tick = t /\ tick' = t /\ wpc' = "look"
        BY <1>1, <1>6, <2>1 DEF ReadReturns
      <3> QED  BY <3>1 DEF Lost
    <2>2. ASSUME NEW u \in Timers, Create(u) \/ Stop(u) \/ Expire(u)
          PROVE  armed \cup expired \subseteq armed' \cup expired'
      BY <2>2 DEF Create, Stop, Expire, StopTimer, kernelVars
    <2>3. CASE \/ Insert \/ OthersOpen \/ OthersClose \/ Destroy \/ CloseAll
              \/ UNCHANGED vars \/ Wait \/ NextEvent \/ Read \/ Drop
              \/ LookUp \/ Return
      <3>1. UNCHANGED <<armed, expired>>
        BY <2>3
        DEF Insert, OthersOpen, OthersClose, Destroy, CloseAll, vars, Wait,
            NextEvent, Read, Drop, LookUp, Return, StopTimer, kernelVars
      <3> QED  BY <1>1, <1>6, <3>1
    <2> QED  BY <1>1, <1>6, <2>1, <2>2, <2>3 DEF Next, WorkerStep
  <1> QED  BY <1>1, <1>3, <1>4, <1>5, <1>6 DEF Lost

\* For any number of timers and descriptors, and whatever numbers are given
\* out again: a timer ends because it was stopped, was a one-shot that was
\* called, or by one of the named races; and the expiry of a one-shot timer
\* is lost only while start_timer has not inserted it.
THEOREM EndsAreNamed == Spec => EndsOnlyAsNamed
  <1>1. ASSUME EndInv, [Next]_vars
        PROVE  [\A t \in Timers : Registered(t) /\ ~Registered(t)' =>
                  \/ stopped
                  \/ Takes(t, t)
                  \/ wpc = "call" /\ copy \in Once
                       /\ (copy = t \/ ~Registered(copy))
                  \/ wpc = "drop"
                  \/ \E u \in Timers : Takes(u, t) /\ ~Registered(u)]_vars
    BY <1>1, EndHasCause
  <1>2. ASSUME EndInv, [Next]_vars
        PROVE  [\A t \in Timers : Lost(t)' /\ ~Lost(t) => upc = t]_vars
    BY <1>2, KeptOnceInserted
  <1> QED
    BY <1>1, <1>2, EndInit, EndNext, PTL
    DEF Spec, EndsOnlyAsNamed, EndsOnlyByStop, LostOnlyBeforeInsert

-----------------------------------------------------------------------------
(* The listener                                                            *)

\* The thread of the listener runs from the end of the constructor on, and is
\* told to stop before the socket is closed.
ThreadIsOwned ==
  /\ l_owner \in {"socket", "bind", "thrown"} <=> l_worker = "none"
  /\ l_owner \in {"close", "join", "done"} => l_should_stop

\* Until stop() closes it the listening socket is there.
SocketIsOpen ==
  l_owner \in {"bind", "up", "close"} =>
    l_sock \in Accepting!Fds /\ l_desc[l_sock] = "listen"

\* The number accept reserved, then that of the accepted socket.
ConnIsOpen ==
  /\ l_worker \in {"blocked", "memfd", "start", "register", "close"} =>
       l_conn \in Accepting!Fds
  /\ l_worker = "blocked" => l_desc[l_conn] = "reserved"
  /\ l_worker \in {"memfd", "start", "register", "close"} =>
       l_client \in Clients /\ l_desc[l_conn] = l_client

\* The one memory file that can be open is the one at hand; where it was
\* closed already, the connection did not start.
MemoryIsAtHand ==
  /\ l_worker \in {"start", "register", "close"} => l_mem \in Accepting!Fds
  /\ l_worker \in {"start", "register"} => l_desc[l_mem] = "mem"
  /\ l_worker = "close" =>
       \/ l_desc[l_mem] = "mem"
       \/ l_answer[l_client] = "pending" /\ l_desc[l_mem] \in {"none", "other"}
  /\ \A f \in Accepting!Fds : l_desc[f] = "mem" =>
       l_worker \in {"start", "register", "close"} /\ f = l_mem

\* Who is in the backlog, or was just accepted, has no answer yet.
NobodyIsAnsweredTwice ==
  /\ \A c \in l_waiting : l_answer[c] = "pending"
  /\ l_worker \in {"memfd", "start", "register"} =>
       l_client \notin l_waiting /\ l_answer[l_client] = "pending"

LoopInv ==
  /\ Accepting!TypeOK
  /\ ThreadIsOwned /\ SocketIsOpen /\ ConnIsOpen /\ MemoryIsAtHand
  /\ NobodyIsAnsweredTwice

LEMMA ListenerConstants ==
  /\ ListenerFds \in Nat \ {0}
  /\ Accepting!Fds \subseteq Nat /\ 0 \notin Accepting!Fds
  /\ Accepting!Fds \subseteq 0 .. ListenerFds
  /\ Clients \cap {"none", "listen", "reserved", "mem", "other"} = {}
  BY ListenerAssumption DEF Accepting!ConstantsOK, Accepting!Fds

\* The lowest number that is free is there, and is free.
LEMMA LowestIsFree ==
  ASSUME Accepting!Free # {}
  PROVE  Accepting!LowestFree \in Accepting!Fds
         /\ l_desc[Accepting!LowestFree] = "none"
  <1> DEFINE F == Accepting!Free
  <1>1. F \subseteq Nat /\ F # {}
    BY ListenerConstants DEF Accepting!Free
  <1>2. PICK f \in F : \A g \in F : <<g, f>> \notin OpToRel(<, Nat)
    <2> HIDE DEF F
    <2> QED  BY <1>1, NatLessThanWellFounded, WFMin
  <1>3. \A g \in F : <<g, f>> \in Nat \X Nat /\ ~(g < f)
    BY <1>1, <1>2 DEF OpToRel
  <1>4. \A g \in F : f <= g
    <2> HIDE DEF F
    <2> TAKE g \in F
    <2>1. f \in Nat /\ g \in Nat /\ ~(g < f)
      BY <1>1, <1>3
    <2> QED  BY <2>1, SMT
  <1>5. Accepting!LowestFree \in F
    BY <1>4 DEF Accepting!LowestFree
  <1> QED  BY <1>5 DEF Accepting!Free, Accepting!None

LEMMA LoopInit == Accepting!Init => LoopInv
  BY ListenerConstants
  DEF Accepting!Init, LoopInv, Accepting!TypeOK, Accepting!None,
      Accepting!Kinds, ThreadIsOwned, SocketIsOpen, ConnIsOpen, MemoryIsAtHand,
      NobodyIsAnsweredTwice

LEMMA LoopNext == LoopInv /\ [DescriptorsNext]_allVars => LoopInv'
  <1> SUFFICES ASSUME LoopInv, [DescriptorsNext]_allVars PROVE LoopInv'
    OBVIOUS
  <1> USE ListenerConstants
      DEF LoopInv, Accepting!TypeOK, Accepting!None, Accepting!Kinds,
          ThreadIsOwned, SocketIsOpen, ConnIsOpen, MemoryIsAtHand,
          NobodyIsAnsweredTwice
  <1>1. CASE Accepting!MakeSocket
    BY <1>1, LowestIsFree
    DEF Accepting!MakeSocket, Accepting!Open, Accepting!Close
  <1>2. CASE Accepting!BindFails
    BY <1>2
    DEF Accepting!BindFails, Accepting!Open, Accepting!Close
  <1>3. CASE Accepting!BindAndStart
    BY <1>3
    DEF Accepting!BindAndStart, Accepting!Open, Accepting!Close
  <1>4. CASE Accepting!OtherOpens
    BY <1>4, LowestIsFree
    DEF Accepting!OtherOpens, Accepting!Open, Accepting!Close
  <1>5. CASE Accepting!OtherCloses
    BY <1>5
    DEF Accepting!OtherCloses, Accepting!Open, Accepting!Close
  <1>6. CASE Accepting!EnterAccept
    BY <1>6, LowestIsFree, ZenonT(60)
    DEF Accepting!EnterAccept, Accepting!Open, Accepting!Close
  <1>7. CASE Accepting!MakeMemory
    BY <1>7, LowestIsFree
    DEF Accepting!MakeMemory, Accepting!Open, Accepting!Close
  <1>8. CASE Accepting!MemoryFails
    BY <1>8
    DEF Accepting!MemoryFails, Accepting!Open, Accepting!Close
  <1>9. CASE Accepting!StartFails
    BY <1>9
    DEF Accepting!StartFails, Accepting!Open, Accepting!Close
  <1>10. CASE Accepting!StartAndSend
    BY <1>10
    DEF Accepting!StartAndSend, Accepting!Open, Accepting!Close
  <1>11. CASE Accepting!CloseMemory
    BY <1>11
    DEF Accepting!CloseMemory, Accepting!Open, Accepting!Close
  <1>12. CASE Accepting!SetFlag
    BY <1>12
    DEF Accepting!SetFlag, Accepting!Open, Accepting!Close
  <1>13. CASE Accepting!CloseSocket
    BY <1>13
    DEF Accepting!CloseSocket, Accepting!Open, Accepting!Close
  <1>14. CASE Accepting!Join
    BY <1>14
    DEF Accepting!Join, Accepting!Open, Accepting!Close
  <1>15. ASSUME NEW c \in Clients, Accepting!ClientConnects(c) PROVE LoopInv'
    BY <1>15 DEF Accepting!ClientConnects
  <1>16. ASSUME NEW c \in Clients, Accepting!Accept(c) PROVE LoopInv'
    BY <1>16 DEF Accepting!Accept
  <1>17. CASE UNCHANGED listenerVars
    BY <1>17 DEF listenerVars
  <1>18. CASE Accepting!StartConnection
    BY <1>18 DEF Accepting!StartConnection
  <1> QED
    BY <1>1, <1>2, <1>3, <1>4, <1>5, <1>6, <1>7, <1>8, <1>9, <1>10, <1>11,
       <1>12, <1>13, <1>14, <1>15, <1>16, <1>17, <1>18
    DEF DescriptorsNext, allVars, Accepting!Next, Accepting!ListenerStep

\* Who closes what is not the listener's.
LEMMA ForeignIsSecondClose ==
  ASSUME LoopInv, [DescriptorsNext]_allVars, l_victims' # l_victims
  PROVE  /\ l_worker = "close" /\ l_client # "none"
         /\ l_answer[l_client] = "pending"
  <1> USE ListenerConstants
      DEF LoopInv, Accepting!TypeOK, Accepting!None, Accepting!Close
  <1>1. CASE Accepting!StartFails
    BY <1>1 DEF Accepting!StartFails, MemoryIsAtHand
  <1>2. CASE Accepting!CloseSocket
    BY <1>2 DEF Accepting!CloseSocket, SocketIsOpen
  <1>3. CASE Accepting!CloseMemory
    BY <1>3 DEF Accepting!CloseMemory, MemoryIsAtHand, ConnIsOpen
  <1> QED
    BY <1>1, <1>2, <1>3
    DEF DescriptorsNext, allVars, listenerVars, Accepting!Next,
        Accepting!ListenerStep, Accepting!MakeSocket, Accepting!BindFails,
        Accepting!BindAndStart, Accepting!ClientConnects,
        Accepting!OtherOpens, Accepting!OtherCloses, Accepting!EnterAccept,
        Accepting!Accept, Accepting!MakeMemory, Accepting!MemoryFails,
        Accepting!StartConnection, Accepting!StartAndSend,
        Accepting!SetFlag, Accepting!Join

\* Why the loop ends.
LEMMA LoopEndHasCause ==
  ASSUME LoopInv, [DescriptorsNext]_allVars,
         l_worker # "gone", l_worker' = "gone"
  PROVE  l_should_stop \/ Accepting!Free = {}
  <1>1. CASE Accepting!EnterAccept
    BY <1>1 DEF Accepting!EnterAccept, LoopInv, Accepting!TypeOK,
                ThreadIsOwned, SocketIsOpen
  <1>2. ASSUME NEW c \in Clients, Accepting!Accept(c)
        PROVE  l_should_stop
    BY <1>2 DEF Accepting!Accept
  <1> QED
    BY <1>1, <1>2
    DEF DescriptorsNext, allVars, listenerVars, Accepting!Next,
        Accepting!ListenerStep, Accepting!MakeSocket, Accepting!BindFails,
        Accepting!BindAndStart, Accepting!ClientConnects,
        Accepting!OtherOpens, Accepting!OtherCloses, Accepting!MakeMemory,
        Accepting!MemoryFails, Accepting!StartFails,
        Accepting!StartConnection, Accepting!StartAndSend,
        Accepting!CloseMemory, Accepting!SetFlag, Accepting!CloseSocket,
        Accepting!Join

\* listener_t, for any number of clients and descriptors, whatever fails and
\* whatever other threads open and close: a connection that was handled leaves
\* no memory file open, a descriptor of another part is closed only by the
\* second close after a connection that did not start, and only stop() or a
\* process without descriptors ends the loop.
THEOREM ListenerIsSound == DescriptorsSpec => LoopIsSound
  <1>1. DescriptorsInit => LoopInv
    BY LoopInit DEF DescriptorsInit
  <1>2. LoopInv => Accepting!TypeOK /\ Accepting!OnlySocketsStayOpen
    BY DEF LoopInv, MemoryIsAtHand, Accepting!OnlySocketsStayOpen
  <1>3. ASSUME LoopInv, [DescriptorsNext]_allVars
        PROVE  [l_victims' # l_victims =>
                  /\ l_worker = "close" /\ l_client # Accepting!None
                  /\ l_answer[l_client] = "pending"]_listenerVars
    BY <1>3, ForeignIsSecondClose DEF Accepting!None
  <1>4. ASSUME LoopInv, [DescriptorsNext]_allVars
        PROVE  [l_worker # "gone" /\ l_worker' = "gone" =>
                  l_should_stop \/ Accepting!Free = {}]_listenerVars
    BY <1>4, LoopEndHasCause
  <1> QED
    BY <1>1, <1>2, <1>3, <1>4, LoopNext, PTL
    DEF DescriptorsSpec, LoopIsSound, Accepting!LoopIsSound,
        Accepting!ClosesItsOwn, Accepting!OnlyExhaustionEndsLoop,
        Accepting!vars, listenerVars

==============================================================================
