----------------------------- MODULE LivesProofs -----------------------------
(***************************************************************************)
(* Theorems about what is made and destroyed again: the sessions of a      *)
(* client, the control block of a connection, an ipc_client_t and an       *)
(* ipc_server_t.  Each has an inductive invariant of its own, over the     *)
(* variables of its instance, for every choice of faults and connections.  *)
(***************************************************************************)
EXTENDS MCLives, Naturals, Sequences, TLAPS

(* The sessions of a client                                                *)

\* A lifetime thread belongs to a session that is up or being stopped, and
\* a session that is up is not being replaced yet.
ThreadsFollowSession ==
  /\ ~inited /\ cpc \notin {"join", "joinLifetime"} => lpc = "none"
  /\ inited => cpc \notin {"join", "joinLifetime", "start"}

SessionInv == TypeOK /\ ThreadsFollowSession /\ ConnectedHasSession

LEMMA SessionInit == Init => SessionInv
  BY DEF Init, SessionInv, TypeOK, ThreadsFollowSession, ConnectedHasSession

\* Every step of a thread, of the server or of the network keeps it.
LEMMA SessionNext == SessionInv /\ [Next]_vars => SessionInv'
  <1> SUFFICES ASSUME SessionInv, [Next]_vars PROVE SessionInv'
    OBVIOUS
  <1> USE DEF SessionInv, TypeOK, ThreadsFollowSession, ConnectedHasSession,
              serverVars
  <1>1. CASE ListenerHandles
    BY <1>1 DEF ListenerHandles
  <1>2. CASE ListenerCloses
    BY <1>2 DEF ListenerCloses
  <1>3. CASE Connect
    BY <1>3 DEF Connect
  <1>4. CASE Receive
    BY <1>4 DEF Receive
  <1>5. CASE Wait
    BY <1>5 DEF Wait
  <1>6. CASE StopSession
    BY <1>6, ZenonT(60) DEF StopSession
  <1>7. CASE JoinLifetime
    BY <1>7 DEF JoinLifetime
  <1>8. CASE StartSession
    BY <1>8 DEF StartSession
  <1>9. CASE StartFails
    BY <1>9 DEF StartFails
  <1>10. CASE ReportState
    BY <1>10 DEF ReportState
  <1>11. CASE ConnectFails
    BY <1>11 DEF ConnectFails
  <1>12. CASE JoinThreads
    BY <1>12 DEF JoinThreads
  <1>13. CASE SpuriousWakeup
    BY <1>13 DEF SpuriousWakeup
  <1>14. CASE LifetimeWaits
    BY <1>14 DEF LifetimeWaits
  <1>15. CASE LifetimeReports
    BY <1>15 DEF LifetimeReports
  <1>16. CASE ServerLeaves
    BY <1>16, ZenonT(60) DEF ServerLeaves
  <1>17. CASE ServerCrashes
    <2>1. /\ peer' = FALSE
          /\ UNCHANGED <<cpc, answer, fd, state, inited, silent, lpc, tpc>>
      BY <1>17 DEF ServerCrashes
    <2>2. TypeOK'
      BY <2>1, ZenonT(60)
    <2>3. ThreadsFollowSession' /\ ConnectedHasSession'
      BY <2>1
    <2> QED BY <2>2, <2>3
  <1>18. CASE GoSilent
    BY <1>18 DEF GoSilent
  <1>19. CASE Hear
    BY <1>19, ZenonT(60) DEF Hear
  <1>20. CASE AliveTimerFires
    BY <1>20 DEF AliveTimerFires
  <1>21. CASE AliveCheck
    BY <1>21 DEF AliveCheck
  <1>22. CASE ReconnectCheck
    BY <1>22 DEF ReconnectCheck
  <1>23. CASE ReconnectWrites
    BY <1>23 DEF ReconnectWrites
  <1>24. CASE ReconnectNotifies
    BY <1>24 DEF ReconnectNotifies
  <1>25. CASE UNCHANGED vars
    BY <1>25 DEF vars
  <1> QED
    BY <1>1, <1>2, <1>3, <1>4, <1>5, <1>6, <1>7, <1>8, <1>9, <1>10, <1>11,
       <1>12, <1>13, <1>14, <1>15, <1>16, <1>17, <1>18, <1>19, <1>20, <1>21,
       <1>22, <1>23, <1>24, <1>25
    DEF Next, ConnectorStep, LifetimeStep, TimerStep

LEMMA SessionInvariant == Spec => []SessionInv
  BY SessionInit, SessionNext, PTL DEF Spec

\* Every variable keeps its type; an answer of the listener is outstanding
\* exactly while the connector receives.
THEOREM SessionTypes == Spec => []TypeOK
  <1>1. SessionInv => TypeOK
    BY DEF SessionInv
  <1> QED BY <1>1, SessionInvariant, PTL

\* start() never assigns to the joinable thread of an earlier session, so a
\* reconnection does not terminate the process.
THEOREM StartFindsNoThread == Spec => []NoThreadLeft
  <1>1. SessionInv => NoThreadLeft
    BY DEF SessionInv, ThreadsFollowSession, NoThreadLeft
  <1> QED BY <1>1, SessionInvariant, PTL

\* A client that calls itself connected and is not just replacing its session
\* has one, although three threads write connection_state without a lock.
THEOREM ConnectedIsTrue == Spec => []ConnectedHasSession
  <1>1. SessionInv => ConnectedHasSession
    BY DEF SessionInv
  <1> QED BY <1>1, SessionInvariant, PTL

-----------------------------------------------------------------------------
(* The control block                                                       *)

USE DEF Block!vars, Block!serverVars

LEMMA OrderLengths ==
  /\ Len(Block!InitOrder) = 11 /\ Len(Block!DestroyOrder) = 9
  /\ Len(Block!CleanUp) = 13
  BY DEF Block!InitOrder, Block!DestroyOrder, Block!CleanUp

\* The objects of the control block are those of the last nine calls.
LEMMA SharedObjects ==
  Block!Shared =
    {"c_lifetime_lock", "c_should_stop_lock", "c_should_stop_con",
     "c_lock", "s_lock",
     "c_can_r_con", "c_can_w_con", "s_can_r_con", "s_can_w_con"}
  BY OrderLengths DEF Block!Shared, Block!Attributes, Block!InitOrder

\* Everything that is initialised is destroyed, and once.
LEMMA OrdersAgree ==
  /\ Block!Shared = {Block!DestroyOrder[j] : j \in 1..9}
  /\ \A i, j \in 1..9 :
       Block!DestroyOrder[i] = Block!DestroyOrder[j] => i = j
  BY SharedObjects DEF Block!DestroyOrder

\* A flag is set when its call was made.
LEMMA FlagsAreCalls ==
  ASSUME k_made \in 0..11, NEW i \in 1..11
  PROVE  Block!Inited(Block!InitOrder[i]) <=> i <= k_made
  <1>1. \A j \in 1..11 : Block!InitOrder[j] = Block!InitOrder[i] => i = j
    BY DEF Block!InitOrder
  <1> QED BY <1>1 DEF Block!Inited

\* result, although it leaves out three flags, says that all calls were made.
LEMMA ResultIsAll ==
  ASSUME k_made \in 0..11
  PROVE  /\ Block!Result <=> k_made = 11
         /\ Block!Inited("s_can_w_con") => k_made = 11
         /\ k_made = 11 => \A o \in Block!Shared \cup Block!Attributes :
                             Block!Inited(o)
  <1>1. Block!InitOrder[11] = "s_can_w_con"
    BY DEF Block!InitOrder
  <1>2. Block!Inited("s_can_w_con") <=> 11 <= k_made
    BY <1>1, FlagsAreCalls
  <1>3. ASSUME k_made = 11, NEW o \in Block!Shared \cup Block!Attributes
        PROVE  Block!Inited(o)
    <2>1. PICK i \in 1..11 : Block!InitOrder[i] = o
      <3>1. CASE o \in Block!Shared
        BY <3>1, OrderLengths DEF Block!Shared
      <3>2. CASE o \in Block!Attributes
        <4>1. o = Block!InitOrder[1] \/ o = Block!InitOrder[2]
          BY <3>2 DEF Block!Attributes, Block!InitOrder
        <4> QED BY <4>1
      <3> QED BY <3>1, <3>2
    <2> QED BY <1>3, <2>1, FlagsAreCalls
  <1>4. Block!ResultFlags \subseteq Block!Shared \cup Block!Attributes
    BY SharedObjects DEF Block!ResultFlags, Block!Attributes
  <1>5. "s_can_w_con" \in Block!ResultFlags
    BY DEF Block!ResultFlags
  <1> QED BY <1>2, <1>3, <1>4, <1>5 DEF Block!Result

\* What the first n lines of the two lists of destroy calls destroy.
CleanedBy(n) ==
  {Block!CleanUp[j].do :
     j \in {i \in 1..n : Block!Inited(Block!CleanUp[i].if)}}
DestroyedBy(n) == {Block!DestroyOrder[j] : j \in 1..n}

\* How far the thread of the server is tells what is there.
ServerProgress ==
  /\ k_server \in {"init", "cleanup", "failed"} => k_client = "absent"
  /\ k_server = "init" =>
       /\ k_made < 11 /\ k_undone = 0
       /\ k_gone = {} /\ k_stray = {}
  /\ k_server = "cleanup" =>
       /\ k_undone < 13 /\ k_gone = CleanedBy(k_undone)
       /\ k_undone >= 2 => k_made # 11
       /\ k_undone <= 2 => k_stray = {}
  /\ k_server \in {"init", "cleanup", "failed"} =>
       k_stray \subseteq Block!Attributes
  /\ k_server = "failed" => k_made # 11 /\ k_gone = CleanedBy(13)
  /\ k_server \in {"run", "broadcast", "lockwait"} =>
       k_gone = Block!Attributes
  /\ k_server \in {"run", "broadcast", "lockwait", "destroy", "done"} =>
       k_made = 11 /\ k_stray = {}
  /\ k_server = "destroy" =>
       k_undone < 9 /\ k_gone = Block!Attributes \cup DestroyedBy(k_undone)
  /\ k_server = "done" => k_gone = Block!Attributes \cup Block!Shared

\* The lifetime thread that was first holds the lock until it has ended, and
\* the server has the lock between that and the first destruction.
LifetimeFirst ==
  /\ k_client = "absent" => k_lifetime = "none"
  /\ k_met => /\ k_lifetime \notin {"none", "begin"}
              /\ k_holder = "client" \/ k_lifetime = "ended"
  /\ k_met /\ k_server \in {"destroy", "done"} => k_lifetime = "ended"

BlockInv == Block!TypeOK /\ ServerProgress /\ LifetimeFirst

LEMMA BlockInit == Block!Init => BlockInv
  <1> SUFFICES ASSUME Block!Init PROVE BlockInv
    OBVIOUS
  <1>1. Block!TypeOK
    <2>1. 0 \in 0..11 /\ 0 \in 0..13
      OBVIOUS
    <2> QED BY <2>1, OrderLengths, Zenon DEF Block!Init, Block!TypeOK
  <1>2. ServerProgress /\ LifetimeFirst
    BY DEF Block!Init, ServerProgress, LifetimeFirst
  <1> QED BY <1>1, <1>2 DEF BlockInv

-----------------------------------------------------------------------------
(* The destroy calls                                                       *)

\* One line of the clean-up more.
LEMMA CleanedByNext ==
  ASSUME NEW n \in 0..12
  PROVE  CleanedBy(n + 1) =
           IF Block!Inited(Block!CleanUp[n + 1].if)
             THEN CleanedBy(n) \cup {Block!CleanUp[n + 1].do}
             ELSE CleanedBy(n)
  <1>1. 1..n + 1 = 1..n \cup {n + 1}
    OBVIOUS
  <1> QED BY <1>1, Zenon DEF CleanedBy

\* The lines name known objects, that of the flag but in the eighth; the
\* attributes are in the first two, and after those no object comes twice
\* but in that line and in the last two.
LEMMA CleanUpLines ==
  ASSUME NEW n \in 1..13
  PROVE  /\ Block!CleanUp[n].do \in Block!Shared \cup Block!Attributes
         /\ n # 8 => Block!CleanUp[n].if = Block!CleanUp[n].do
         /\ n = 8 => Block!CleanUp[n].if = "s_can_w_con"
         /\ n \in {12, 13} => Block!CleanUp[n].do \in Block!Attributes
         /\ \A j \in 1..n - 1 :
              Block!CleanUp[j].do = Block!CleanUp[n].do => n \in {8, 12, 13}
  <1> USE SharedObjects DEF Block!CleanUp, Block!Attributes
  <1>1. CASE n \in 1..4
    BY <1>1
  <1>2. CASE n \in 5..8
    BY <1>2
  <1>3. CASE n \in 9..11
    BY <1>3
  <1>4. CASE n \in 12..13
    BY <1>4
  <1> QED BY <1>1, <1>2, <1>3, <1>4

\* Every object but s_can_w_con has its line.
LEMMA CleanUpNamesAll ==
  ASSUME NEW o \in Block!Shared \cup Block!Attributes, o # "s_can_w_con"
  PROVE  \E n \in 1..13 : Block!CleanUp[n].if = o /\ Block!CleanUp[n].do = o
  <1> DEFINE Has(n) == Block!CleanUp[n].if = o /\ Block!CleanUp[n].do = o
  <1>1. \/ Has(1) \/ Has(2) \/ Has(3) \/ Has(4) \/ Has(5) \/ Has(6)
        \/ Has(7) \/ Has(9) \/ Has(10) \/ Has(11)
    BY SharedObjects DEF Block!CleanUp, Block!Attributes
  <1> QED BY <1>1

\* A line of the clean-up that destroys finds its object there, unless it
\* destroys an attribute again.
LEMMA CleanUpStrays ==
  ASSUME k_made \in 0..11, NEW n \in 0..12, k_gone = CleanedBy(n),
         n >= 2 => k_made # 11,
         Block!Inited(Block!CleanUp[n + 1].if)
  PROVE  \/ Block!Live(Block!CleanUp[n + 1].do)
         \/ n >= 2 /\ Block!CleanUp[n + 1].do \in Block!Attributes
  <1>1. n + 1 \in 1..13
    OBVIOUS
  <1>2. n + 1 # 8
    BY <1>1, CleanUpLines, ResultIsAll
  <1>3. Block!Inited(Block!CleanUp[n + 1].do)
    BY <1>1, <1>2, CleanUpLines
  <1>4. CASE n + 1 \in {12, 13}
    BY <1>1, <1>4, CleanUpLines
  <1>5. CASE n + 1 \notin {12, 13}
    <2>1. \A j \in 1..n : Block!CleanUp[j].do # Block!CleanUp[n + 1].do
      BY <1>1, <1>2, <1>5, CleanUpLines
    <2>2. Block!CleanUp[n + 1].do \notin k_gone
      BY <2>1 DEF CleanedBy
    <2> QED BY <1>3, <2>2 DEF Block!Live
  <1> QED BY <1>4, <1>5

LEMMA ProgressCleanUp ==
  ASSUME BlockInv, Block!CleanUpNext
  PROVE  /\ ServerProgress'
         /\ k_server' \in {"cleanup", "run", "failed"}
         /\ k_undone' \in 0..13
         /\ k_gone' \subseteq Block!Shared \cup Block!Attributes
         /\ k_stray' \subseteq Block!Attributes
  <1> DEFINE n == k_undone
             d == Block!CleanUp[n + 1].do
             flag == Block!Inited(Block!CleanUp[n + 1].if)
  <1>1. /\ k_server = "cleanup" /\ n' = n + 1 /\ k_made' = k_made
        /\ k_client' = k_client
        /\ IF flag THEN /\ k_gone' = k_gone \cup {d}
                        /\ k_stray' = IF Block!Live(d) THEN k_stray
                                      ELSE k_stray \cup {d}
                   ELSE UNCHANGED <<k_gone, k_stray>>
        /\ k_server' = IF n + 1 = 2 /\ Block!Result THEN "run"
                       ELSE IF n + 1 = 13 THEN "failed" ELSE "cleanup"
    BY OrderLengths DEF Block!CleanUpNext, Block!Destroy
  <1>2. /\ k_made \in 0..11 /\ n \in 0..12 /\ k_gone = CleanedBy(n)
        /\ n >= 2 => k_made # 11
        /\ n <= 2 => k_stray = {}
        /\ k_client = "absent" /\ k_stray \subseteq Block!Attributes
        /\ k_gone \subseteq Block!Shared \cup Block!Attributes
    BY <1>1, OrderLengths DEF BlockInv, ServerProgress, Block!TypeOK
  <1>3. k_gone' = CleanedBy(n + 1)
    BY <1>1, <1>2, CleanedByNext
  <1>4. CleanedBy(n + 1)' = CleanedBy(n + 1)'
    OBVIOUS
  <1>5. \A m : CleanedBy(m)' = CleanedBy(m)
    BY <1>1 DEF CleanedBy, Block!Inited
  <1>6. d \in Block!Shared \cup Block!Attributes
    BY <1>2, CleanUpLines
  <1>7. flag => Block!Live(d) \/ (n >= 2 /\ d \in Block!Attributes)
    BY <1>2, CleanUpStrays
  <1>8. Block!Result <=> k_made = 11
    BY <1>2, ResultIsAll
  <1> HIDE DEF d, flag
  <1>9. /\ k_stray' \subseteq Block!Attributes
        /\ n + 1 <= 2 => k_stray' = {}
        /\ k_gone' \subseteq Block!Shared \cup Block!Attributes
    BY <1>1, <1>2, <1>6, <1>7
  <1>10. CASE n + 1 = 2 /\ k_made = 11
    <2>1. CleanedBy(2) = Block!Attributes
      <3>1. /\ Block!CleanUp[1].if = "mutex_attr"
            /\ Block!CleanUp[1].do = "mutex_attr"
            /\ Block!CleanUp[2].if = "cond_attr"
            /\ Block!CleanUp[2].do = "cond_attr"
        BY DEF Block!CleanUp
      <3>2. Block!Inited("mutex_attr") /\ Block!Inited("cond_attr")
        BY <1>2, <1>10, ResultIsAll DEF Block!Attributes
      <3>3. {i \in 1..2 : Block!Inited(Block!CleanUp[i].if)} = {1, 2}
        BY <3>1, <3>2
      <3> QED BY <3>1, <3>3 DEF CleanedBy, Block!Attributes
    <2>2. k_server' = "run"
      BY <1>1, <1>8, <1>10
    <2> QED
      BY <1>1, <1>2, <1>3, <1>9, <1>10, <2>1, <2>2 DEF ServerProgress
  <1>11. CASE ~(n + 1 = 2 /\ k_made = 11)
    <2>1. k_server' = IF n + 1 = 13 THEN "failed" ELSE "cleanup"
      BY <1>1, <1>8, <1>11
    <2>2. n + 1 >= 2 => k_made' # 11
      BY <1>1, <1>2, <1>11
    <2> QED
      BY <1>1, <1>2, <1>3, <1>5, <1>9, <2>1, <2>2 DEF ServerProgress
  <1> QED BY <1>10, <1>11

LEMMA ProgressDestroy ==
  ASSUME BlockInv, Block!DestroyNext
  PROVE  /\ ServerProgress'
         /\ k_server' \in {"destroy", "done"}
         /\ k_undone' \in 0..13
         /\ k_gone' \subseteq Block!Shared \cup Block!Attributes
         /\ k_stray' = {}
  <1> DEFINE n == k_undone
             d == Block!DestroyOrder[n + 1]
  <1>1. /\ k_server = "destroy" /\ n' = n + 1 /\ k_made' = k_made
        /\ k_gone' = k_gone \cup {d}
        /\ k_stray' = IF Block!Live(d) THEN k_stray ELSE k_stray \cup {d}
        /\ k_server' = IF n + 1 = 9 THEN "done" ELSE "destroy"
    BY OrderLengths DEF Block!DestroyNext, Block!Destroy
  <1>2. /\ k_made = 11 /\ k_stray = {} /\ n \in 0..8
        /\ k_gone = Block!Attributes \cup DestroyedBy(n)
        /\ k_gone \subseteq Block!Shared \cup Block!Attributes
    BY <1>1, OrderLengths DEF BlockInv, ServerProgress, Block!TypeOK
  <1>3. n + 1 \in 1..9 /\ 1..n + 1 = 1..n \cup {n + 1}
    BY <1>2
  <1>4. d \in Block!Shared /\ d \notin Block!Attributes
    BY <1>3, OrdersAgree DEF Block!Shared
  <1>5. d \notin DestroyedBy(n)
    BY <1>2, <1>3, OrdersAgree DEF DestroyedBy
  <1>6. Block!Live(d)
    BY <1>2, <1>4, <1>5, ResultIsAll DEF Block!Live
  <1>7. k_gone' = Block!Attributes \cup DestroyedBy(n + 1)
    BY <1>1, <1>2, <1>3 DEF DestroyedBy
  <1>8. DestroyedBy(9) = Block!Shared
    BY OrdersAgree DEF DestroyedBy
  <1> HIDE DEF d
  <1> QED
    BY <1>1, <1>2, <1>3, <1>4, <1>6, <1>7, <1>8 DEF ServerProgress

LEMMA ProgressKept ==
  ASSUME ServerProgress, UNCHANGED Block!serverVars,
         k_server \in {"init", "cleanup", "failed"} => k_client' = "absent"
  PROVE  ServerProgress'
  BY DEF ServerProgress, CleanedBy, Block!Inited

LEMMA ProgressNext == BlockInv /\ [Block!Next]_blockVars => ServerProgress'
  <1> SUFFICES ASSUME BlockInv, [Block!Next]_blockVars PROVE ServerProgress'
    OBVIOUS
  <1>1. CASE Block!InitNext
    <2>1. /\ k_server = "init" /\ k_made' = k_made + 1
          /\ k_server' = IF k_made' = 11 THEN "cleanup" ELSE "init"
          /\ UNCHANGED <<k_undone, k_gone, k_stray, k_client>>
      BY <1>1, OrderLengths DEF Block!InitNext
    <2>2. /\ k_made < 11 /\ k_made \in 0..11 /\ k_undone = 0
          /\ k_gone = {} /\ k_stray = {} /\ k_client = "absent"
      BY <2>1, OrderLengths DEF BlockInv, ServerProgress, Block!TypeOK
    <2>3. CleanedBy(0)' = {}
      BY DEF CleanedBy
    <2> QED BY <2>1, <2>2, <2>3 DEF ServerProgress
  <1>2. CASE Block!InitFails
    <2>1. /\ k_server = "init" /\ k_server' = "cleanup"
          /\ UNCHANGED <<k_made, k_undone, k_gone, k_stray, k_client>>
      BY <1>2 DEF Block!InitFails
    <2>2. /\ k_made < 11 /\ k_made \in 0..11 /\ k_undone = 0
          /\ k_gone = {} /\ k_stray = {} /\ k_client = "absent"
      BY <2>1, OrderLengths DEF BlockInv, ServerProgress, Block!TypeOK
    <2>3. CleanedBy(0)' = {}
      BY DEF CleanedBy
    <2> QED BY <2>1, <2>2, <2>3 DEF ServerProgress
  <1>3. CASE Block!CleanUpNext
    BY <1>3, ProgressCleanUp
  <1>4. CASE Block!DestroyNext
    BY <1>4, ProgressDestroy
  <1>5. CASE Block!Broadcast
    BY <1>5 DEF Block!Broadcast, BlockInv, ServerProgress
  <1>6. CASE Block!ServerStops
    BY <1>6 DEF Block!ServerStops, BlockInv, ServerProgress
  <1>7. CASE Block!WaitForClient
    <2>1. DestroyedBy(0) = {}
      BY DEF DestroyedBy
    <2> QED
      BY <1>7, <2>1 DEF Block!WaitForClient, BlockInv, ServerProgress
  <1>8. CASE UNCHANGED Block!serverVars
    <2>1. k_server \in {"init", "cleanup", "failed"} => k_client' = "absent"
      BY <1>8
      DEF BlockInv, ServerProgress, LifetimeFirst, Block!Next,
          Block!ServerStep, Block!ClientStop, Block!LifetimeStep,
          Block!ReaderStep, Block!InitNext, Block!InitFails,
          Block!CleanUpNext, Block!DestroyNext, Block!Broadcast,
          Block!ServerStops, Block!WaitForClient, Block!ClientStarts,
          Block!StopFlags, Block!StopSignals, Block!JoinReader,
          Block!JoinLifetime, Block!ClientKilled, Block!LocksLifetime,
          Block!LocksShouldStop, Block!SpuriousWakeup,
          Block!UnlocksLifetime, Block!ReaderLocks, Block!ReaderSleeps,
          Block!ReaderDrains, Block!ReaderEnds, Block!DataArrives, blockVars
    <2> QED BY <1>8, <2>1, ProgressKept DEF BlockInv
  <1> QED
    BY <1>1, <1>2, <1>3, <1>4, <1>5, <1>6, <1>7, <1>8
    DEF Block!Next, Block!ServerStep, Block!ClientStop, Block!LifetimeStep,
        Block!ReaderStep, Block!ClientStarts, Block!StopFlags,
        Block!StopSignals, Block!JoinReader, Block!JoinLifetime,
        Block!ClientKilled, Block!LocksLifetime, Block!LocksShouldStop,
        Block!SpuriousWakeup, Block!UnlocksLifetime, Block!ReaderLocks,
        Block!ReaderSleeps, Block!ReaderDrains, Block!ReaderEnds,
        Block!DataArrives, blockVars

LEMMA BlockNext == BlockInv /\ [Block!Next]_blockVars => BlockInv'
  <1> SUFFICES ASSUME BlockInv, [Block!Next]_blockVars
               PROVE  (Block!TypeOK /\ LifetimeFirst)'
    BY ProgressNext DEF BlockInv
  <1> USE OrderLengths DEF BlockInv, Block!TypeOK, LifetimeFirst
  <1>1. CASE Block!InitNext
    BY <1>1 DEF Block!InitNext, ServerProgress
  <1>2. CASE Block!Broadcast
    BY <1>2 DEF Block!Broadcast
  <1>3. CASE Block!WaitForClient
    BY <1>3 DEF Block!WaitForClient
  <1>4. CASE Block!DestroyNext
    <2>1. /\ k_server = "destroy"
          /\ UNCHANGED <<k_made, k_client, k_lifetime, k_reader, k_holder,
                         k_met>>
      BY <1>4 DEF Block!DestroyNext
    <2>2. /\ k_server' \in {"destroy", "done"} /\ k_undone' \in 0..13
          /\ k_gone' \subseteq Block!Shared \cup Block!Attributes
          /\ k_stray' = {}
      BY <1>4, ProgressDestroy
    <2> QED BY <2>1, <2>2
  <1>5. CASE Block!InitFails
    BY <1>5 DEF Block!InitFails
  <1>6. CASE Block!ServerStops
    BY <1>6 DEF Block!ServerStops
  <1>7. CASE Block!ClientStarts
    BY <1>7 DEF Block!ClientStarts
  <1>8. CASE Block!StopFlags
    BY <1>8 DEF Block!StopFlags
  <1>9. CASE Block!StopSignals
    BY <1>9 DEF Block!StopSignals
  <1>10. CASE Block!JoinReader
    <2>1. k_lifetime' = k_lifetime \/ k_lifetime = "asleep"
      BY <1>10 DEF Block!JoinReader
    <2>2. k_lifetime' \in {k_lifetime, "asleep", "woken"}
      BY <1>10 DEF Block!JoinReader
    <2>3. /\ k_client = "join" /\ k_client' = "joinLifetime"
          /\ UNCHANGED <<Block!serverVars, k_reader, k_holder, k_met>>
      BY <1>10 DEF Block!JoinReader
    <2> QED BY <2>1, <2>2, <2>3
  <1>11. CASE Block!JoinLifetime
    BY <1>11 DEF Block!JoinLifetime
  <1>12. CASE Block!ClientKilled
    BY <1>12 DEF Block!ClientKilled
  <1>13. CASE Block!LocksLifetime
    <2>1. /\ k_lifetime = "begin" /\ k_lifetime' = "locked" /\ ~k_met
          /\ UNCHANGED <<Block!serverVars, k_client, k_reader>>
      BY <1>13 DEF Block!LocksLifetime
    <2>2. CASE UNCHANGED <<k_holder, k_met>>
      BY <2>1, <2>2
    <2>3. CASE /\ k_holder' = "client"
               /\ k_met' = (k_server \in {"run", "broadcast", "lockwait"})
      <3>1. CASE k_server \in {"run", "broadcast", "lockwait"}
        <4>1. k_met' = TRUE
          BY <2>3, <3>1, Zenon
        <4> QED BY <2>1, <2>3, <3>1, <4>1
      <3>2. CASE k_server \notin {"run", "broadcast", "lockwait"}
        <4>1. (k_server \in {"run", "broadcast", "lockwait"}) = FALSE
          BY <3>2, SMT
        <4>2. k_met' = FALSE
          BY <2>3, <4>1, Zenon
        <4> QED BY <2>1, <2>3, <3>2, <4>2
      <3> QED BY <3>1, <3>2
    <2> QED BY <1>13, <2>2, <2>3 DEF Block!LocksLifetime
  <1>14. CASE Block!LocksShouldStop
    BY <1>14 DEF Block!LocksShouldStop
  <1>15. CASE Block!UnlocksLifetime
    BY <1>15 DEF Block!UnlocksLifetime
  <1>16. CASE Block!SpuriousWakeup
    BY <1>16 DEF Block!SpuriousWakeup
  <1>17. CASE Block!ReaderLocks
    BY <1>17 DEF Block!ReaderLocks
  <1>18. CASE Block!ReaderSleeps
    BY <1>18 DEF Block!ReaderSleeps
  <1>19. CASE Block!ReaderDrains
    BY <1>19 DEF Block!ReaderDrains
  <1>20. CASE Block!ReaderEnds
    BY <1>20 DEF Block!ReaderEnds
  <1>21. CASE Block!DataArrives
    BY <1>21 DEF Block!DataArrives
  <1>22. CASE UNCHANGED blockVars
    BY <1>22 DEF blockVars
  <1>23. CASE Block!CleanUpNext
    <2>1. /\ k_server = "cleanup"
          /\ UNCHANGED <<k_made, k_client, k_lifetime, k_reader, k_holder,
                         k_met>>
      BY <1>23 DEF Block!CleanUpNext
    <2>2. /\ k_server' \in {"cleanup", "run", "failed"}
          /\ k_undone' \in 0..13
          /\ k_gone' \subseteq Block!Shared \cup Block!Attributes
          /\ k_stray' \subseteq Block!Attributes
      BY <1>23, ProgressCleanUp
    <2> QED BY <2>1, <2>2
  <1> QED
    BY <1>1, <1>2, <1>3, <1>4, <1>5, <1>6, <1>7, <1>8, <1>9, <1>10, <1>11,
       <1>12, <1>13, <1>14, <1>15, <1>16, <1>17, <1>18, <1>19, <1>20, <1>21,
       <1>22, <1>23
    DEF Block!Next, Block!ServerStep, Block!ClientStop, Block!LifetimeStep,
        Block!ReaderStep

LEMMA BlockObjects == BlockInv => ObjectsAreThere
  <1> SUFFICES ASSUME BlockInv PROVE ObjectsAreThere
    OBVIOUS
  <1> USE DEF BlockInv, ServerProgress
  <1>1. k_made \in 0..11
    BY OrderLengths DEF Block!TypeOK
  <1>2. ASSUME k_server \in {"run", "broadcast", "lockwait"},
               NEW o \in Block!Shared
        PROVE  Block!Live(o)
    BY <1>1, <1>2, ResultIsAll DEF Block!Live, Block!Shared
  <1>3. ASSUME k_server = "failed",
               NEW o \in Block!Shared \cup Block!Attributes
        PROVE  ~Block!Live(o)
    <2>1. CASE o = "s_can_w_con"
      BY <1>1, <1>3, <2>1, ResultIsAll DEF Block!Live
    <2>2. CASE o # "s_can_w_con"
      <3>1. PICK n \in 1..13 :
              Block!CleanUp[n].if = o /\ Block!CleanUp[n].do = o
        BY <2>2, CleanUpNamesAll
      <3>2. Block!Inited(o) => o \in k_gone
        BY <1>3, <3>1 DEF CleanedBy
      <3> QED BY <3>2 DEF Block!Live
    <2> QED BY <2>1, <2>2
  <1>4. Block!AllOrNothing
    BY <1>2, <1>3 DEF Block!AllOrNothing, Block!Live, Block!TypeOK
  <1>5. Block!DestroysOnce
    BY DEF Block!DestroysOnce, Block!TypeOK
  <1>6. Block!HandshakeCoversLifetime
    <2> SUFFICES ASSUME k_met, k_gone \cap Block!Shared # {}
                 PROVE  k_lifetime = "ended"
      BY DEF Block!HandshakeCoversLifetime
    <2>1. k_server \notin {"init", "cleanup", "failed"}
      BY DEF LifetimeFirst
    <2>2. k_server \notin {"run", "broadcast", "lockwait"}
      BY DEF Block!Shared
    <2> QED BY <2>1, <2>2 DEF LifetimeFirst, Block!TypeOK
  <1> QED
    BY <1>4, <1>5, <1>6 DEF ObjectsAreThere, Block!ObjectsAreThere

\* For every choice of faults, with the calls of pthread_*_init and _destroy
\* one after the other: the synchronisation objects of a connection are all
\* there while the server runs, none is left when its start() has failed or
\* its stop() has returned, although the clean-up names one object twice; only
\* attributes are destroyed twice; and nothing goes before a lifetime thread
\* that had the lock first has ended.
THEOREM BlockIsThere == LivesSpec => []ObjectsAreThere
  <1>1. LivesInit => BlockInv
    BY BlockInit DEF LivesInit
  <1>2. BlockInv /\ [LivesNext]_allVars => BlockInv'
    BY BlockNext DEF LivesNext, allVars, blockVars
  <1> QED BY <1>1, <1>2, BlockObjects, PTL DEF LivesSpec

-----------------------------------------------------------------------------
(* ipc_client_t                                                            *)

USE DEF Client!lifeVars, Client!Begin, Client!End, Client!Use

\* What has been begun by the time a thread may get at it: the constructor
\* makes the members in their order, and a socket precedes its use.
BornBeforeUse ==
  /\ c_stage \notin {"new", "timer"} => "connector" \in c_born
  /\ c_stage \notin {"new", "timer", "connector"} => "connection" \in c_born
  /\ c_connector \in {"connected", "recv", "receiving", "received", "closed"}
       => "conn_fd" \in c_born
  /\ "timer" \in c_alive <=> c_stage \notin {"new", "done"}
  /\ c_stage \in {"noConnector", "joinTimer", "done"} => c_connector = "gone"

ClientUses == Client!TypeOK /\ BornBeforeUse /\ Client!UsesAreKnown

StartedInNone ==
  \E when \in {"before", "after"} :
    <<"connector", "connection", when>> \in c_bad

\* The member's life follows the stage, threads that were joined are gone for
\* good, a session that runs is known to be up, and one that is being stopped
\* is joined by the destructor or by the connector's thread.
ClientThreads ==
  /\ "connection" \in c_alive <=>
       c_stage \in {"connection", "table", "up", "noTable"}
  /\ c_stage = "done" => c_timer = "gone"
  /\ c_inited <=> c_session = "run"
  /\ c_inited => "connection" \in c_alive
  /\ c_session = "stopping" =>
       c_stage = "joinSession" \/ c_connector = "joining"
  /\ c_lost => StartedInNone

ClientInv == ClientUses /\ ClientThreads

LEMMA ClientInit == Client!Init => ClientInv
  BY DEF Client!Init, ClientInv, ClientUses, ClientThreads, BornBeforeUse,
         Client!TypeOK, Client!UsesAreKnown

LEMMA ClientUsesNext == ClientUses /\ [Client!Next]_clientVars => ClientUses'
  <1> SUFFICES ASSUME ClientUses, [Client!Next]_clientVars PROVE ClientUses'
    OBVIOUS
  <1> USE DEF ClientUses, Client!TypeOK, BornBeforeUse, Client!UsesAreKnown,
              Client!Objects
  <1>1. CASE Client!MakeTimer
    BY <1>1 DEF Client!MakeTimer
  <1>2. CASE Client!MakeConnector
    BY <1>2 DEF Client!MakeConnector
  <1>3. CASE Client!MakeConnection
    BY <1>3, ZenonT(60) DEF Client!MakeConnection
  <1>4. CASE Client!MakeTable
    BY <1>4 DEF Client!MakeTable
  <1>5. CASE Client!StartTimers
    BY <1>5 DEF Client!StartTimers
  <1>6. CASE Client!DestroyTable
    BY <1>6 DEF Client!DestroyTable
  <1>7. CASE Client!DestroyConnection
    BY <1>7, SMTT(30), ZenonT(60) DEF Client!DestroyConnection
  <1>8. CASE Client!JoinSession
    BY <1>8, ZenonT(60) DEF Client!JoinSession
  <1>9. CASE Client!StopConnector
    BY <1>9 DEF Client!StopConnector
  <1>10. CASE Client!NotifyConnector
    BY <1>10 DEF Client!NotifyConnector
  <1>11. CASE Client!JoinConnector
    BY <1>11 DEF Client!JoinConnector
  <1>12. CASE Client!DestroyTimer
    BY <1>12 DEF Client!DestroyTimer
  <1>13. CASE Client!Loop
    BY <1>13 DEF Client!Loop
  <1>14. CASE Client!Connect
    BY <1>14, ZenonT(60) DEF Client!Connect
  <1>15. CASE Client!Connected
    BY <1>15 DEF Client!Connected
  <1>16. CASE Client!EnterReceive
    BY <1>16 DEF Client!EnterReceive
  <1>17. CASE Client!CloseSocket
    BY <1>17 DEF Client!CloseSocket
  <1>18. CASE Client!ForgetSocket
    BY <1>18 DEF Client!ForgetSocket
  <1>19. CASE Client!StopSession
    BY <1>19, ZenonT(120) DEF Client!StopSession
  <1>20. CASE Client!StartSession
    BY <1>20, ZenonT(120) DEF Client!StartSession
  <1>21. CASE Client!Wait
    BY <1>21 DEF Client!Wait
  <1>22. CASE Client!Receive
    BY <1>22 DEF Client!Receive
  <1>23. CASE Client!SessionRuns
    BY <1>23 DEF Client!SessionRuns
  <1>24. CASE Client!SessionEnds
    BY <1>24 DEF Client!SessionEnds
  <1>25. CASE Client!Heartbeat
    BY <1>25 DEF Client!Heartbeat
  <1>26. CASE Client!Reconnect
    BY <1>26 DEF Client!Reconnect
  <1>27. CASE Client!CheckFires
    BY <1>27 DEF Client!CheckFires
  <1>28. CASE Client!Check
    BY <1>28 DEF Client!Check
  <1>29. CASE Client!JoinStopped
    BY <1>29 DEF Client!JoinStopped
  <1>30. CASE Client!StopTimer
    BY <1>30 DEF Client!StopTimer
  <1>31. CASE UNCHANGED clientVars
    BY <1>31 DEF clientVars
  <1> QED
    BY <1>1, <1>2, <1>3, <1>4, <1>5, <1>6, <1>7, <1>8, <1>9, <1>10, <1>11,
       <1>12, <1>13, <1>14, <1>15, <1>16, <1>17, <1>18, <1>19, <1>20, <1>21,
       <1>22, <1>23, <1>24, <1>25, <1>26, <1>27, <1>28, <1>29, <1>30, <1>31
    DEF Client!Next, Client!Construct, Client!Destruct, Client!ConnectorStep

LEMMA ClientNext == ClientInv /\ [Client!Next]_clientVars => ClientInv'
  <1> SUFFICES ASSUME ClientInv, [Client!Next]_clientVars PROVE ClientThreads'
    BY ClientUsesNext DEF ClientInv
  <1> USE DEF ClientInv, ClientUses, ClientThreads, StartedInNone,
              Client!TypeOK
  <1>1. CASE Client!MakeTimer
    BY <1>1 DEF Client!MakeTimer
  <1>2. CASE Client!MakeConnector
    BY <1>2 DEF Client!MakeConnector
  <1>3. CASE Client!MakeConnection
    BY <1>3 DEF Client!MakeConnection
  <1>4. CASE Client!MakeTable
    BY <1>4 DEF Client!MakeTable
  <1>5. CASE Client!StartTimers
    BY <1>5 DEF Client!StartTimers
  <1>6. CASE Client!DestroyTable
    BY <1>6 DEF Client!DestroyTable
  <1>7. CASE Client!DestroyConnection
    BY <1>7 DEF Client!DestroyConnection
  <1>8. CASE Client!JoinSession
    BY <1>8 DEF Client!JoinSession
  <1>9. CASE Client!StopConnector
    BY <1>9 DEF Client!StopConnector
  <1>10. CASE Client!NotifyConnector
    BY <1>10 DEF Client!NotifyConnector
  <1>11. CASE Client!JoinConnector
    BY <1>11 DEF Client!JoinConnector
  <1>12. CASE Client!DestroyTimer
    BY <1>12 DEF Client!DestroyTimer
  <1>13. CASE Client!Loop
    BY <1>13 DEF Client!Loop
  <1>14. CASE Client!Connect
    BY <1>14 DEF Client!Connect
  <1>15. CASE Client!Connected
    BY <1>15 DEF Client!Connected
  <1>16. CASE Client!EnterReceive
    BY <1>16 DEF Client!EnterReceive
  <1>17. CASE Client!CloseSocket
    BY <1>17 DEF Client!CloseSocket
  <1>18. CASE Client!ForgetSocket
    BY <1>18 DEF Client!ForgetSocket
  <1>19. CASE Client!StopSession
    BY <1>19 DEF Client!StopSession
  <1>20. CASE Client!StartSession
    BY <1>20 DEF Client!StartSession
  <1>21. CASE Client!Wait
    BY <1>21 DEF Client!Wait
  <1>22. CASE Client!Receive
    BY <1>22 DEF Client!Receive
  <1>23. CASE Client!SessionRuns
    BY <1>23 DEF Client!SessionRuns
  <1>24. CASE Client!SessionEnds
    BY <1>24 DEF Client!SessionEnds
  <1>25. CASE Client!Heartbeat
    BY <1>25 DEF Client!Heartbeat
  <1>26. CASE Client!Reconnect
    BY <1>26 DEF Client!Reconnect
  <1>27. CASE Client!CheckFires
    BY <1>27 DEF Client!CheckFires
  <1>28. CASE Client!Check
    BY <1>28 DEF Client!Check
  <1>29. CASE Client!JoinStopped
    BY <1>29 DEF Client!JoinStopped
  <1>30. CASE Client!StopTimer
    BY <1>30 DEF Client!StopTimer
  <1>31. CASE UNCHANGED clientVars
    BY <1>31 DEF clientVars
  <1> QED
    BY <1>1, <1>2, <1>3, <1>4, <1>5, <1>6, <1>7, <1>8, <1>9, <1>10, <1>11,
       <1>12, <1>13, <1>14, <1>15, <1>16, <1>17, <1>18, <1>19, <1>20, <1>21,
       <1>22, <1>23, <1>24, <1>25, <1>26, <1>27, <1>28, <1>29, <1>30, <1>31
    DEF Client!Next, Client!Construct, Client!Destruct, Client!ConnectorStep

LEMMA ClientNoneOutlives == ClientInv => Client!NoThreadOutlives
  BY DEF ClientInv, ClientUses, BornBeforeUse, Client!TypeOK, ClientThreads,
         StartedInNone, Client!NoThreadOutlives

-----------------------------------------------------------------------------
(* ipc_server_t                                                            *)

USE DEF Server!lifeVars, Server!Begin, Server!End, Server!Misuse

LEMMA StageNames ==
  {Server!Stages[i] : i \in 1..12} =
    {"new", "listener", "timer", "connections", "up", "noTable",
     "noConnections", "joinTimer", "stop", "close", "join", "done"}
  BY DEF Server!Stages

\* The members' lives follow the stage, and the timer outlives its thread.
HostMembers ==
  /\ "connections" \in s_alive <=> s_stage \in {"connections", "up", "noTable"}
  /\ s_timer \in Conns \cup {"idle"} => "timer" \in s_alive
  /\ s_stage \in {"timer", "connections", "up", "noTable", "noConnections",
                  "joinTimer"} => s_timer \in Conns \cup {"idle"}
  /\ s_stage \in {"new", "listener"} => s_timer = "none"
  /\ "table" \in s_born => "connections" \in s_born

\* What the listener's thread has in hand is a connection.
ListenerHolds ==
  s_listener \in {"accepted", "make", "insert"} => s_lconn \in Conns

HostUses ==
  Server!TypeOK /\ HostMembers /\ ListenerHolds /\ Server!UsesAreKnown

PutIntoNone ==
  \E when \in {"before", "after"} :
    <<"listener", "connections", when>> \in s_bad

\* Threads that were joined are gone for good; a connection with threads is
\* in the map, or being closed, or was put into none.
HostThreads ==
  /\ s_stage = "done" => s_listener = "gone"
  /\ s_stage \in {"stop", "close", "join", "done"} => s_timer = "gone"
  /\ \A k \in Conns :
       /\ s_conn[k] = "live" => s_stage \in {"connections", "up", "noTable"}
       /\ s_conn[k] = "closing" => s_stage = "noConnections"
       /\ s_conn[k] = "removed" => s_held /\ s_timer = k
       /\ s_conn[k] = "lost" => PutIntoNone

HostInv == HostUses /\ HostThreads

LEMMA HostInit == Server!Init => HostInv
  BY StageNames, ServerAssumption
  DEF Server!Init, HostInv, HostUses, HostThreads, HostMembers, ListenerHolds,
      Server!TypeOK, Server!UsesAreKnown, Server!ConstantsOK

LEMMA HostUsesNext == HostUses /\ [Server!Next]_hostVars => HostUses'
  <1> SUFFICES ASSUME HostUses, [Server!Next]_hostVars PROVE HostUses'
    OBVIOUS
  <1> USE StageNames, ServerAssumption
      DEF HostUses, HostMembers, ListenerHolds, Server!TypeOK,
          Server!UsesAreKnown, Server!ConstantsOK, Server!Objects
  <1>1. CASE Server!MakeListener
    <2>1. /\ s_stage = "new" /\ s_stage' = "listener"
          /\ s_flag' \in BOOLEAN /\ s_listener' = "accept"
          /\ UNCHANGED <<Server!lifeVars, s_lconn, s_conn, s_timer, s_held,
                         s_bad>>
      BY <1>1 DEF Server!MakeListener
    <2>2. Server!TypeOK'
      BY <2>1
    <2>3. HostMembers'
      BY <2>1
    <2> QED BY <2>1, <2>2, <2>3
  <1>2. CASE Server!MakeTimer
    BY <1>2 DEF Server!MakeTimer
  <1>3. CASE Server!MakeConnections
    BY <1>3 DEF Server!MakeConnections
  <1>4. CASE Server!MakeTable
    BY <1>4 DEF Server!MakeTable
  <1>5. CASE Server!DestroyTable
    BY <1>5 DEF Server!DestroyTable
  <1>6. CASE Server!DestroyConnections
    BY <1>6 DEF Server!DestroyConnections
  <1>7. ASSUME NEW k \in Conns, Server!CloseConnection(k) PROVE HostUses'
    BY <1>7 DEF Server!CloseConnection
  <1>8. CASE Server!ConnectionsClosed
    BY <1>8 DEF Server!ConnectionsClosed
  <1>9. CASE Server!DestroyTimer
    BY <1>9 DEF Server!DestroyTimer
  <1>10. CASE Server!StopListener
    BY <1>10 DEF Server!StopListener
  <1>11. CASE Server!CloseSocket
    BY <1>11 DEF Server!CloseSocket
  <1>12. CASE Server!JoinListener
    BY <1>12 DEF Server!JoinListener
  <1>13. ASSUME NEW k \in Conns, Server!Accept(k) PROVE HostUses'
    BY <1>13 DEF Server!Accept
  <1>14. CASE Server!Accepted
    BY <1>14 DEF Server!Accepted
  <1>15. CASE Server!MakeConnection
    BY <1>15 DEF Server!MakeConnection
  <1>16. CASE Server!InsertConnection
    BY <1>16 DEF Server!InsertConnection
  <1>17. CASE Server!AcceptFails
    BY <1>17 DEF Server!AcceptFails
  <1>18. ASSUME NEW k \in Conns, Server!ReaderLooksUp(k) PROVE HostUses'
    BY <1>18 DEF Server!ReaderLooksUp
  <1>22. ASSUME NEW k \in Conns, Server!HandlerSends(k) PROVE HostUses'
    BY <1>22 DEF Server!HandlerSends
  <1>23. CASE Server!ConnectionRemoved
    BY <1>23 DEF Server!ConnectionRemoved
  <1>24. CASE Server!CheckReturns
    BY <1>24 DEF Server!CheckReturns
  <1>19. ASSUME NEW k \in Conns, Server!CheckFires(k) PROVE HostUses'
    BY <1>19 DEF Server!CheckFires
  <1>20. CASE Server!RemoveConnection
    BY <1>20 DEF Server!RemoveConnection
  <1>21. CASE UNCHANGED hostVars
    BY <1>21 DEF hostVars
  <1> QED
    BY <1>1, <1>2, <1>3, <1>4, <1>5, <1>6, <1>7, <1>8, <1>9, <1>10, <1>11,
       <1>12, <1>13, <1>14, <1>15, <1>16, <1>17, <1>18, <1>19, <1>20, <1>21,
       <1>22, <1>23, <1>24
    DEF Server!Next, Server!Construct, Server!Destruct, Server!ListenerStep,
        Server!ConnectionStep

LEMMA HostNext == HostInv /\ [Server!Next]_hostVars => HostInv'
  <1> SUFFICES ASSUME HostInv, [Server!Next]_hostVars PROVE HostThreads'
    BY HostUsesNext DEF HostInv
  <1> USE StageNames, ServerAssumption
      DEF HostInv, HostUses, HostThreads, HostMembers, ListenerHolds,
          PutIntoNone, Server!TypeOK, Server!ConstantsOK
  <1>1. CASE Server!MakeListener
    BY <1>1 DEF Server!MakeListener
  <1>2. CASE Server!MakeTimer
    BY <1>2 DEF Server!MakeTimer
  <1>3. CASE Server!MakeConnections
    BY <1>3 DEF Server!MakeConnections
  <1>4. CASE Server!MakeTable
    BY <1>4 DEF Server!MakeTable
  <1>5. CASE Server!DestroyTable
    BY <1>5 DEF Server!DestroyTable
  <1>6. CASE Server!DestroyConnections
    BY <1>6 DEF Server!DestroyConnections
  <1>7. ASSUME NEW k \in Conns, Server!CloseConnection(k) PROVE HostThreads'
    BY <1>7 DEF Server!CloseConnection
  <1>8. CASE Server!ConnectionsClosed
    BY <1>8 DEF Server!ConnectionsClosed
  <1>9. CASE Server!DestroyTimer
    BY <1>9 DEF Server!DestroyTimer
  <1>10. CASE Server!StopListener
    BY <1>10 DEF Server!StopListener
  <1>11. CASE Server!CloseSocket
    BY <1>11 DEF Server!CloseSocket
  <1>12. CASE Server!JoinListener
    BY <1>12 DEF Server!JoinListener
  <1>13. ASSUME NEW k \in Conns, Server!Accept(k) PROVE HostThreads'
    BY <1>13 DEF Server!Accept
  <1>14. CASE Server!Accepted
    BY <1>14 DEF Server!Accepted
  <1>15. CASE Server!MakeConnection
    BY <1>15 DEF Server!MakeConnection
  <1>16. CASE Server!InsertConnection
    BY <1>16 DEF Server!InsertConnection
  <1>17. CASE Server!AcceptFails
    BY <1>17 DEF Server!AcceptFails
  <1>18. ASSUME NEW k \in Conns, Server!ReaderLooksUp(k) PROVE HostThreads'
    BY <1>18 DEF Server!ReaderLooksUp
  <1>22. ASSUME NEW k \in Conns, Server!HandlerSends(k) PROVE HostThreads'
    BY <1>22 DEF Server!HandlerSends
  <1>23. CASE Server!ConnectionRemoved
    BY <1>23 DEF Server!ConnectionRemoved
  <1>24. CASE Server!CheckReturns
    BY <1>24 DEF Server!CheckReturns
  <1>19. ASSUME NEW k \in Conns, Server!CheckFires(k) PROVE HostThreads'
    BY <1>19 DEF Server!CheckFires
  <1>20. CASE Server!RemoveConnection
    BY <1>20 DEF Server!RemoveConnection
  <1>21. CASE UNCHANGED hostVars
    BY <1>21 DEF hostVars
  <1> QED
    BY <1>1, <1>2, <1>3, <1>4, <1>5, <1>6, <1>7, <1>8, <1>9, <1>10, <1>11,
       <1>12, <1>13, <1>14, <1>15, <1>16, <1>17, <1>18, <1>19, <1>20, <1>21,
       <1>22, <1>23, <1>24
    DEF Server!Next, Server!Construct, Server!Destruct, Server!ListenerStep,
        Server!ConnectionStep

LEMMA HostNoneOutlives == HostInv => Server!NoThreadOutlives
  BY ServerAssumption
  DEF HostInv, HostUses, HostThreads, PutIntoNone, Server!TypeOK,
      Server!ConstantsOK, Server!NoThreadOutlives

-----------------------------------------------------------------------------
(* Both                                                                    *)

LEMMA ObjectsInvariant == LivesSpec => [](ClientInv /\ HostInv)
  <1>1. LivesInit => ClientInv /\ HostInv
    BY ClientInit, HostInit DEF LivesInit
  <1>2. ClientInv /\ HostInv /\ [LivesNext]_allVars => (ClientInv /\ HostInv)'
    BY ClientNext, HostNext DEF LivesNext, allVars, clientVars, hostVars
  <1> QED BY <1>1, <1>2, PTL DEF LivesSpec

\* Whatever the clients do, however many there are, and whenever the object
\* is destroyed: only the listed threads use only the listed members outside
\* their lives.
THEOREM UsesAreAllKnown == LivesSpec => []UsesAreKnown
  <1>1. ClientInv /\ HostInv => UsesAreKnown
    BY DEF ClientInv, ClientUses, HostInv, HostUses, UsesAreKnown
  <1> QED BY <1>1, ObjectsInvariant, PTL

\* When a destructor has returned, a thread is left only of a session or a
\* connection that was begun outside the life of what should hold it.
THEOREM DestructorsLeaveNone == LivesSpec => []NoThreadOutlives
  <1>1. ClientInv /\ HostInv => NoThreadOutlives
    BY ClientNoneOutlives, HostNoneOutlives DEF NoThreadOutlives
  <1> QED BY <1>1, ObjectsInvariant, PTL

=============================================================================
