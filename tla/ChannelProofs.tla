---------------------------- MODULE ChannelProofs ----------------------------
(***************************************************************************)
(* Theorems about Channel, for every capacity, every set of packets and    *)
(* every choice of what the surroundings may do: its locks and waits       *)
(* first, then that it is a bounded FIFO - what read_head() points at is   *)
(* the oldest unread packet, whole.                                        *)
(***************************************************************************)
EXTENDS Channel, SequenceTheorems, TLAPS

\* A mutex that can no longer be locked cleanly has lost one of its two
\* threads: the code never calls pthread_mutex_consistent, so neither side
\* may see EOWNERDEAD or ENOTRECOVERABLE while both threads work.
UnhealthyMeansGone == health # "ok" => wpc = "gone" \/ rpc = "gone"

\* Who is past the mutex holds it, or was let through by a wait that found it
\* lost, and then the other thread, which made it so, is gone.
LockDiscipline ==
  /\ owner = "w" => WriterCritical
  /\ owner = "r" => ReaderCritical
  /\ WriterCritical => owner = "w" \/ (health = "lost" /\ rpc = "gone")
  /\ ReaderCritical => owner = "r" \/ (health = "lost" /\ wpc = "gone")

\* The inductive invariant behind MutualExclusion.
LockInv == TypeOK /\ LockDiscipline /\ UnhealthyMeansGone

\* What a waiting or woken writer can count on when the reader takes
\* everything it finds: it is woken to an empty buffer, to its own stop, or by
\* the last broadcast after the reader has gone.
Room ==
  /\ wpc = "ready" /\ ~wstop => CommitFits(ring, Size[inhand])
  /\ wpc = "rewake" /\ ~wstop =>
       ring.size = 0 \/ (rpc = "gone" /\ FreeSize(ring) = lastFree)
  /\ wpc = "wsleep" =>
       \/ FreeSize(ring) = lastFree \/ ring.size = 0
       \/ rpc \in {"process", "handler"} \/ rproc = "killed"
  /\ rpc = "notify" => ring.size = 0
  /\ rproc = "killed" => rpc = "gone"
  /\ wproc = "killed" => wpc = "gone"

RoomInv == LockInv /\ Room

-----------------------------------------------------------------------------
(* The ring                                                                *)

\* An offset advanced modulo the capacity is an offset.
LEMMA Advance == \A o \in Offsets, n \in Nat : (o + n) % Capacity \in Offsets
  BY CapacityAssumption DEF Offsets

\* Commit and Consume keep the counters within their range, if what they are
\* given passes the assertions of ringbuffer.hpp.
LEMMA RingCommit ==
  ASSUME NEW r \in Ring, NEW n \in Nat, CommitFits(r, n)
  PROVE  Commit(r, n) \in Ring /\ Commit(r, n).size = r.size + n
  <1>1. r.size + n \in 0 .. Capacity
    BY CapacityAssumption DEF Ring, CommitFits
  <1>2. r.head \in Offsets /\ (r.tail + n) % Capacity \in Offsets
    BY Advance DEF Ring
  <1> QED BY <1>1, <1>2 DEF Ring, Commit

LEMMA RingConsume ==
  ASSUME NEW r \in Ring, NEW n \in Nat, ConsumeFits(r, n)
  PROVE  Consume(r, n) \in Ring /\ Consume(r, n).size = r.size - n
  <1>1. r.size - n \in 0 .. Capacity
    BY CapacityAssumption DEF Ring, ConsumeFits
  <1>2. r.tail \in Offsets /\ (r.head + n) % Capacity \in Offsets
    BY Advance DEF Ring
  <1> QED BY <1>1, <1>2 DEF Ring, Consume

LEMMA RingFree == \A r \in Ring : FreeSize(r) \in 0 .. Capacity
  BY CapacityAssumption DEF Ring, FreeSize

-----------------------------------------------------------------------------
(* Type correctness                                                        *)

LEMMA TypeInit == Init => TypeOK
  BY CapacityAssumption, EmptySeq DEF Init, TypeOK, WriterStates, ReaderStates,
     ProcStates, Ring, Offsets, EmptyRing

\* Every action keeps every variable within its type.
LEMMA TypeNext == TypeOK /\ [Next]_vars => TypeOK'
  <1> SUFFICES ASSUME TypeOK, [Next]_vars PROVE TypeOK'
    OBVIOUS
  <1> USE DEF TypeOK, WriterStates, ReaderStates, ProcStates, sendVars,
              sharedVars
  <1>1. ASSUME NEW p \in Packets, Send(p) PROVE TypeOK'
    BY <1>1 DEF Send
  <1>2. ASSUME NEW p \in Packets, Expire(p) PROVE TypeOK'
    BY <1>2 DEF Expire
  <1>3. CASE WriterSeesStop
    BY <1>3 DEF WriterSeesStop
  <1>4. CASE WriterFindsEmpty
    BY <1>4 DEF WriterFindsEmpty
  <1>5. CASE WriterSleeps
    BY <1>5 DEF WriterSleeps
  <1>6. CASE WriterPops
    BY <1>6, HeadTailProperties, NoneAssumption DEF WriterPops
  <1>7. CASE WriterLocks
    BY <1>7, RingFree DEF WriterLocks
  <1>8. CASE WriterLockFails
    BY <1>8 DEF WriterLockFails, LockFails
  <1>9. CASE WriterResumes
    BY <1>9 DEF WriterResumes, Reacquire
  <1>10. CASE WriterGivesUp
    BY <1>10 DEF WriterGivesUp
  <1>11. CASE WriterStopsReady
    BY <1>11 DEF WriterStopsReady, Release
  <1>12. CASE WriterCommits
    <2>1. inhand \in Packets /\ Size[inhand] \in Nat
      BY <1>12, SizeAssumption DEF WriterCommits
    <2>2. ring' \in Ring
      BY <1>12, <2>1, RingCommit DEF WriterCommits
    <2>3. DOMAIN mem' = 0 .. 2 * Capacity - 1
      BY <1>12 DEF WriterCommits, CopyTo
    <2>4. committed' \in Seq(Packets)
      BY <1>12, <2>1 DEF WriterCommits
    <2> QED BY <1>12, <2>2, <2>3, <2>4 DEF WriterCommits
  <1>13. CASE WriterAborts
    <2>1. DOMAIN mem' = 0 .. 2 * Capacity - 1
      BY <1>13 DEF WriterAborts, CopyTo
    <2> QED BY <1>13, <2>1 DEF WriterAborts, Abandon
  <1>14. CASE WriterNotifies
    BY <1>14 DEF WriterNotifies, SignalReader
  <1>15. CASE WriterUnlocks
    BY <1>15 DEF WriterUnlocks, Release
  <1>16. ASSUME NEW p \in Packets, ReaderTakes(p) PROVE TypeOK'
    <2>1. ring' \in Ring
      <3>1. PICK k \in 0 .. ring.size :
              /\ ConsumeFits(ring, k + Size[p])
              /\ ring' = Consume(ring, k + Size[p])
        BY <1>16 DEF ReaderTakes
      <3>2. k + Size[p] \in Nat
        BY SizeAssumption DEF Ring
      <3> QED BY <3>1, <3>2, RingConsume
    <2>2. consumed' \in Seq(Packets)
      BY <1>16 DEF ReaderTakes
    <2> QED BY <1>16, <2>1, <2>2 DEF ReaderTakes
  <1>17. CASE ReaderTop
    BY <1>17 DEF ReaderTop
  <1>18. CASE ReaderLocks
    BY <1>18 DEF ReaderLocks
  <1>19. CASE ReaderLockFails
    BY <1>19 DEF ReaderLockFails, LockFails
  <1>20. CASE ReaderResumes
    BY <1>20 DEF ReaderResumes, Reacquire
  <1>21. CASE ReaderGivesUp
    BY <1>21 DEF ReaderGivesUp
  <1>22. CASE ReaderDrained
    <2>1. ring' \in Ring
      <3>1. PICK k \in 0 .. ring.size : ring' = Consume(ring, k)
        BY <1>22 DEF ReaderDrained
      <3>2. k \in Nat /\ ConsumeFits(ring, k)
        BY DEF Ring, ConsumeFits
      <3> QED BY <3>1, <3>2, RingConsume
    <2> QED BY <1>22, <2>1 DEF ReaderDrained
  <1>23. CASE ReaderNotifies
    BY <1>23 DEF ReaderNotifies, SignalWriter
  <1>24. CASE ReaderUnlocks
    BY <1>24 DEF ReaderUnlocks, Release
  <1>25. CASE StopWNotify
    BY <1>25 DEF StopWNotify
  <1>26. CASE StopWSignal
    BY <1>26 DEF StopWSignal, SignalWriter
  <1>27. CASE StopWJoin
    BY <1>27 DEF StopWJoin, SignalReader
  <1>28. CASE StopRSignal
    BY <1>28 DEF StopRSignal, SignalReader
  <1>29. CASE StopRJoin
    BY <1>29 DEF StopRJoin, SignalWriter
  <1>30. CASE StopWFlag
    BY <1>30 DEF StopWFlag
  <1>31. CASE StopRFlag
    BY <1>31 DEF StopRFlag
  <1>32. CASE KillW
    BY <1>32 DEF KillW, Abandon
  <1>33. CASE KillR
    BY <1>33 DEF KillR, Abandon
  <1>34. CASE SpuriousWakeup
    BY <1>34 DEF SpuriousWakeup
  <1>35. CASE HandlerReturns
    BY <1>35 DEF HandlerReturns
  <1>36. CASE UNCHANGED vars
    BY <1>36 DEF vars
  <1> QED
    BY <1>1, <1>2, <1>3, <1>4, <1>5, <1>6, <1>7, <1>8, <1>9, <1>10, <1>11,
       <1>12, <1>13, <1>14, <1>15, <1>16, <1>17, <1>18, <1>19, <1>20,
       <1>21, <1>22, <1>23, <1>24, <1>25, <1>26, <1>27, <1>28, <1>29,
       <1>30, <1>31, <1>32, <1>33, <1>34, <1>35, <1>36
    DEF Next, WriterStep, ReaderStep, StopStep

-----------------------------------------------------------------------------
(* The mutex                                                               *)

LEMMA LockInit == Init => LockDiscipline /\ UnhealthyMeansGone
  BY DEF Init, LockDiscipline, UnhealthyMeansGone, WriterCritical,
     ReaderCritical

LEMMA LockNext ==
  LockInv /\ [Next]_vars => (LockDiscipline /\ UnhealthyMeansGone)'
  <1> SUFFICES ASSUME LockInv, [Next]_vars
               PROVE  (LockDiscipline /\ UnhealthyMeansGone)'
    OBVIOUS
  <1> USE DEF LockInv, TypeOK, LockDiscipline, UnhealthyMeansGone,
              WriterCritical, ReaderCritical, WriterStates, ReaderStates
  <1>1. ASSUME NEW p \in Packets, Send(p)
        PROVE  (LockDiscipline /\ UnhealthyMeansGone)'
    BY <1>1 DEF Send
  <1>2. ASSUME NEW p \in Packets, Expire(p)
        PROVE  (LockDiscipline /\ UnhealthyMeansGone)'
    BY <1>2 DEF Expire
  <1>3. CASE WriterSeesStop
    BY <1>3 DEF WriterSeesStop
  <1>4. CASE WriterFindsEmpty
    BY <1>4 DEF WriterFindsEmpty
  <1>5. CASE WriterSleeps
    BY <1>5 DEF WriterSleeps
  <1>6. CASE WriterPops
    BY <1>6 DEF WriterPops
  <1>7. CASE WriterLocks
    BY <1>7 DEF WriterLocks
  <1>8. CASE WriterLockFails
    BY <1>8 DEF WriterLockFails, LockFails
  <1>9. CASE WriterResumes
    BY <1>9 DEF WriterResumes, Reacquire
  <1>10. CASE WriterGivesUp
    BY <1>10 DEF WriterGivesUp
  <1>11. CASE WriterStopsReady
    BY <1>11 DEF WriterStopsReady, Release
  <1>12. CASE WriterCommits
    BY <1>12 DEF WriterCommits
  <1>13. CASE WriterAborts
    BY <1>13 DEF WriterAborts, Abandon
  <1>14. CASE WriterNotifies
    BY <1>14 DEF WriterNotifies, SignalReader
  <1>15. CASE WriterUnlocks
    BY <1>15 DEF WriterUnlocks, Release
  <1>16. ASSUME NEW p \in Packets, ReaderTakes(p)
        PROVE  (LockDiscipline /\ UnhealthyMeansGone)'
    BY <1>16 DEF ReaderTakes
  <1>17. CASE ReaderTop
    BY <1>17 DEF ReaderTop
  <1>18. CASE ReaderLocks
    BY <1>18 DEF ReaderLocks
  <1>19. CASE ReaderLockFails
    BY <1>19 DEF ReaderLockFails, LockFails
  <1>20. CASE ReaderResumes
    BY <1>20 DEF ReaderResumes, Reacquire
  <1>21. CASE ReaderGivesUp
    BY <1>21 DEF ReaderGivesUp
  <1>22. CASE ReaderDrained
    BY <1>22 DEF ReaderDrained
  <1>23. CASE ReaderNotifies
    BY <1>23 DEF ReaderNotifies, SignalWriter
  <1>24. CASE ReaderUnlocks
    BY <1>24 DEF ReaderUnlocks, Release
  <1>25. CASE StopWNotify
    BY <1>25 DEF StopWNotify
  <1>26. CASE StopWSignal
    BY <1>26 DEF StopWSignal, SignalWriter
  <1>27. CASE StopWJoin
    BY <1>27 DEF StopWJoin, SignalReader
  <1>28. CASE StopRSignal
    BY <1>28 DEF StopRSignal, SignalReader
  <1>29. CASE StopRJoin
    BY <1>29 DEF StopRJoin, SignalWriter
  <1>30. CASE StopWFlag
    BY <1>30 DEF StopWFlag
  <1>31. CASE StopRFlag
    BY <1>31 DEF StopRFlag
  <1>32. CASE KillW
    BY <1>32 DEF KillW, Abandon
  <1>33. CASE KillR
    BY <1>33 DEF KillR, Abandon
  <1>34. CASE SpuriousWakeup
    BY <1>34 DEF SpuriousWakeup
  <1>35. CASE HandlerReturns
    BY <1>35 DEF HandlerReturns
  <1>36. CASE UNCHANGED vars
    BY <1>36 DEF vars
  <1> QED
    BY <1>1, <1>2, <1>3, <1>4, <1>5, <1>6, <1>7, <1>8, <1>9, <1>10, <1>11,
       <1>12, <1>13, <1>14, <1>15, <1>16, <1>17, <1>18, <1>19, <1>20,
       <1>21, <1>22, <1>23, <1>24, <1>25, <1>26, <1>27, <1>28, <1>29,
       <1>30, <1>31, <1>32, <1>33, <1>34, <1>35, <1>36
    DEF Next, WriterStep, ReaderStep, StopStep

-----------------------------------------------------------------------------
(* Who sleeps on a condition variable                                      *)

\* Both are inductive as they stand: whoever changes the ring under a sleeper
\* comes to its signal next, or ends.
Sleepers == SleepingReaderHasNothing /\ SleepingWriterLacksRoom

LEMMA SleepersInit == Init => Sleepers
  BY DEF Init, Sleepers, SleepingReaderHasNothing, SleepingWriterLacksRoom

LEMMA SleepersNext == Sleepers /\ [Next]_vars => Sleepers'
  <1> SUFFICES ASSUME Sleepers, [Next]_vars
               PROVE  Sleepers'
    OBVIOUS
  <1> USE DEF Sleepers, SleepingReaderHasNothing, SleepingWriterLacksRoom,
              FreeSize, sharedVars, sendVars
  <1>1. ASSUME NEW p \in Packets, Send(p) PROVE Sleepers'
    BY <1>1 DEF Send
  <1>2. ASSUME NEW p \in Packets, Expire(p) PROVE Sleepers'
    BY <1>2 DEF Expire
  <1>3. ASSUME NEW p \in Packets, ReaderTakes(p) PROVE Sleepers'
    BY <1>3 DEF ReaderTakes
  <1>4. CASE WriterSeesStop
    BY <1>4 DEF WriterSeesStop
  <1>5. CASE WriterFindsEmpty
    BY <1>5 DEF WriterFindsEmpty
  <1>6. CASE WriterSleeps
    BY <1>6 DEF WriterSleeps
  <1>7. CASE WriterPops
    BY <1>7 DEF WriterPops
  <1>8. CASE WriterLocks
    BY <1>8 DEF WriterLocks
  <1>9. CASE WriterLockFails
    BY <1>9 DEF WriterLockFails
  <1>10. CASE WriterResumes
    BY <1>10 DEF WriterResumes
  <1>11. CASE WriterGivesUp
    BY <1>11 DEF WriterGivesUp
  <1>12. CASE WriterStopsReady
    BY <1>12 DEF WriterStopsReady
  <1>13. CASE WriterCommits
    BY <1>13 DEF WriterCommits
  <1>14. CASE WriterAborts
    BY <1>14 DEF WriterAborts
  <1>15. CASE WriterNotifies
    BY <1>15 DEF WriterNotifies, SignalReader
  <1>16. CASE WriterUnlocks
    BY <1>16 DEF WriterUnlocks
  <1>17. CASE ReaderTop
    BY <1>17 DEF ReaderTop
  <1>18. CASE ReaderLocks
    BY <1>18 DEF ReaderLocks
  <1>19. CASE ReaderLockFails
    BY <1>19 DEF ReaderLockFails
  <1>20. CASE ReaderResumes
    BY <1>20 DEF ReaderResumes
  <1>21. CASE ReaderGivesUp
    BY <1>21 DEF ReaderGivesUp
  <1>22. CASE ReaderDrained
    BY <1>22 DEF ReaderDrained
  <1>23. CASE ReaderNotifies
    BY <1>23 DEF ReaderNotifies, SignalWriter
  <1>24. CASE ReaderUnlocks
    BY <1>24 DEF ReaderUnlocks
  <1>25. CASE StopWNotify
    BY <1>25 DEF StopWNotify
  <1>26. CASE StopWSignal
    BY <1>26 DEF StopWSignal, SignalWriter
  <1>27. CASE StopWJoin
    BY <1>27 DEF StopWJoin, SignalReader
  <1>28. CASE StopRSignal
    BY <1>28 DEF StopRSignal, SignalReader
  <1>29. CASE StopRJoin
    BY <1>29 DEF StopRJoin, SignalWriter
  <1>30. CASE StopWFlag
    BY <1>30 DEF StopWFlag
  <1>31. CASE StopRFlag
    BY <1>31 DEF StopRFlag
  <1>32. CASE KillW
    BY <1>32 DEF KillW
  <1>33. CASE KillR
    BY <1>33 DEF KillR
  <1>34. CASE SpuriousWakeup
    BY <1>34 DEF SpuriousWakeup
  <1>35. CASE HandlerReturns
    BY <1>35 DEF HandlerReturns
  <1>36. CASE UNCHANGED vars
    BY <1>36 DEF vars
  <1> QED
    BY <1>1, <1>2, <1>3, <1>4, <1>5, <1>6, <1>7, <1>8, <1>9, <1>10, <1>11,
       <1>12, <1>13, <1>14, <1>15, <1>16, <1>17, <1>18, <1>19, <1>20,
       <1>21, <1>22, <1>23, <1>24, <1>25, <1>26, <1>27, <1>28, <1>29,
       <1>30, <1>31, <1>32, <1>33, <1>34, <1>35, <1>36
    DEF Next, WriterStep, ReaderStep, StopStep

-----------------------------------------------------------------------------
(* Theorems                                                                *)

\* The invariant of the mutex, for every instance of the channel.
THEOREM LockInvariant == Spec => []LockInv
  <1>1. Init => LockInv
    BY TypeInit, LockInit DEF LockInv
  <1>2. LockInv /\ [Next]_vars => LockInv'
    BY TypeNext, LockNext DEF LockInv
  <1> QED BY <1>1, <1>2, PTL DEF Spec

\* Every variable of a channel keeps its type: the counters of the ring stay
\* in range although nothing but two assertions guards them.
THEOREM TypeCorrect == Spec => []TypeOK
  <1>1. LockInv => TypeOK
    BY DEF LockInv
  <1> QED BY <1>1, LockInvariant, PTL

\* The writer and the reader of a buffer are never both past the robust mutex,
\* whatever is killed, stopped or woken.
THEOREM MutexIsExclusive == Spec => []MutualExclusion
  <1>1. LockInv => MutualExclusion
    BY DEF LockInv, TypeOK, LockDiscipline, MutualExclusion, WriterCritical,
       ReaderCritical
  <1> QED BY <1>1, LockInvariant, PTL

\* No wakeup of the reader is lost: it sleeps on an empty buffer,
\* or a writer that has committed is about to signal, or ended before it could.
THEOREM NoDataIsSleptOn == Spec => []SleepingReaderHasNothing
  <1>1. Sleepers => SleepingReaderHasNothing
    BY DEF Sleepers
  <1> QED BY <1>1, SleepersInit, SleepersNext, PTL DEF Spec

\* No wakeup of the writer is lost: it sleeps for want of room, or a reader
\* that has made room is about to signal, or ended before it could.
THEOREM NoRoomIsSleptOn == Spec => []SleepingWriterLacksRoom
  <1>1. Sleepers => SleepingWriterLacksRoom
    BY DEF Sleepers
  <1> QED BY <1>1, SleepersInit, SleepersNext, PTL DEF Spec

-----------------------------------------------------------------------------
(* A bounded FIFO                                                          *)

(* A position counts the cells from the first that was ever written; the   *)
(* packet that is i-th in coms begins at pos[i], and its offset is that    *)
(* modulo the capacity.  Of coms, cons were read; r and m are the buffer.  *)
Layout(pos, coms, cons, r, m) ==
  /\ pos \in [1 .. Len(coms) + 1 -> Nat]
  /\ \A i \in 1 .. Len(coms) : pos[i + 1] = pos[i] + Size[coms[i]]
  /\ \A i, j \in 1 .. Len(coms) + 1 : i <= j => pos[i] <= pos[j]
  /\ Len(cons) <= Len(coms)
  /\ r.head = pos[Len(cons) + 1] % Capacity
  /\ r.tail = pos[Len(coms) + 1] % Capacity
  /\ r.size = pos[Len(coms) + 1] - pos[Len(cons) + 1]
  /\ \A i \in Len(cons) + 1 .. Len(coms) :
       IntactAt(m, pos[i] % Capacity, coms[i])

FifoInv ==
  TypeOK /\ \E pos : Layout(pos, committed, consumed, ring, mem)

-----------------------------------------------------------------------------
(* Positions modulo the capacity                                           *)

\* Less than one turn further, the offset moves on or comes round once.
LEMMA Wrap ==
  ASSUME NEW a \in Nat, NEW d \in 0 .. Capacity
  PROVE  (a + d) % Capacity = IF (a % Capacity) + d < Capacity
                              THEN (a % Capacity) + d
                              ELSE (a % Capacity) + d - Capacity
  <1> DEFINE q == a \div Capacity
             s == (a + d) \div Capacity
             r == a % Capacity
             u == (a + d) % Capacity
  <1>1. /\ q \in Int /\ r \in 0 .. Capacity - 1 /\ a = Capacity * q + r
        /\ s \in Int /\ u \in 0 .. Capacity - 1 /\ a + d = Capacity * s + u
    BY CapacityAssumption
  <1> HIDE DEF q, s, r, u
  <1>2. Capacity * (s - q) = r + d - u
    BY <1>1, CapacityAssumption
  <1>3. s - q = 0 \/ s - q = 1
    <2>1. s - q >= 2 => Capacity * (s - q) >= 2 * Capacity
      BY <1>1, CapacityAssumption
    <2>2. s - q <= -1 => Capacity * (s - q) <= -Capacity
      BY <1>1, CapacityAssumption
    <2>3. r + d - u < 2 * Capacity /\ r + d - u > -Capacity
      BY <1>1, CapacityAssumption
    <2> QED  BY <1>1, <1>2, <2>1, <2>2, <2>3, CapacityAssumption
  <1>4. u = r + d \/ u = r + d - Capacity
    BY <1>1, <1>2, <1>3, CapacityAssumption
  <1>5. u = IF r + d < Capacity THEN r + d ELSE r + d - Capacity
    BY <1>1, <1>4, CapacityAssumption
  <1> QED  BY <1>5 DEF u, r

\* An offset may be advanced instead of a position.
LEMMA OffsetAdvance ==
  ASSUME NEW a \in Nat, NEW d \in 0 .. Capacity
  PROVE  ((a % Capacity) + d) % Capacity = (a + d) % Capacity
  <1>1. a % Capacity \in 0 .. Capacity - 1
    BY CapacityAssumption
  <1>2. a % Capacity \in Nat /\ (a % Capacity) % Capacity = a % Capacity
    BY <1>1, CapacityAssumption
  <1> DEFINE r == a % Capacity
  <1>3. (r + d) % Capacity = IF (r % Capacity) + d < Capacity
                             THEN (r % Capacity) + d
                             ELSE (r % Capacity) + d - Capacity
    BY <1>2, Wrap
  <1> QED  BY <1>2, <1>3, Wrap

\* Two packets that share no position and are within one turn of each other
\* share no cell, although neither wraps around the end of the buffer.
LEMMA Apart ==
  ASSUME NEW a \in Nat, NEW b \in Nat, NEW m \in Nat \ {0}, NEW n \in Nat \ {0},
         a + m <= b, b + n <= a + Capacity
  PROVE  \/ (a % Capacity) + m <= b % Capacity
         \/ (b % Capacity) + n <= a % Capacity
  <1>1. b - a \in 0 .. Capacity /\ b = a + (b - a)
    BY CapacityAssumption
  <1>2. a % Capacity \in 0 .. Capacity - 1
    BY CapacityAssumption
  <1>3. b % Capacity = IF (a % Capacity) + (b - a) < Capacity
                       THEN (a % Capacity) + (b - a)
                       ELSE (a % Capacity) + (b - a) - Capacity
    BY <1>1, Wrap
  <1> QED  BY <1>1, <1>2, <1>3, CapacityAssumption

\* What memcpy leaves in a cell.
LEMMA Copied ==
  ASSUME NEW m, NEW o, NEW p, NEW c \in DOMAIN m
  PROVE  CopyTo(m, o, p)[c] =
           IF c \in o .. o + Size[p] - 1 THEN <<p, c - o>> ELSE m[c]
  BY DEF CopyTo

-----------------------------------------------------------------------------

LEMMA FifoInit == Init => FifoInv
  <1> SUFFICES ASSUME Init
               PROVE  \E pos : Layout(pos, committed, consumed, ring, mem)
    BY TypeInit DEF FifoInv
  <1> DEFINE zero == [i \in 1 .. 1 |-> 0]
  <1>1. 0 % Capacity = 0
    BY CapacityAssumption
  <1>2. Len(committed) = 0 /\ Len(consumed) = 0
    BY DEF Init
  <1>3. Layout(zero, committed, consumed, ring, mem)
    BY <1>1, <1>2 DEF Layout, Init, EmptyRing
  <1> QED  BY <1>3

\* memcpy and commit: the new packet is behind the others and overwrites no
\* cell of one that is still unread.
LEMMA CommitKeeps ==
  ASSUME TypeOK, NEW pos, Layout(pos, committed, consumed, ring, mem),
         WriterCommits
  PROVE  \E new : Layout(new, committed', consumed', ring', mem')
  <1> DEFINE n == Len(committed)
             k == Len(consumed)
             s == Size[inhand]
             T == pos[n + 1]
             H == pos[k + 1]
             new == [i \in 1 .. n + 2 |-> IF i = n + 2 THEN T + s ELSE pos[i]]
  <1>1. /\ CommitFits(ring, s) /\ mem' = CopyTo(mem, ring.tail, inhand)
        /\ ring' = Commit(ring, s) /\ committed' = Append(committed, inhand)
        /\ consumed' = consumed /\ inhand \in Packets
    BY DEF WriterCommits, TypeOK
  <1>2. s \in Nat \ {0} /\ n \in Nat /\ k \in Nat /\ k <= n
    BY <1>1, SizeAssumption, LenProperties DEF TypeOK, Layout
  <1>3. /\ Len(committed') = n + 1 /\ Len(consumed') = k
        /\ committed'[n + 1] = inhand
        /\ \A i \in 1 .. n : committed'[i] = committed[i]
    BY <1>1, <1>2, AppendProperties DEF TypeOK
  <1>4. /\ pos \in [1 .. n + 1 -> Nat]
        /\ \A i \in 1 .. n : pos[i + 1] = pos[i] + Size[committed[i]]
        /\ \A i, j \in 1 .. n + 1 : i <= j => pos[i] <= pos[j]
        /\ ring.head = H % Capacity /\ ring.tail = T % Capacity
        /\ ring.size = T - H
        /\ \A i \in k + 1 .. n :
             IntactAt(mem, pos[i] % Capacity, committed[i])
    BY DEF Layout
  <1>5. T \in Nat /\ H \in Nat /\ H <= T
    BY <1>2, <1>4
  <1>6. T + s <= H + Capacity /\ s <= Capacity
    BY <1>1, <1>2, <1>4, <1>5, CapacityAssumption DEF CommitFits
  <1>7. /\ ring'.head = H % Capacity
        /\ ring'.tail = ((T % Capacity) + s) % Capacity
        /\ ring'.size = T + s - H
    BY <1>1, <1>2, <1>4, <1>5 DEF Commit
  <1>8. DOMAIN mem = 0 .. 2 * Capacity - 1 /\ DOMAIN mem' = DOMAIN mem
    BY <1>1 DEF TypeOK, CopyTo
  <1>9. \A i \in 1 .. n + 1 : new[i] = pos[i]
    BY <1>2
  <1>10. new \in [1 .. n + 2 -> Nat] /\ new[n + 2] = T + s
    BY <1>2, <1>4, <1>5
  <1> HIDE DEF n, k, s, T, H, new
  <1>11. ring'.tail = (T + s) % Capacity
    <2>1. s \in 0 .. Capacity
      BY <1>2, <1>6, CapacityAssumption
    <2>2. ((T % Capacity) + s) % Capacity = (T + s) % Capacity
      BY <1>5, <2>1, OffsetAdvance
    <2> QED  BY <1>7, <2>2
  <1>12. \A i \in 1 .. n + 1 : new[i + 1] = new[i] + Size[committed'[i]]
    <2> SUFFICES ASSUME NEW i \in 1 .. n + 1
                 PROVE  new[i + 1] = new[i] + Size[committed'[i]]
      OBVIOUS
    <2>1. CASE i = n + 1
      BY <1>2, <1>3, <1>9, <1>10, <2>1 DEF T, s
    <2>2. CASE i \in 1 .. n
      BY <1>2, <1>3, <1>4, <1>9, <2>2
    <2> QED  BY <1>2, <2>1, <2>2
  <1>13. \A i, j \in 1 .. n + 2 : i <= j => new[i] <= new[j]
    <2> SUFFICES ASSUME NEW i \in 1 .. n + 2, NEW j \in 1 .. n + 2, i <= j
                 PROVE  new[i] <= new[j]
      OBVIOUS
    <2>1. CASE j < n + 2
      <3>1. i \in 1 .. n + 1 /\ j \in 1 .. n + 1
        BY <1>2, <2>1
      <3>2. pos[i] <= pos[j]
        BY <1>4, <3>1
      <3> QED  BY <1>9, <3>1, <3>2
    <2>2. CASE j = n + 2 /\ i = n + 2
      BY <1>2, <1>5, <1>10, <2>2
    <2>3. CASE j = n + 2 /\ i < n + 2
      <3>1. i \in 1 .. n + 1 /\ n + 1 \in 1 .. n + 1 /\ i <= n + 1
        BY <1>2, <2>3
      <3>2. pos[i] <= T /\ pos[i] \in Nat
        BY <1>4, <3>1 DEF T
      <3> QED  BY <1>2, <1>5, <1>9, <1>10, <2>3, <3>1, <3>2
    <2> QED  BY <1>2, <2>1, <2>2, <2>3
  <1>14. IntactAt(mem', T % Capacity, inhand)
    <2>1. T % Capacity \in 0 .. Capacity - 1
      BY <1>5, CapacityAssumption
    <2> SUFFICES ASSUME NEW j \in 0 .. s - 1
                 PROVE  /\ (T % Capacity) + j \in DOMAIN mem'
                        /\ mem'[(T % Capacity) + j] = <<inhand, j>>
      BY DEF IntactAt, s
    <2> DEFINE o == T % Capacity
               c == o + j
    <2>2. o \in 0 .. Capacity - 1 /\ o = ring.tail
      BY <1>4, <2>1
    <2> HIDE DEF o
    <2>3. c \in DOMAIN mem
      BY <1>2, <1>6, <1>8, <2>2, CapacityAssumption
    <2>4. c \in o .. o + s - 1 /\ c - o = j
      BY <1>2, <2>2, CapacityAssumption
    <2> HIDE DEF c
    <2>5. mem'[c] = <<inhand, j>>
      BY <1>1, <2>2, <2>3, <2>4, Copied, ZenonT(60) DEF s
    <2> QED  BY <1>8, <2>3, <2>5 DEF c, o
  <1>15. ASSUME NEW i \in k + 1 .. n
         PROVE  IntactAt(mem', pos[i] % Capacity, committed[i])
    <2> DEFINE m == Size[committed[i]]
    <2>1. i \in 1 .. n /\ committed[i] \in Packets
      BY <1>2, ElementOfSeq DEF TypeOK, n
    <2>2. m \in Nat \ {0} /\ pos[i + 1] = pos[i] + m /\ pos[i] \in Nat
      BY <1>2, <1>4, <2>1, SizeAssumption
    <2>3. pos[i + 1] <= T /\ H <= pos[i]
      BY <1>2, <1>4, <2>1 DEF T, H
    <2> DEFINE o == pos[i] % Capacity
    <2> HIDE DEF m
    <2>4. pos[i] + m <= T /\ T + s <= pos[i] + Capacity
      BY <1>2, <1>5, <1>6, <2>2, <2>3, CapacityAssumption
    <2>5. o + m <= T % Capacity \/ (T % Capacity) + s <= o
      BY <1>2, <1>5, <2>2, <2>4, Apart
    <2>6. o \in Int /\ T % Capacity \in Int
      BY <1>5, <2>2, CapacityAssumption
    <2> SUFFICES ASSUME NEW j \in 0 .. m - 1
                 PROVE  /\ o + j \in DOMAIN mem'
                        /\ mem'[o + j] = <<committed[i], j>>
      BY DEF IntactAt, m
    <2>7. o + j \in DOMAIN mem /\ mem[o + j] = <<committed[i], j>>
      BY <1>4 DEF IntactAt, m
    <2>8. o + j \notin T % Capacity .. (T % Capacity) + s - 1
      BY <1>2, <2>2, <2>5, <2>6
    <2> DEFINE c == o + j
    <2> HIDE DEF c, o
    <2>9. /\ c \in DOMAIN mem /\ mem[c] = <<committed[i], j>>
          /\ c \notin T % Capacity .. (T % Capacity) + s - 1
      BY <2>7, <2>8 DEF c
    <2>10. CopyTo(mem, ring.tail, inhand)[c] =
             IF c \in ring.tail .. ring.tail + Size[inhand] - 1
               THEN <<inhand, c - ring.tail>> ELSE mem[c]
      BY <2>9, Copied
    <2>11. c \notin ring.tail .. ring.tail + Size[inhand] - 1
      BY <1>4, <2>9 DEF s
    <2>12. mem'[c] = mem[c]
      BY <1>1, <2>10, <2>11
    <2> QED  BY <1>8, <2>9, <2>12 DEF c
  <1>16. \A i \in k + 1 .. n + 1 :
           IntactAt(mem', new[i] % Capacity, committed'[i])
    <2> SUFFICES ASSUME NEW i \in k + 1 .. n + 1
                 PROVE  IntactAt(mem', new[i] % Capacity, committed'[i])
      OBVIOUS
    <2>1. CASE i = n + 1
      BY <1>2, <1>3, <1>9, <1>14, <2>1 DEF T
    <2>2. CASE i \in k + 1 .. n
      <3>1. i \in 1 .. n
        BY <1>2, <2>2
      <3> QED  BY <1>3, <1>9, <1>15, <2>2, <3>1
    <2> QED  BY <1>2, <2>1, <2>2
  <1>17. new[n + 2] = T + s /\ new[k + 1] = H
    BY <1>2, <1>9, <1>10 DEF H
  <1>18. (n + 1) + 1 = n + 2
    BY <1>2
  <1>19. Layout(new, committed', consumed', ring', mem')
    <2>1. /\ new \in [1 .. Len(committed') + 1 -> Nat]
          /\ Len(consumed') <= Len(committed')
      BY <1>2, <1>3, <1>10, <1>18
    <2>2. /\ \A i \in 1 .. Len(committed') :
               new[i + 1] = new[i] + Size[committed'[i]]
          /\ \A i, j \in 1 .. Len(committed') + 1 : i <= j => new[i] <= new[j]
      BY <1>3, <1>12, <1>13, <1>18
    <2>3. /\ ring'.head = new[Len(consumed') + 1] % Capacity
          /\ ring'.tail = new[Len(committed') + 1] % Capacity
          /\ ring'.size = new[Len(committed') + 1] - new[Len(consumed') + 1]
      <3>1. Len(committed') + 1 = n + 2 /\ Len(consumed') + 1 = k + 1
        BY <1>3, <1>18
      <3>2. /\ new[Len(committed') + 1] = T + s
            /\ new[Len(consumed') + 1] = H
        BY <1>17, <3>1
      <3> QED  BY <1>2, <1>5, <1>7, <1>11, <3>2
    <2>4. \A i \in Len(consumed') + 1 .. Len(committed') :
            IntactAt(mem', new[i] % Capacity, committed'[i])
      BY <1>3, <1>16
    <2> QED  BY <2>1, <2>2, <2>3, <2>4 DEF Layout
  <1> QED  BY <1>19

-----------------------------------------------------------------------------

\* What read_head() points at, unless the buffer is empty, is the header of
\* the oldest unread packet, and all of that packet is there.
LEMMA HeadIsHeader ==
  ASSUME TypeOK, NEW pos, Layout(pos, committed, consumed, ring, mem),
         ring.size # 0
  PROVE  LET q == committed[Len(consumed) + 1]
         IN /\ Len(consumed) + 1 \in 1 .. Len(committed)
            /\ q \in Packets /\ mem[ring.head] = <<q, 0>>
            /\ Size[q] \in 1 .. ring.size
  <1> DEFINE n == Len(committed)
             k == Len(consumed)
             q == committed[k + 1]
  <1>1. n \in Nat /\ k \in Nat /\ k <= n
    BY LenProperties DEF TypeOK, Layout
  <1>2. /\ pos \in [1 .. n + 1 -> Nat]
        /\ \A i \in 1 .. n : pos[i + 1] = pos[i] + Size[committed[i]]
        /\ \A i, j \in 1 .. n + 1 : i <= j => pos[i] <= pos[j]
        /\ ring.head = pos[k + 1] % Capacity
        /\ ring.size = pos[n + 1] - pos[k + 1]
        /\ \A i \in k + 1 .. n :
             IntactAt(mem, pos[i] % Capacity, committed[i])
    BY DEF Layout
  <1>3. k < n
    <2>1. k = n => ring.size = 0
      BY <1>1, <1>2
    <2> QED BY <1>1, <2>1
  <1>4. k + 1 \in 1 .. n /\ k + 1 \in k + 1 .. n
    BY <1>1, <1>3
  <1>5. q \in Packets /\ Size[q] \in Nat \ {0}
    BY <1>4, ElementOfSeq, SizeAssumption DEF TypeOK
  <1>6. mem[ring.head] = <<q, 0>>
    <2>1. IntactAt(mem, ring.head, q)
      BY <1>2, <1>4
    <2>2. ring.head \in Int /\ 0 \in 0 .. Size[q] - 1
      BY <1>5 DEF TypeOK, Ring, Offsets
    <2> QED BY <2>1, <2>2 DEF IntactAt
  <1>7. Size[q] <= ring.size
    <2>1. (k + 1) + 1 \in 1 .. n + 1 /\ n + 1 \in 1 .. n + 1
          /\ k + 1 \in 1 .. n + 1 /\ (k + 1) + 1 <= n + 1
      BY <1>1, <1>3
    <2>2. pos[(k + 1) + 1] = pos[k + 1] + Size[q]
      BY <1>2, <1>4
    <2>3. pos[(k + 1) + 1] <= pos[n + 1]
      BY <1>2, <2>1
    <2>4. pos[k + 1] \in Nat /\ pos[n + 1] \in Nat
      BY <1>2, <2>1
    <2> QED BY <1>2, <1>5, <2>2, <2>3, <2>4
  <1>8. Size[q] \in 1 .. ring.size
    BY <1>5, <1>7 DEF TypeOK, Ring
  <1> QED BY <1>4, <1>5, <1>6, <1>8

\* decode_packet passes over nothing, and so a reader that has drained the
\* buffer has left nothing in it.
LEMMA PassesNothing ==
  ASSUME TypeOK, NEW pos, Layout(pos, committed, consumed, ring, mem),
         NEW k \in 0 .. ring.size, Passes(k)
  PROVE  k = 0
  <1> SUFFICES ASSUME k # 0 PROVE FALSE
    OBVIOUS
  <1>1. ring.size # 0 /\ 0 \in 0 .. k - 1
    BY DEF TypeOK, Ring
  <1> DEFINE q == committed[Len(consumed) + 1]
  <1>2. q \in Packets /\ mem[ring.head] = <<q, 0>>
    BY <1>1, HeadIsHeader
  <1>3. ring.head + 0 = ring.head /\ ring.head \in DOMAIN mem
    BY CapacityAssumption DEF TypeOK, Ring, Offsets
  <1>4. HeaderAt(mem, ring.head + 0, q)
    BY <1>2, <1>3 DEF HeaderAt
  <1> QED BY <1>1, <1>2, <1>4 DEF Passes

LEMMA DrainsAll ==
  ASSUME TypeOK, NEW pos, Layout(pos, committed, consumed, ring, mem),
         ReaderDrained
  PROVE  /\ ring'.size = ring.size /\ ring'.size = 0
         /\ ring'.head = ring.head /\ ring'.tail = ring.tail
  <1>1. PICK k \in 0 .. ring.size :
          /\ Passes(k)
          /\ \/ k = ring.size
             \/ \E p \in Packets :
                  Finds(k, p) /\ ~ConsumeFits(ring, k + Size[p])
          /\ ring' = Consume(ring, k)
    BY DEF ReaderDrained
  <1>2. k = 0
    BY <1>1, PassesNothing
  <1>3. ring.size = 0
    <2> SUFFICES ASSUME ring.size # 0 PROVE FALSE
      OBVIOUS
    <2>1. PICK p \in Packets : Finds(0, p) /\ ~ConsumeFits(ring, 0 + Size[p])
      BY <1>1, <1>2
    <2> DEFINE q == committed[Len(consumed) + 1]
    <2>2. mem[ring.head] = <<q, 0>> /\ Size[q] \in 1 .. ring.size
      BY HeadIsHeader
    <2>3. ring.head + 0 = ring.head
      BY DEF TypeOK, Ring, Offsets
    <2>4. p = q
      BY <2>1, <2>2, <2>3 DEF Finds, HeaderAt
    <2> HIDE DEF q
    <2> QED BY <2>1, <2>2, <2>4 DEF ConsumeFits, TypeOK, Ring
  <1>4. ring.head % Capacity = ring.head
    <2>1. ring.head \in 0 .. Capacity - 1
      BY DEF TypeOK, Ring, Offsets
    <2> QED BY <2>1, CapacityAssumption
  <1> QED
    BY <1>1, <1>2, <1>3, <1>4 DEF Consume, TypeOK, Ring, Offsets

\* process_packet: what decode_packet finds at the read offset can only be the
\* oldest unread packet, and the rest stays where it is.
LEMMA TakeKeeps ==
  ASSUME TypeOK, NEW pos, Layout(pos, committed, consumed, ring, mem),
         NEW p \in Packets, ReaderTakes(p)
  PROVE  /\ Len(consumed) < Len(committed)
         /\ p = committed[Len(consumed) + 1]
         /\ Layout(pos, committed', consumed', ring', mem')
  <1> DEFINE n == Len(committed)
             k == Len(consumed)
             s == Size[p]
             T == pos[n + 1]
             H == pos[k + 1]
  <1>2. s \in Nat \ {0} /\ n \in Nat /\ k \in Nat /\ k <= n
    BY SizeAssumption, LenProperties DEF TypeOK, Layout
  <1>1. /\ ring.size # 0 /\ mem[ring.head] = <<p, 0>>
        /\ ConsumeFits(ring, s) /\ ring' = Consume(ring, s)
        /\ consumed' = Append(consumed, p)
        /\ committed' = committed /\ mem' = mem
    <2>1. PICK g \in 0 .. ring.size :
            /\ Finds(g, p) /\ ConsumeFits(ring, g + s)
            /\ ring' = Consume(ring, g + s)
      BY DEF ReaderTakes
    <2>2. g = 0 /\ g < ring.size
      BY <2>1, PassesNothing DEF Finds
    <2>3. ring.head + 0 = ring.head /\ 0 + s = s
      BY <1>2 DEF TypeOK, Ring, Offsets
    <2> QED BY <2>1, <2>2, <2>3 DEF ReaderTakes, Finds, HeaderAt
  <1>3. Len(consumed') = k + 1
    BY <1>1, AppendProperties DEF TypeOK
  <1>4. /\ pos \in [1 .. n + 1 -> Nat]
        /\ \A i \in 1 .. n : pos[i + 1] = pos[i] + Size[committed[i]]
        /\ ring.head = H % Capacity /\ ring.tail = T % Capacity
        /\ ring.size = T - H
        /\ \A i \in k + 1 .. n :
             IntactAt(mem, pos[i] % Capacity, committed[i])
    BY DEF Layout
  <1>5. T \in Nat /\ H \in Nat
    BY <1>2, <1>4
  <1>6. k < n
    BY <1>1, <1>2, HeadIsHeader
  <1>7. k + 1 \in 1 .. n /\ k + 1 \in k + 1 .. n
    BY <1>2, <1>6
  <1>8. p = committed[k + 1]
    BY <1>1, HeadIsHeader
  <1>9. pos[k + 2] = H + s
    <2>1. (k + 1) + 1 = k + 2
      BY <1>2
    <2> QED  BY <1>4, <1>7, <1>8, <2>1
  <1>10. s \in 0 .. Capacity /\ s <= T - H
    BY <1>1, <1>2, <1>4, <1>5, CapacityAssumption
    DEF ConsumeFits, TypeOK, Ring
  <1>11. ring'.head = pos[k + 2] % Capacity
    <2>1. ring'.head = ((H % Capacity) + s) % Capacity
      BY <1>1, <1>4 DEF Consume
    <2> HIDE DEF H, s
    <2> QED  BY <1>5, <1>9, <1>10, <2>1, OffsetAdvance
  <1>12. ring'.tail = T % Capacity /\ ring'.size = T - pos[k + 2]
    BY <1>1, <1>2, <1>4, <1>5, <1>9 DEF Consume
  <1>13. \A i \in k + 2 .. n : i \in k + 1 .. n
    BY <1>2
  <1> HIDE DEF n, k, s, T, H
  <1>14. Layout(pos, committed', consumed', ring', mem')
    <2>1. Len(committed') = n /\ T = pos[n + 1]
      BY <1>1 DEF n, T
    <2>2. Len(consumed') <= n /\ Len(consumed') + 1 = k + 2
      BY <1>2, <1>3, <1>6
    <2>3. \A i \in Len(consumed') + 1 .. Len(committed') :
            IntactAt(mem', pos[i] % Capacity, committed'[i])
      BY <1>1, <1>4, <1>13, <2>1, <2>2
    <2>4. /\ pos \in [1 .. n + 1 -> Nat]
          /\ \A i \in 1 .. n : pos[i + 1] = pos[i] + Size[committed[i]]
          /\ \A i, j \in 1 .. n + 1 : i <= j => pos[i] <= pos[j]
      BY DEF Layout, n
    <2> QED
      BY <1>1, <1>11, <1>12, <2>1, <2>2, <2>3, <2>4 DEF Layout
  <1> QED  BY <1>6, <1>8, <1>14 DEF n, k

\* Nobody else touches the buffer.
LEMMA OnlyCommitsAndTakes ==
  ASSUME [Next]_vars
  PROVE  \/ WriterCommits \/ WriterAborts \/ ReaderDrained
         \/ \E p \in Packets : ReaderTakes(p)
         \/ UNCHANGED sharedVars
  BY DEF Next, WriterStep, ReaderStep, StopStep, vars, sharedVars, Send,
         Expire, WriterSeesStop, WriterFindsEmpty, WriterSleeps, WriterPops,
         WriterLocks, WriterLockFails, WriterResumes, WriterGivesUp,
         WriterStopsReady, WriterNotifies, WriterUnlocks, HandlerReturns,
         ReaderTop, ReaderLocks, ReaderLockFails, ReaderResumes,
         ReaderGivesUp, ReaderNotifies, ReaderUnlocks,
         StopWFlag, StopRFlag, StopWNotify, StopWSignal, StopWJoin,
         StopRSignal, StopRJoin, KillW, KillR, SpuriousWakeup

\* As long as no commit fails its assertion, nothing unread is overwritten.
LEMMA FifoNext == FifoInv /\ CommitAssertion /\ [Next]_vars => FifoInv'
  <1> SUFFICES ASSUME FifoInv, CommitAssertion, [Next]_vars
               PROVE  \E new : Layout(new, committed', consumed', ring', mem')
    BY TypeNext DEF FifoInv
  <1>1. PICK pos : Layout(pos, committed, consumed, ring, mem)
    BY DEF FifoInv
  <1>2. CASE WriterCommits
    BY <1>1, <1>2, CommitKeeps DEF FifoInv
  <1>3. CASE \E p \in Packets : ReaderTakes(p)
    BY <1>1, <1>3, TakeKeeps DEF FifoInv
  <1>4. CASE ReaderDrained
    <2>1. /\ ring'.size = ring.size
          /\ ring'.head = ring.head /\ ring'.tail = ring.tail
      BY <1>1, <1>4, DrainsAll DEF FifoInv
    <2>2. UNCHANGED <<committed, consumed, mem>>
      BY <1>4 DEF ReaderDrained
    <2> QED BY <1>1, <2>1, <2>2 DEF Layout
  <1>5. ~WriterAborts
    BY DEF WriterAborts, CommitAssertion
  <1>6. CASE UNCHANGED sharedVars
    BY <1>1, <1>6 DEF sharedVars
  <1> QED  BY <1>2, <1>3, <1>4, <1>5, <1>6, OnlyCommitsAndTakes

-----------------------------------------------------------------------------
(* Every step of the channel is a step of the FIFO, or none                *)

LEMMA PutStep ==
  ASSUME FifoInv, WriterCommits
  PROVE  Fifo!Next
  <1> DEFINE n == Len(committed)
             k == Len(consumed)
  <1>1. /\ CommitFits(ring, Size[inhand]) /\ ring' = Commit(ring, Size[inhand])
        /\ committed' = Append(committed, inhand) /\ consumed' = consumed
        /\ inhand \in Packets
    BY DEF WriterCommits, FifoInv, TypeOK
  <1>2. n \in Nat /\ k \in Nat /\ k <= n /\ committed \in Seq(Packets)
    BY LenProperties DEF FifoInv, TypeOK, Layout
  <1>3. /\ committed' \in Seq(Packets) /\ Len(committed') = n + 1
        /\ committed'[n + 1] = inhand
        /\ \A i \in 1 .. n : committed'[i] = committed[i]
    BY <1>1, <1>2, AppendProperties
  <1> DEFINE old == SubSeq(committed, k + 1, n)
             new == SubSeq(committed', k + 1, n + 1)
             app == Append(old, inhand)
  <1>4. /\ old \in Seq(Packets) /\ Len(old) = n - k
        /\ \A i \in 1 .. n - k : old[i] = committed[k + i]
    <2>1. \A i \in k + 1 .. n : committed[i] \in Packets
      BY <1>2, ElementOfSeq
    <2>2. /\ old \in Seq(Packets)
          /\ Len(old) = IF k + 1 <= n THEN n - (k + 1) + 1 ELSE 0
          /\ \A i \in 1 .. n - (k + 1) + 1 : old[i] = committed[k + 1 + i - 1]
      BY <1>2, <2>1, SubSeqProperties
    <2> QED  BY <1>2, <2>2
  <1>5. /\ new \in Seq(Packets) /\ Len(new) = n - k + 1
        /\ \A i \in 1 .. n - k + 1 : new[i] = committed'[k + i]
    <2>1. \A i \in k + 1 .. n + 1 : committed'[i] \in Packets
      BY <1>2, <1>3, ElementOfSeq
    <2>2. /\ new \in Seq(Packets)
          /\ Len(new) = IF k + 1 <= n + 1 THEN n + 1 - (k + 1) + 1 ELSE 0
          /\ \A i \in 1 .. n + 1 - (k + 1) + 1 :
               new[i] = committed'[k + 1 + i - 1]
      BY <1>2, <2>1, SubSeqProperties
    <2> QED  BY <1>2, <2>2
  <1>6. /\ app \in Seq(Packets) /\ Len(app) = n - k + 1
        /\ app[n - k + 1] = inhand
        /\ \A i \in 1 .. n - k : app[i] = old[i]
    BY <1>1, <1>2, <1>4, AppendProperties
  <1> HIDE DEF n, k, old, new, app
  <1>7. \A i \in 1 .. n - k + 1 : new[i] = app[i]
    <2> SUFFICES ASSUME NEW i \in 1 .. n - k + 1
                 PROVE  new[i] = app[i]
      OBVIOUS
    <2>1. CASE i = n - k + 1
      <3>1. k + i = n + 1
        BY <1>2, <2>1
      <3> QED  BY <1>3, <1>5, <1>6, <2>1, <3>1
    <2>2. CASE i \in 1 .. n - k
      <3>1. k + i \in 1 .. n
        BY <1>2, <2>2
      <3> QED  BY <1>3, <1>4, <1>5, <1>6, <2>2, <3>1
    <2> QED  BY <1>2, <2>1, <2>2
  <1>8. new = app
    BY <1>5, <1>6, <1>7, SeqEqual
  <1>9. Unconsumed' = Append(Unconsumed, inhand)
    BY <1>1, <1>3, <1>8 DEF Unconsumed, old, new, app, n, k
  <1>10. /\ ring.size + Size[inhand] <= Capacity
         /\ ring'.size = ring.size + Size[inhand]
    BY <1>1, SizeAssumption, CapacityAssumption
    DEF CommitFits, Commit, FifoInv, TypeOK, Ring
  <1> QED  BY <1>1, <1>9, <1>10 DEF Fifo!Next, Fifo!Put

LEMMA GetStep ==
  ASSUME FifoInv, NEW p \in Packets, ReaderTakes(p)
  PROVE  Fifo!Next
  <1> DEFINE n == Len(committed)
             k == Len(consumed)
  <1>1. PICK pos : Layout(pos, committed, consumed, ring, mem)
    BY DEF FifoInv
  <1>2. k < n /\ p = committed[k + 1]
    BY <1>1, TakeKeeps DEF FifoInv
  <1>3. /\ ring'.size = ring.size - Size[p]
        /\ consumed' = Append(consumed, p) /\ committed' = committed
    <2>1. PICK g \in 0 .. ring.size :
            Finds(g, p) /\ ring' = Consume(ring, g + Size[p])
      BY DEF ReaderTakes
    <2>2. g = 0
      BY <1>1, <2>1, PassesNothing DEF Finds, FifoInv
    <2> QED BY <2>1, <2>2, SizeAssumption DEF ReaderTakes, Consume
  <1>4. n \in Nat /\ k \in Nat /\ committed \in Seq(Packets)
    BY LenProperties DEF FifoInv, TypeOK
  <1>5. Len(consumed') = k + 1
    BY <1>3, AppendProperties DEF FifoInv, TypeOK
  <1>6. k + 1 \in 1 .. n /\ n \in k + 1 .. n
    BY <1>2, <1>4
  <1>7. /\ Head(Unconsumed) = p
        /\ Tail(Unconsumed) = SubSeq(committed, (k + 1) + 1, n)
    BY <1>2, <1>4, <1>6, HeadTailOfSubSeq DEF Unconsumed
  <1>8. Unconsumed # <<>>
    <2>1. \A i \in k + 1 .. n : committed[i] \in Packets
      BY <1>4, ElementOfSeq
    <2>2. Len(Unconsumed) = n - (k + 1) + 1
      BY <1>4, <1>6, <2>1, SubSeqProperties DEF Unconsumed
    <2> QED  BY <1>2, <1>4, <2>2
  <1>9. Unconsumed' = Tail(Unconsumed)
    BY <1>3, <1>5, <1>7 DEF Unconsumed
  <1> QED  BY <1>3, <1>7, <1>8, <1>9 DEF Fifo!Next, Fifo!Get

-----------------------------------------------------------------------------

LEMMA FifoInvariant == Spec /\ []CommitAssertion => []FifoInv
  BY FifoInit, FifoNext, PTL DEF Spec

\* What read_head() points at is the oldest unread packet and whole, for every
\* capacity and whatever the sizes of the packets, as long as no commit fails
\* its assertion: no memcpy, which runs on past the end of the buffer,
\* overwrites what was not yet read.
THEOREM UnreadStaysIntact == Spec /\ []CommitAssertion => []NextPacketIntact
  <1>1. FifoInv => NextPacketIntact
    <2> SUFFICES ASSUME FifoInv, Unread # {}
                 PROVE  IntactAt(mem, ring.head, committed[Len(consumed) + 1])
      BY DEF NextPacketIntact
    <2>1. PICK pos : Layout(pos, committed, consumed, ring, mem)
      BY DEF FifoInv
    <2>2. Len(consumed) \in Nat /\ Len(committed) \in Nat
      BY LenProperties DEF FifoInv, TypeOK
    <2>3. Len(consumed) + 1 \in Len(consumed) + 1 .. Len(committed)
      BY <2>2 DEF Unread
    <2> QED  BY <2>1, <2>3 DEF Layout
  <1> QED BY <1>1, FifoInvariant, PTL

\* One direction of a connection is a bounded FIFO of whole packets, whatever
\* is stopped, killed, woken or expires meanwhile, as long as no commit fails
\* its assertion (its memcpy comes first and spoils what is unread): nothing
\* is read twice, out of order, torn or unwritten, and the buffer never holds
\* more than it can.
THEOREM ChannelIsFifo == Spec /\ []CommitAssertion => ImplementsFifo
  <1>1. Init => Fifo!Init
    <2>1. SubSeq(<<>>, 0 + 1, 0) = <<>>
      BY SubSeqEmpty
    <2> QED  BY <2>1 DEF Init, Fifo!Init, Unconsumed, EmptyRing
  <1>2. FifoInv /\ CommitAssertion /\ [Next]_vars
          => [Fifo!Next]_<<Unconsumed, ring.size>>
    <2> SUFFICES ASSUME FifoInv, CommitAssertion, [Next]_vars
                 PROVE  [Fifo!Next]_<<Unconsumed, ring.size>>
      OBVIOUS
    <2>1. CASE UNCHANGED sharedVars
      BY <2>1 DEF sharedVars, Unconsumed
    <2>2. CASE ReaderDrained
      <3>1. UNCHANGED <<committed, consumed>>
        BY <2>2 DEF ReaderDrained
      <3>2. ring'.size = ring.size
        BY <2>2, DrainsAll DEF FifoInv
      <3> QED  BY <3>1, <3>2 DEF Unconsumed
    <2>3. ~WriterAborts
      BY DEF WriterAborts, CommitAssertion
    <2> QED  BY <2>1, <2>2, <2>3, PutStep, GetStep, OnlyCommitsAndTakes
  <1> QED
    BY <1>1, <1>2, FifoInvariant, PTL DEF Spec, ImplementsFifo, Fifo!Spec

-----------------------------------------------------------------------------
(* The room for a packet                                                   *)

\* Room needs a reader that takes everything it finds, waits that end only
\* when signalled, and packets that fit into the empty buffer.
Undisturbed ==
  /\ Foreign = {}
  /\ "spurious" \notin Env
  /\ \A p \in Packets : Size[p] <= Capacity

LEMMA RoomInit == Init => Room
  BY DEF Init, Room, wstop

LEMMA RoomNext ==
  ASSUME Undisturbed
  PROVE  RoomInv /\ FifoInv /\ [Next]_vars => Room'
  <1> SUFFICES ASSUME RoomInv, FifoInv, [Next]_vars
               PROVE  Room'
    OBVIOUS
  <1> USE DEF RoomInv, LockInv, TypeOK, LockDiscipline, UnhealthyMeansGone,
              WriterCritical, ReaderCritical, WriterStates, ReaderStates,
              ProcStates, Room, wstop, rstop, sharedVars, sendVars
  <1>1. ASSUME NEW p \in Packets, Send(p) PROVE Room'
    BY <1>1 DEF Send
  <1>2. ASSUME NEW p \in Packets, Expire(p) PROVE Room'
    BY <1>2 DEF Expire
  <1>3. CASE WriterSeesStop
    BY <1>3 DEF WriterSeesStop
  <1>4. CASE WriterFindsEmpty
    BY <1>4 DEF WriterFindsEmpty
  <1>5. CASE WriterSleeps
    BY <1>5 DEF WriterSleeps
  <1>6. CASE WriterPops
    BY <1>6 DEF WriterPops
  <1>7. CASE WriterLocks
    <2>1. /\ rpc' = rpc /\ ring' = ring /\ inhand' = inhand
          /\ wproc' = wproc /\ rproc' = rproc /\ wpc = "lock"
          /\ lastFree' = FreeSize(ring)
          /\ wpc' = IF FreeSize(ring) < Size[inhand] THEN "wsleep" ELSE "ready"
      BY <1>7 DEF WriterLocks
    <2>2. FreeSize(ring)' = lastFree'
      BY <2>1
    <2>3. inhand \in Packets /\ Size[inhand] \in Nat
      BY <2>1, SizeAssumption
    <2>4. CASE FreeSize(ring) < Size[inhand]
      BY <2>1, <2>2, <2>4
    <2>5. CASE ~(FreeSize(ring) < Size[inhand])
      <3>1. CommitFits(ring, Size[inhand])
        BY <2>3, <2>5, CapacityAssumption DEF FreeSize, CommitFits, Ring
      <3> QED BY <2>1, <2>5, <3>1
    <2> QED BY <2>4, <2>5
  <1>8. CASE WriterLockFails
    BY <1>8 DEF WriterLockFails, LockFails
  <1>9. CASE WriterResumes
    <2>1. /\ wpc' = "ready" /\ rpc' = rpc /\ ring' = ring /\ inhand' = inhand
          /\ wproc' = wproc /\ rproc' = rproc
          /\ wpc = "rewake" /\ FreeSize(ring) > lastFree
      BY <1>9 DEF WriterResumes
    <2>2. wstop' = wstop
      BY <2>1
    <2>3. ~wstop => ring.size = 0
      BY <2>1, RingFree
    <2>4. inhand \in Packets /\ Size[inhand] \in Nat /\ Size[inhand] <= Capacity
      BY <2>1, SizeAssumption DEF Undisturbed
    <2>5. ~wstop => CommitFits(ring, Size[inhand])
      BY <2>3, <2>4, CapacityAssumption DEF CommitFits
    <2> QED BY <2>1, <2>2, <2>5
  <1>10. CASE WriterGivesUp
    BY <1>10 DEF WriterGivesUp
  <1>11. CASE WriterStopsReady
    BY <1>11 DEF WriterStopsReady, Release
  <1>12. CASE WriterCommits
    BY <1>12 DEF WriterCommits
  <1>13. CASE WriterAborts
    BY <1>13 DEF WriterAborts, Abandon
  <1>14. CASE WriterNotifies
    BY <1>14 DEF WriterNotifies, SignalReader
  <1>15. CASE WriterUnlocks
    BY <1>15 DEF WriterUnlocks, Release
  <1>16. ASSUME NEW p \in Packets, ReaderTakes(p) PROVE Room'
    <2>1. /\ rpc = "process" /\ p \notin Foreign /\ rpc' = "handler"
          /\ UNCHANGED <<wpc, inhand, lastFree, owner, wproc, rproc>>
          /\ ring.size # 0
      BY <1>16 DEF ReaderTakes, Undisturbed, Finds, Ring
    <2>2. ~(wpc = "ready") /\ ~(wpc = "rewake" /\ ~wstop)
      BY <2>1
    <2>3. wstop' = wstop
      BY <2>1
    <2> QED BY <2>1, <2>2, <2>3
  <1>17. CASE ReaderTop
    BY <1>17 DEF ReaderTop
  <1>18. CASE ReaderLocks
    BY <1>18 DEF ReaderLocks
  <1>19. CASE ReaderLockFails
    BY <1>19 DEF ReaderLockFails, LockFails
  <1>20. CASE ReaderResumes
    BY <1>20 DEF ReaderResumes, Reacquire
  <1>21. CASE ReaderGivesUp
    BY <1>21 DEF ReaderGivesUp
  <1>22. CASE ReaderDrained
    <2>1. ring'.size = 0
      BY <1>22, DrainsAll DEF FifoInv
    <2> QED BY <1>22, <2>1 DEF ReaderDrained
  <1>23. CASE ReaderNotifies
    BY <1>23 DEF ReaderNotifies, SignalWriter
  <1>24. CASE ReaderUnlocks
    BY <1>24 DEF ReaderUnlocks, Release
  <1>25. CASE StopWNotify
    BY <1>25 DEF StopWNotify
  <1>26. CASE StopWSignal
    BY <1>26 DEF StopWSignal, SignalWriter
  <1>27. CASE StopWJoin
    BY <1>27 DEF StopWJoin, SignalReader
  <1>28. CASE StopRSignal
    BY <1>28 DEF StopRSignal, SignalReader
  <1>29. CASE StopRJoin
    BY <1>29 DEF StopRJoin, SignalWriter
  <1>30. CASE StopWFlag
    BY <1>30 DEF StopWFlag
  <1>31. CASE StopRFlag
    BY <1>31 DEF StopRFlag
  <1>32. CASE KillW
    BY <1>32 DEF KillW, Abandon
  <1>33. CASE KillR
    BY <1>33 DEF KillR, Abandon
  <1>34. CASE SpuriousWakeup
    BY <1>34 DEF SpuriousWakeup, Undisturbed
  <1>35. CASE HandlerReturns
    BY <1>35 DEF HandlerReturns
  <1>36. CASE UNCHANGED vars
    BY <1>36 DEF vars
  <1> QED
    BY <1>1, <1>2, <1>3, <1>4, <1>5, <1>6, <1>7, <1>8, <1>9, <1>10, <1>11,
       <1>12, <1>13, <1>14, <1>15, <1>16, <1>17, <1>18, <1>19, <1>20,
       <1>21, <1>22, <1>23, <1>24, <1>25, <1>26, <1>27, <1>28, <1>29,
       <1>30, <1>31, <1>32, <1>33, <1>34, <1>35, <1>36
    DEF Next, WriterStep, ReaderStep, StopStep

LEMMA RoomAndFifo ==
  ASSUME Undisturbed
  PROVE  Spec => [](RoomInv /\ FifoInv)
  <1>1. Init => RoomInv /\ FifoInv
    BY TypeInit, LockInit, RoomInit, FifoInit DEF RoomInv, LockInv
  <1>2. RoomInv => CommitAssertion
    BY DEF RoomInv, Room, CommitAssertion
  <1>3. RoomInv /\ FifoInv /\ [Next]_vars => (RoomInv /\ FifoInv)'
    BY <1>2, TypeNext, LockNext, RoomNext, FifoNext DEF RoomInv, LockInv
  <1> QED BY <1>1, <1>3, PTL DEF Spec

\* write_proc never breaks the assertion of commit, although it does not
\* measure again after its wait, provided every packet in the buffer is of
\* this connection, no wait ends without a signal and no packet is larger
\* than the buffer.
THEOREM CommitIsSafe ==
  ASSUME Undisturbed
  PROVE  Spec => []CommitAssertion
  <1>1. RoomInv => CommitAssertion
    BY DEF RoomInv, Room, CommitAssertion
  <1> QED BY <1>1, RoomAndFifo, PTL

\* Where the reader takes everything it finds, waits end only when signalled
\* and packets fit into the buffer, no commit does fail, so that the channel is
\* that FIFO whoever is stopped or killed and whatever expires.
THEOREM UndisturbedIsFifo ==
  ASSUME Undisturbed
  PROVE  Spec => []NextPacketIntact /\ ImplementsFifo
  BY CommitIsSafe, UnreadStaysIntact, ChannelIsFifo, PTL

=============================================================================
