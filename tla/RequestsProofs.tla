---------------------------- MODULE RequestsProofs ----------------------------
(***************************************************************************)
(* Theorems about Requests, for any number of requests, any timeouts and   *)
(* any interleaving.                                                       *)
(***************************************************************************)
EXTENDS Requests, SequenceTheorems, TLAPS

Elems(q) == {q[i] : i \in 1 .. Len(q)}

Distinct(q) == \A i, j \in 1 .. Len(q) : q[i] = q[j] => i = j

-----------------------------------------------------------------------------
(* What the operations on the queue do to its elements                     *)

\* send_packet appends.
LEMMA Appending ==
  ASSUME NEW S, NEW q \in Seq(S), NEW x \in S, Distinct(q), x \notin Elems(q)
  PROVE  /\ Append(q, x) \in Seq(S)
         /\ Elems(Append(q, x)) = Elems(q) \cup {x}
         /\ Distinct(Append(q, x))
  <1>1. /\ Append(q, x) \in Seq(S) /\ Len(Append(q, x)) = Len(q) + 1
        /\ \A i \in 1 .. Len(q) : Append(q, x)[i] = q[i]
        /\ Append(q, x)[Len(q) + 1] = x /\ Len(q) \in Nat
    BY AppendProperties, LenProperties
  <1>2. 1 .. Len(Append(q, x)) = (1 .. Len(q)) \cup {Len(q) + 1}
    BY <1>1
  <1>3. Elems(Append(q, x)) = Elems(q) \cup {x}
    BY <1>1, <1>2 DEF Elems
  <1>4. Distinct(Append(q, x))
    BY <1>1, <1>2 DEF Elems, Distinct
  <1> QED BY <1>1, <1>3, <1>4

\* The part of a queue behind its first n elements.
LEMMA Dropping ==
  ASSUME NEW S, NEW q \in Seq(S), NEW n \in 0 .. Len(q), Distinct(q)
  PROVE  LET rest == SubSeq(q, n + 1, Len(q))
         IN  /\ rest \in Seq(S) /\ Distinct(rest)
             /\ Elems(rest) = Elems(q) \ {q[i] : i \in 1 .. n}
  <1> DEFINE rest == SubSeq(q, n + 1, Len(q))
  <1>1. Len(q) \in Nat /\ \A i \in n + 1 .. Len(q) : q[i] \in S
    BY ElementOfSeq, LenProperties
  <1>2. /\ rest \in Seq(S) /\ Len(rest) = Len(q) - n
        /\ \A i \in 1 .. Len(q) - n : rest[i] = q[n + i]
    BY <1>1, SubSeqProperties
  <1> HIDE DEF rest
  <1>3. Distinct(rest)
    <2> SUFFICES ASSUME NEW i \in 1 .. Len(q) - n, NEW j \in 1 .. Len(q) - n,
                        rest[i] = rest[j]
                 PROVE  i = j
      BY <1>2 DEF Distinct
    <2>1. n + i \in 1 .. Len(q) /\ n + j \in 1 .. Len(q)
      BY <1>1
    <2>2. q[n + i] = q[n + j]
      BY <1>2
    <2>3. n + i = n + j
      BY <2>1, <2>2 DEF Distinct
    <2> QED BY <1>1, <2>3
  <1>4. \A i \in n + 1 .. Len(q) :
          i - n \in 1 .. Len(rest) /\ rest[i - n] = q[i]
    BY <1>1, <1>2
  <1>5. Elems(rest) = Elems(q) \ {q[i] : i \in 1 .. n}
    <2>1. ASSUME NEW i \in 1 .. Len(rest)
          PROVE  rest[i] \in Elems(q) \ {q[j] : j \in 1 .. n}
      BY <1>1, <1>2 DEF Elems, Distinct
    <2>2. ASSUME NEW i \in 1 .. Len(q), q[i] \notin {q[j] : j \in 1 .. n}
          PROVE  q[i] \in Elems(rest)
      <3>1. i \in n + 1 .. Len(q)
        BY <1>1, <2>2
      <3> QED BY <1>4, <3>1 DEF Elems
    <2> QED BY <2>1, <2>2 DEF Elems
  <1> QED BY <1>2, <1>3, <1>5 DEF rest

\* write_proc takes the first packet.
LEMMA Popping ==
  ASSUME NEW S, NEW q \in Seq(S), q # <<>>, Distinct(q)
  PROVE  /\ Head(q) \in S /\ Tail(q) \in Seq(S) /\ Distinct(Tail(q))
         /\ Head(q) \in Elems(q)
         /\ Elems(Tail(q)) = Elems(q) \ {Head(q)}
  <1>1. Len(q) \in Nat \ {0} /\ Head(q) = q[1] /\ Head(q) \in S
    BY EmptySeq, HeadTailProperties
  <1>2. Tail(q) = SubSeq(q, 2, Len(q))
    BY TailIsSubSeq
  <1>3. {q[i] : i \in 1 .. 1} = {Head(q)}
    BY <1>1
  <1>4. 1 \in 0 .. Len(q) /\ 1 + 1 = 2
    BY <1>1
  <1>5. /\ Tail(q) \in Seq(S) /\ Distinct(Tail(q))
        /\ Elems(Tail(q)) = Elems(q) \ {Head(q)}
    BY <1>2, <1>3, <1>4, Dropping, ZenonT(60)
  <1> QED BY <1>1, <1>5 DEF Elems

\* cancel_sending erases the packet at i.
LEMMA Removing ==
  ASSUME NEW S, NEW q \in Seq(S), NEW i \in 1 .. Len(q), Distinct(q)
  PROVE  LET rest == SubSeq(q, 1, i - 1) \o SubSeq(q, i + 1, Len(q))
         IN  /\ rest \in Seq(S) /\ Distinct(rest)
             /\ Elems(rest) = Elems(q) \ {q[i]}
  <1> DEFINE front == SubSeq(q, 1, i - 1)
             back == SubSeq(q, i + 1, Len(q))
             rest == front \o back
  <1>1. Len(q) \in Nat /\ \A j \in 1 .. Len(q) : q[j] \in S
    BY ElementOfSeq, LenProperties
  <1>2. /\ front \in Seq(S) /\ Len(front) = i - 1
        /\ \A j \in 1 .. i - 1 : front[j] = q[j]
    BY <1>1, SubSeqProperties
  <1>3. /\ back \in Seq(S) /\ Len(back) = Len(q) - i
        /\ \A j \in 1 .. Len(q) - i : back[j] = q[i + j]
    BY <1>1, SubSeqProperties
  <1> HIDE DEF front, back
  <1>4. /\ rest \in Seq(S) /\ Len(rest) = Len(front) + Len(back)
        /\ \A j \in 1 .. Len(front) + Len(back) :
             rest[j] = IF j <= Len(front) THEN front[j]
                                          ELSE back[j - Len(front)]
    BY <1>2, <1>3, ConcatProperties
  <1> HIDE DEF rest
  <1>5. /\ Len(rest) = Len(q) - 1
        /\ \A j \in 1 .. Len(q) - 1 :
             rest[j] = IF j < i THEN q[j] ELSE q[j + 1]
    <2>1. i \in Nat /\ Len(rest) = Len(q) - 1
      BY <1>1, <1>2, <1>3, <1>4
    <2>2. ASSUME NEW j \in 1 .. Len(q) - 1
          PROVE  rest[j] = IF j <= i - 1 THEN front[j] ELSE back[j - (i - 1)]
      <3>1. j \in 1 .. Len(front) + Len(back)
        BY <1>1, <1>2, <1>3
      <3> QED BY <1>2, <1>4, <3>1
    <2>3. ASSUME NEW j \in 1 .. Len(q) - 1, j < i PROVE rest[j] = q[j]
      <3>1. j \in 1 .. i - 1 /\ j <= i - 1
        BY <1>1, <2>1, <2>3
      <3> QED BY <1>2, <2>2, <3>1
    <2>4. ASSUME NEW j \in 1 .. Len(q) - 1, ~(j < i) PROVE rest[j] = q[j + 1]
      <3>1. /\ j - (i - 1) \in 1 .. Len(q) - i /\ ~(j <= i - 1)
            /\ i + (j - (i - 1)) = j + 1
        BY <1>1, <2>1, <2>4
      <3> QED BY <1>3, <2>2, <3>1
    <2> QED BY <2>1, <2>3, <2>4
  <1>6. Distinct(rest)
    BY <1>1, <1>5 DEF Distinct
  <1>7. Elems(rest) = Elems(q) \ {q[i]}
    <2>1. ASSUME NEW j \in 1 .. Len(rest)
          PROVE  rest[j] \in Elems(q) \ {q[i]}
      BY <1>1, <1>5 DEF Elems, Distinct
    <2>2. ASSUME NEW j \in 1 .. Len(q), q[j] # q[i]
          PROVE  q[j] \in Elems(rest)
      <3>1. CASE j < i
        BY <1>1, <1>5, <3>1 DEF Elems
      <3>2. CASE j > i
        <4>1. j - 1 \in 1 .. Len(rest) /\ rest[j - 1] = q[j]
          BY <1>1, <1>5, <3>2
        <4> QED BY <4>1 DEF Elems
      <3> QED BY <1>1, <2>2, <3>1, <3>2
    <2> QED BY <2>1, <2>2 DEF Elems
  <1> QED BY <1>4, <1>6, <1>7 DEF front, back, rest

-----------------------------------------------------------------------------
(* The inductive invariant                                                 *)

\* A packet is in one place at a time, and its callback was not called while
\* it still waits in one.
OnePlace ==
  /\ Distinct(queue)
  /\ Elems(queue) \subseteq sent /\ pending \subseteq sent
  /\ hand # None => hand \in sent
  /\ Elems(queue) \cap pending = {} /\ hand \notin Elems(queue)
  /\ wpc = "popped" => hand \notin pending /\ calls[hand] = 0
  /\ \A r \in Requests :
       r \in pending \/ r \in Elems(queue) \/ r \notin sent => calls[r] = 0

\* Between registration and commit the request of the packet in hand is
\* registered, or already concluded.
HandIsRegistered ==
  wpc = "registered" =>
    \/ ~ShouldWait(hand)
    \/ calls[hand] = 1 \/ hand \in cancelled
    \/ hand \in pending

Found == NoRequestForgotten /\ AnswerableIsRegistered /\ HandIsRegistered

RequestsInv == TypeOK /\ AtMostOneCall /\ OnePlace /\ Found

LEMMA RequestsInit == Init => RequestsInv
  <1> SUFFICES ASSUME Init PROVE RequestsInv
    OBVIOUS
  <1>1. queue = <<>> /\ Len(queue) = 0 /\ queue \in Seq(Requests)
    BY EmptySeq DEF Init
  <1>2. Elems(queue) = {} /\ Distinct(queue)
    BY <1>1 DEF Elems, Distinct
  <1> QED
    BY <1>1, <1>2, NoneAssumption
    DEF Init, RequestsInv, TypeOK, AtMostOneCall, OnePlace, Found,
        NoRequestForgotten, AnswerableIsRegistered, HandIsRegistered

\* Every step of the application, the threads and the clock keeps it.
LEMMA RequestsNext == RequestsInv /\ [Next]_vars => RequestsInv'
  <1> SUFFICES ASSUME RequestsInv, [Next]_vars PROVE RequestsInv'
    OBVIOUS
  <1>0. \A r : /\ InQueue(r) <=> r \in Elems(queue)
               /\ InQueue(r)' <=> r \in Elems(queue)'
    BY DEF InQueue, Elems
  <1> USE <1>0, NoneAssumption
      DEF RequestsInv, TypeOK, AtMostOneCall, OnePlace, Found,
          NoRequestForgotten, AnswerableIsRegistered, HandIsRegistered,
          histVars, writerVars, timerVars
  <1>1. ASSUME NEW r \in Requests, Send(r) PROVE RequestsInv'
    <2>1. r \notin Elems(queue)
      BY <1>1 DEF Send
    <2>2. /\ queue' \in Seq(Requests) /\ Distinct(queue')
          /\ Elems(queue') = Elems(queue) \cup {r}
      BY <1>1, <2>1, Appending DEF Send
    <2> QED BY <1>1, <2>2 DEF Send
  <1>2. ASSUME NEW r \in Requests, CancelQueued(r) PROVE RequestsInv'
    <2>1. CASE InQueue(r)
      <3>1. PICK i \in 1 .. Len(queue) :
              /\ queue[i] = r
              /\ queue' = SubSeq(queue, 1, i - 1)
                            \o SubSeq(queue, i + 1, Len(queue))
        BY <1>2, <2>1 DEF CancelQueued
      <3>2. /\ queue' \in Seq(Requests) /\ Distinct(queue')
            /\ Elems(queue') = Elems(queue) \ {r}
        BY <3>1, Removing
      <3> QED BY <1>2, <3>2 DEF CancelQueued
    <2>2. CASE ~InQueue(r)
      BY <1>2, <2>2 DEF CancelQueued
    <2> QED BY <2>1, <2>2
  <1>3. ASSUME NEW r \in Requests, ReaderGetsResponse(r) PROVE RequestsInv'
    BY <1>3 DEF ReaderGetsResponse, Call
  <1>4. CASE CancelRegistered
    BY <1>4 DEF CancelRegistered
  <1>5. CASE WriterPops
    <2>1. /\ hand' \in Requests /\ hand' \in Elems(queue)
          /\ queue' \in Seq(Requests) /\ Distinct(queue')
          /\ Elems(queue') = Elems(queue) \ {hand'}
      BY <1>5, Popping DEF WriterPops
    <2> QED BY <1>5, <2>1 DEF WriterPops
  <1>6. CASE WriterRegisters
    BY <1>6 DEF WriterRegisters, ShouldWait
  <1>7. CASE WriterCommits
    BY <1>7 DEF WriterCommits
  <1>8. CASE WriterEnds
    BY <1>8 DEF WriterEnds
  <1>9. CASE Restart
    BY <1>9 DEF Restart
  <1>10. CASE SecondPasses
    BY <1>10 DEF SecondPasses
  <1>11. CASE TimerChecksRegistered
    <2> DEFINE due == pending \cap Elapsed
    <2>1. /\ calls' = [r \in Requests |->
                         IF r \in due THEN calls[r] + 1 ELSE calls[r]]
          /\ result' = [r \in Requests |->
                          IF r \in due THEN "timeout" ELSE result[r]]
          /\ pending' = pending \ due
          /\ tpc' = "queue" /\ expired' = Elapsed
          /\ UNCHANGED <<queue, age, wpc, hand, peer, canceling, sent,
                         cancelled, missed, forgotten>>
      BY <1>11 DEF TimerChecksRegistered, Call
    <2>2. due \subseteq pending /\ Elapsed \subseteq Requests
      BY DEF Elapsed
    <2> HIDE DEF due
    <2>3. /\ \A r \in due : calls[r] = 0 /\ calls'[r] = 1
          /\ \A r \in Requests \ due : calls'[r] = calls[r]
      BY <2>1, <2>2
    <2>4. TypeOK'
      BY <2>1, <2>2
    <2>5. AtMostOneCall'
      BY <2>1, <2>2, <2>3
    <2>6. OnePlace'
      BY <2>1, <2>2, <2>3
    <2>7. Found'
      BY <2>1, <2>2, <2>3
    <2> QED BY <2>4, <2>5, <2>6, <2>7
  <1>12. CASE TimerChecksQueue
    <2>1. PICK n \in 0 .. Len(queue) :
            /\ Call({queue[i] : i \in 1 .. n} \cap WithCallback, "timeout")
            /\ queue' = SubSeq(queue, n + 1, Len(queue))
      BY <1>12 DEF TimerChecksQueue
    <2> DEFINE gone == {queue[i] : i \in 1 .. n}
    <2>2. /\ queue' \in Seq(Requests) /\ Distinct(queue')
          /\ Elems(queue') = Elems(queue) \ gone
      BY <2>1, Dropping
    <2>3. gone \subseteq Elems(queue)
      BY LenProperties DEF Elems
    <2> HIDE DEF gone
    <2>4. /\ calls' = [r \in Requests |-> IF r \in gone \cap WithCallback
                                            THEN calls[r] + 1 ELSE calls[r]]
          /\ result' = [r \in Requests |-> IF r \in gone \cap WithCallback
                                             THEN "timeout" ELSE result[r]]
          /\ tpc' = "idle" /\ expired' = {}
          /\ UNCHANGED <<pending, age, wpc, hand, peer, canceling, sent,
                         cancelled, missed, forgotten>>
      BY <1>12, <2>1 DEF TimerChecksQueue, Call, gone
    <2>5. /\ \A r \in gone : calls[r] = 0 /\ calls'[r] <= 1
          /\ \A r \in gone : ShouldWait(r) => calls'[r] = 1
          /\ \A r \in Requests \ gone : calls'[r] = calls[r]
      BY <2>3, <2>4 DEF ShouldWait
    <2>6. TypeOK'
      BY <2>2, <2>4
    <2>7. AtMostOneCall'
      BY <2>4, <2>5
    <2>8. OnePlace'
      BY <2>2, <2>3, <2>4, <2>5
    <2>9. Found'
      BY <2>2, <2>3, <2>4, <2>5
    <2> QED BY <2>6, <2>7, <2>8, <2>9
  <1>13. CASE UNCHANGED vars
    BY <1>13 DEF vars
  <1> QED
    BY <1>1, <1>2, <1>3, <1>4, <1>5, <1>6, <1>7, <1>8, <1>9, <1>10, <1>11,
       <1>12, <1>13
    DEF Next, WriterStep, TimerStep

-----------------------------------------------------------------------------
(* Theorems                                                                *)

LEMMA RequestsInvariant == Spec => []RequestsInv
  BY RequestsInit, RequestsNext, PTL DEF Spec

\* Every variable of Requests keeps its type.
THEOREM RequestsTypes == Spec => []TypeOK
  <1>1. RequestsInv => TypeOK
    BY DEF RequestsInv
  <1> QED BY <1>1, RequestsInvariant, PTL

\* No callback given to send_packet is called twice, although the reading
\* thread and two scans of the timer thread call it.
THEOREM CalledAtMostOnce == Spec => []AtMostOneCall
  <1>1. RequestsInv => AtMostOneCall
    BY DEF RequestsInv
  <1> QED BY <1>1, RequestsInvariant, PTL

\* A request that waits for a response is always where the timer or the
\* writing thread will find it, unless it was concluded, cancelled or lost
\* with the writing thread.
THEOREM NothingIsForgotten == Spec => []NoRequestForgotten
  <1>1. RequestsInv => NoRequestForgotten
    BY DEF RequestsInv, Found
  <1> QED BY <1>1, RequestsInvariant, PTL

\* No response can come in before its request is registered.
THEOREM AnswersFindRequests == Spec => []AnswerableIsRegistered
  <1>1. RequestsInv => AnswerableIsRegistered
    BY DEF RequestsInv, Found
  <1> QED BY <1>1, RequestsInvariant, PTL
-----------------------------------------------------------------------------
(* Refinement of CallOutcome                                               *)

\* What was cancelled in time, or forgotten, is in no place from which it
\* could still be concluded.
Settled ==
  /\ cancelled \cup forgotten \subseteq sent /\ missed \subseteq cancelled
  /\ canceling # None =>
       canceling \in sent \ cancelled /\ canceling \notin Elems(queue)
  /\ \A r \in forgotten \cup (cancelled \ missed) :
       /\ r \notin pending /\ r \notin Elems(queue)
       /\ wpc = "popped" => hand # r

OutcomeInv == RequestsInv /\ Settled

LEMMA SettledInit == Init => Settled
  <1> SUFFICES ASSUME Init PROVE Settled
    OBVIOUS
  <1> QED  BY DEF Init, Settled

\* Every step keeps what is settled as it is.
LEMMA SettledNext == OutcomeInv /\ [Next]_vars => Settled'
  <1> SUFFICES ASSUME OutcomeInv, [Next]_vars PROVE Settled'
    OBVIOUS
  <1>0. \A r : InQueue(r) <=> r \in Elems(queue)
    BY DEF InQueue, Elems
  <1> USE <1>0, NoneAssumption
      DEF OutcomeInv, Settled, RequestsInv, TypeOK, OnePlace,
          histVars, writerVars, timerVars
  <1>1. ASSUME NEW r \in Requests, Send(r) PROVE Settled'
    <2>1. r \notin Elems(queue)
      BY <1>1 DEF Send
    <2>2. Elems(queue') = Elems(queue) \cup {r}
      BY <1>1, <2>1, Appending DEF Send
    <2> QED  BY <1>1, <2>2 DEF Send
  <1>2. ASSUME NEW r \in Requests, CancelQueued(r) PROVE Settled'
    <2>1. CASE InQueue(r)
      <3>1. PICK i \in 1 .. Len(queue) :
              /\ queue[i] = r
              /\ queue' = SubSeq(queue, 1, i - 1)
                            \o SubSeq(queue, i + 1, Len(queue))
        BY <1>2, <2>1 DEF CancelQueued
      <3>2. Elems(queue') = Elems(queue) \ {r}
        BY <3>1, Removing
      <3> QED  BY <1>2, <3>2 DEF CancelQueued
    <2>2. CASE ~InQueue(r)
      BY <1>2, <2>2 DEF CancelQueued
    <2> QED  BY <2>1, <2>2
  <1>3. ASSUME NEW r \in Requests, ReaderGetsResponse(r) PROVE Settled'
    BY <1>3 DEF ReaderGetsResponse
  <1>4. CASE CancelRegistered
    BY <1>4 DEF CancelRegistered
  <1>5. CASE WriterPops
    <2>1. hand' \in Elems(queue) /\ Elems(queue') = Elems(queue) \ {hand'}
      BY <1>5, Popping DEF WriterPops
    <2> QED  BY <1>5, <2>1 DEF WriterPops
  <1>6. CASE WriterRegisters
    BY <1>6 DEF WriterRegisters
  <1>7. CASE WriterCommits \/ WriterEnds \/ Restart
    BY <1>7 DEF WriterCommits, WriterEnds, Restart
  <1>8. CASE SecondPasses
    BY <1>8 DEF SecondPasses
  <1>9. CASE TimerChecksRegistered
    BY <1>9 DEF TimerChecksRegistered
  <1>10. CASE TimerChecksQueue
    <2>1. PICK n \in 0 .. Len(queue) : queue' = SubSeq(queue, n + 1, Len(queue))
      BY <1>10 DEF TimerChecksQueue
    <2>2. Elems(queue') \subseteq Elems(queue)
      BY <2>1, Dropping
    <2> QED  BY <1>10, <2>2 DEF TimerChecksQueue
  <1>11. CASE UNCHANGED vars
    BY <1>11 DEF vars
  <1> QED
    BY <1>1, <1>2, <1>3, <1>4, <1>5, <1>6, <1>7, <1>8, <1>9, <1>10, <1>11
    DEF Next, WriterStep, TimerStep

\* The outcome of a request is set once: what has none gets one.
LEMMA Concluding ==
  ASSUME NEW S \in SUBSET Requests, NEW c \in Outcome!Conclusions,
         \A r \in S : Status(r) = "open",
         \A r \in Requests : Status(r)' = IF r \in S THEN c ELSE Status(r)
  PROVE  Outcome!Conclude
  BY DEF Outcome!Conclude

\* A step that calls the callbacks of some open requests.
LEMMA CallConcludes ==
  ASSUME NEW S \in SUBSET Requests, NEW what \in {"response", "timeout"},
         OutcomeInv, Call(S, what),
         UNCHANGED <<sent, cancelled, missed, forgotten>>,
         \A r \in S : r \in pending \/ r \in Elems(queue)
  PROVE  Outcome!Conclude
  <1>1. \A r \in S : /\ r \in sent /\ calls[r] = 0 /\ r \notin forgotten
                     /\ r \notin cancelled \ missed
    BY DEF OutcomeInv, Settled, RequestsInv, OnePlace
  <1>2. \A r \in S : Status(r) = "open"
    BY <1>1 DEF Status
  <1>3. /\ \A r \in S : calls'[r] = 1 /\ result'[r] = what
        /\ \A r \in Requests \ S :
             calls'[r] = calls[r] /\ result'[r] = result[r]
    BY <1>1 DEF Call
  <1>4. ASSUME NEW r \in Requests
        PROVE  Status(r)' = IF r \in S THEN what ELSE Status(r)
    <2>1. CASE r \in S
      BY <1>1, <1>3, <2>1 DEF Status
    <2>2. CASE r \notin S
      BY <1>3, <2>2 DEF Status
    <2> QED  BY <2>1, <2>2
  <1>5. what \in Outcome!Conclusions
    BY DEF Outcome!Conclusions
  <1> QED  BY <1>2, <1>4, <1>5, Concluding

\* A step that no caller notices.
LEMMA StatusStays ==
  ASSUME UNCHANGED <<sent, calls, result, cancelled, missed, forgotten>>
  PROVE  UNCHANGED [r \in Requests |-> Status(r)]
  BY DEF Status

LEMMA OutcomeStep ==
  ASSUME OutcomeInv, [Next]_vars
  PROVE  [Outcome!Next]_([r \in Requests |-> Status(r)])
  <1> USE DEF Outcome!Next
  <1>1. ASSUME NEW r \in Requests, Send(r)
        PROVE  Outcome!Open(r)
    <2>1. r \notin sent /\ sent' = sent \cup {r}
          /\ UNCHANGED <<calls, result, cancelled, missed, forgotten>>
      BY <1>1 DEF Send
    <2>2. calls[r] = 0 /\ r \notin cancelled /\ r \notin forgotten
      BY <2>1 DEF OutcomeInv, Settled, RequestsInv, OnePlace
    <2>3. Status(r) = "unsent" /\ Status(r)' = "open"
      BY <2>1, <2>2 DEF Status
    <2>4. \A q \in Requests \ {r} : Status(q)' = Status(q)
      BY <2>1 DEF Status
    <2> QED  BY <2>3, <2>4 DEF Outcome!Open
  <1>2. ASSUME NEW r \in Requests, CancelQueued(r)
        PROVE  UNCHANGED [q \in Requests |-> Status(q)]
    BY <1>2, StatusStays DEF CancelQueued, histVars
  <1>3. ASSUME NEW r \in Requests, ReaderGetsResponse(r)
        PROVE  Outcome!Conclude
    <2>1. {r} \in SUBSET Requests
      OBVIOUS
    <2> QED  BY <1>3, <2>1, CallConcludes DEF ReaderGetsResponse
  <1>4. ASSUME CancelRegistered PROVE Outcome!Conclude
    <2> DEFINE r == canceling
               S == IF calls[r] = 0 /\ r \notin forgotten
                       /\ ~(wpc = "popped" /\ hand = r) THEN {r} ELSE {}
    <2>1. /\ r \in sent \ cancelled /\ r \in Requests
          /\ cancelled' = cancelled \cup {r}
          /\ missed' = IF wpc = "popped" /\ hand = r
                         THEN missed \cup {r} ELSE missed
          /\ UNCHANGED <<sent, calls, result, forgotten>>
      BY <1>4
      DEF CancelRegistered, OutcomeInv, Settled, RequestsInv, TypeOK
    <2>2. r \notin missed /\ calls[r] \in Nat
      BY <2>1 DEF OutcomeInv, Settled, RequestsInv, TypeOK
    <2> HIDE DEF r
    <2>3. \A q \in S : Status(q) = "open"
      BY <2>1, <2>2 DEF Status
    <2>4. ASSUME NEW q \in Requests
          PROVE  Status(q)' = IF q \in S THEN "cancelled" ELSE Status(q)
      <3>1. CASE q # r
        BY <2>1, <3>1 DEF Status
      <3>2. CASE q = r
        BY <2>1, <2>2, <3>2 DEF Status
      <3> QED  BY <3>1, <3>2
    <2>5. S \in SUBSET Requests /\ "cancelled" \in Outcome!Conclusions
      BY <2>1 DEF Outcome!Conclusions
    <2> HIDE DEF S
    <2> QED  BY <2>3, <2>4, <2>5, Concluding
  <1>5. ASSUME WriterEnds PROVE Outcome!Conclude
    <2> DEFINE S == IF wpc = "popped" THEN {hand} ELSE {}
    <2>1. /\ forgotten' = forgotten \cup S
          /\ UNCHANGED <<sent, calls, result, cancelled, missed>>
      BY <1>5 DEF WriterEnds
    <2>2. \A q \in S : /\ q \in Requests /\ q \in sent /\ calls[q] = 0
                       /\ q \notin forgotten /\ q \notin cancelled \ missed
      BY DEF OutcomeInv, Settled, RequestsInv, TypeOK, OnePlace
    <2> HIDE DEF S
    <2>3. \A q \in S : Status(q) = "open"
      BY <2>2 DEF Status
    <2>4. ASSUME NEW q \in Requests
          PROVE  Status(q)' = IF q \in S THEN "forgotten" ELSE Status(q)
      <3>1. CASE q \in S
        BY <2>1, <2>2, <3>1 DEF Status
      <3>2. CASE q \notin S
        BY <2>1, <3>2 DEF Status
      <3> QED  BY <3>1, <3>2
    <2>5. S \in SUBSET Requests /\ "forgotten" \in Outcome!Conclusions
      BY <2>2 DEF Outcome!Conclusions
    <2> QED  BY <2>3, <2>4, <2>5, Concluding
  <1>6. CASE TimerChecksRegistered
    <2>1. pending \cap Elapsed \in SUBSET Requests
      BY DEF OutcomeInv, RequestsInv, TypeOK
    <2> QED
      BY <1>6, <2>1, CallConcludes DEF TimerChecksRegistered
  <1>7. CASE TimerChecksQueue
    <2>1. PICK n \in 0 .. Len(queue) :
            Call({queue[i] : i \in 1 .. n} \cap WithCallback, "timeout")
      BY <1>7 DEF TimerChecksQueue
    <2> DEFINE S == {queue[i] : i \in 1 .. n} \cap WithCallback
    <2>2. S \in SUBSET Requests /\ S \subseteq Elems(queue)
      BY WithCallbackAssumption, LenProperties
      DEF OutcomeInv, RequestsInv, TypeOK, Elems
    <2>3. UNCHANGED <<sent, cancelled, missed, forgotten>>
      BY <1>7 DEF TimerChecksQueue
    <2> HIDE DEF S
    <2>4. Call(S, "timeout")
      BY <2>1 DEF S
    <2> QED  BY <2>2, <2>3, <2>4, CallConcludes
  <1>8. CASE WriterStep \/ Restart \/ SecondPasses
    BY <1>8, StatusStays
    DEF WriterStep, WriterPops, WriterRegisters, WriterCommits, Restart,
        SecondPasses, histVars
  <1>9. CASE UNCHANGED vars
    BY <1>9, StatusStays DEF vars
  <1> QED
    BY <1>1, <1>2, <1>3, <1>4, <1>5, <1>6, <1>7, <1>8, <1>9
    DEF Next, TimerStep

\* Whatever becomes of a request becomes of it once: for any number of
\* requests, Requests implements what send_packet promises its caller.
THEOREM OutcomeIsFinal == Spec => ImplementsOutcome
  <1>1. Init => Outcome!Init
    BY DEF Init, Outcome!Init, Status
  <1>2. OutcomeInv /\ [Next]_vars => OutcomeInv'
    BY RequestsNext, SettledNext DEF OutcomeInv
  <1>3. Init => OutcomeInv
    BY RequestsInit, SettledInit DEF OutcomeInv
  <1>4. OutcomeInv /\ [Next]_vars
          => [Outcome!Next]_([r \in Requests |-> Status(r)])
    BY OutcomeStep
  <1> QED
    BY <1>1, <1>2, <1>3, <1>4, PTL DEF Spec, ImplementsOutcome, Outcome!Spec

=============================================================================
