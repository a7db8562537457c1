------------------------------ MODULE Requests ------------------------------
(***************************************************************************)
(* The requests of one connection_t: send_packet and cancel_sending called *)
(* by the application, write_proc taking packets from the queue and        *)
(* registering those that wait for a response, process_packet matching     *)
(* responses, the request timeout timer, and the stop() and start() of a   *)
(* client that reconnects, which keep the queue and the registered         *)
(* requests.  How packets travel is Channel's subject: here a committed    *)
(* packet reaches the peer, which may answer at any time, and more than    *)
(* once.                                                                   *)
(*                                                                         *)
(* waiting_for_sending_packets_mutex and                                   *)
(* waiting_for_response_requests_mutex make each action below one step;    *)
(* what the code does under two mutexes, one after the other, is two       *)
(* actions.  Packet ids are taken to be distinct: see PacketId.            *)
(***************************************************************************)
EXTENDS Integers, Sequences

CONSTANTS
  Requests,      \* packets given to send_packet, each with its own packet id
  WithCallback,  \* those with a callback
  Timeout,       \* their timeout_secs
  None,          \* no request
  WriterMayEnd   \* the writing thread may leave its loop, the client restart

ASSUME WithCallbackAssumption == WithCallback \subseteq Requests
ASSUME TimeoutAssumption == Timeout \in [Requests -> Nat]
ASSUME NoneAssumption == None \notin Requests
ASSUME WriterMayEndAssumption == WriterMayEnd \in BOOLEAN

VARIABLES
  queue,       \* waiting_for_sending_packets
  pending,     \* the keys of waiting_for_response_requests
  age,         \* whole seconds since begin_time, counted up to Timeout
  wpc,         \* the writing thread
  hand,        \* pack_buf and req of the writing thread
  peer,        \* packets committed in this session, which the peer may answer
  tpc,         \* the timer thread inside on_request_timeout_check_timer
  expired,     \* what its now, read once, says of every request
  canceling,   \* the request between the two halves of cancel_sending
  sent,        \* history: requests given to send_packet
  calls,       \* history: how often the callback was called
  result,      \* history: what it was called with
  cancelled,   \* history: requests whose cancel_sending has returned
  missed,      \* history: those that were then in the writer's hand
  forgotten    \* history: requests that ended with the writing thread

histVars == <<sent, calls, result, cancelled, missed, forgotten>>
writerVars == <<wpc, hand, peer>>
timerVars == <<tpc, expired>>
vars == <<queue, pending, age, wpc, hand, peer, tpc, expired, canceling,
          sent, calls, result, cancelled, missed, forgotten>>

\* request_t::should_wait_for_response
ShouldWait(r) == r \in WithCallback /\ Timeout[r] # 0

InQueue(r) == \E i \in 1 .. Len(queue) : queue[i] = r

Init ==
  /\ queue = <<>> /\ pending = {} /\ age = [r \in Requests |-> 0]
  /\ wpc = "fetch" /\ hand = None /\ peer = {}
  /\ tpc = "idle" /\ expired = {} /\ canceling = None
  /\ sent = {} /\ calls = [r \in Requests |-> 0]
  /\ result = [r \in Requests |-> "none"]
  /\ cancelled = {} /\ missed = {} /\ forgotten = {}

\* The callbacks of the requests in S are called.
Call(S, what) ==
  /\ calls' = [r \in Requests |-> IF r \in S THEN calls[r] + 1 ELSE calls[r]]
  /\ result' = [r \in Requests |-> IF r \in S THEN what ELSE result[r]]

-----------------------------------------------------------------------------
(* The application                                                         *)

Send(r) ==
  /\ r \notin sent
  /\ sent' = sent \cup {r}
  /\ queue' = Append(queue, r)
  /\ UNCHANGED <<pending, age, writerVars, timerVars, canceling, calls,
                 result, cancelled, missed, forgotten>>

\* First half of cancel_sending: erase from the queue.
CancelQueued(r) ==
  /\ canceling = None /\ r \in sent \ cancelled
  /\ canceling' = r
  /\ IF InQueue(r)
       THEN \E i \in 1 .. Len(queue) :
              /\ queue[i] = r
              /\ queue' = SubSeq(queue, 1, i - 1)
                            \o SubSeq(queue, i + 1, Len(queue))
       ELSE queue' = queue
  /\ UNCHANGED <<pending, age, writerVars, timerVars, histVars>>

\* Faulty: only the queue is searched.
CancelQueuedOnly ==
  /\ canceling # None
  /\ cancelled' = cancelled \cup {canceling}
  /\ missed' = IF wpc = "popped" /\ hand = canceling
                 THEN missed \cup {hand} ELSE missed
  /\ canceling' = None
  /\ UNCHANGED <<queue, pending, age, writerVars, timerVars, sent, calls,
                 result, forgotten>>

\* Second half: erase from the requests waiting for a response.
CancelRegistered ==
  /\ canceling # None
  /\ pending' = pending \ {canceling}
  /\ cancelled' = cancelled \cup {canceling}
  /\ missed' = IF wpc = "popped" /\ hand = canceling
                 THEN missed \cup {hand} ELSE missed
  /\ canceling' = None
  /\ UNCHANGED <<queue, age, writerVars, timerVars, sent, calls, result,
                 forgotten>>

-----------------------------------------------------------------------------
(* write_proc                                                              *)

WriterPops ==
  /\ wpc = "fetch" /\ queue # <<>>
  /\ hand' = Head(queue)
  /\ queue' = Tail(queue)
  /\ wpc' = "popped"
  /\ UNCHANGED <<pending, age, peer, timerVars, canceling, histVars>>

\* Faulty: the packet is committed before its request is registered.
WriterCommitsFirst ==
  /\ wpc = "popped"
  /\ peer' = peer \cup {hand}
  /\ wpc' = "registered"
  /\ UNCHANGED <<queue, pending, age, hand, timerVars, canceling, histVars>>

WriterRegisters ==
  /\ wpc = "popped"
  /\ pending' = IF ShouldWait(hand) THEN pending \cup {hand} ELSE pending
  /\ wpc' = "registered"
  /\ UNCHANGED <<queue, age, hand, peer, timerVars, canceling, histVars>>

WriterCommits ==
  /\ wpc = "registered"
  /\ peer' = peer \cup {hand}
  /\ hand' = None
  /\ wpc' = "fetch"
  /\ UNCHANGED <<queue, pending, age, timerVars, canceling, histVars>>

\* Stopped, or a break out of the loop: what was popped goes with it.
WriterEnds ==
  /\ WriterMayEnd
  /\ wpc \in {"fetch", "popped"}
  /\ forgotten' = IF wpc = "popped" THEN forgotten \cup {hand} ELSE forgotten
  /\ hand' = None
  /\ wpc' = "gone"
  /\ UNCHANGED <<queue, pending, age, peer, timerVars, canceling, sent,
                 calls, result, cancelled, missed>>

\* Faulty: a new session starts with no requests registered.
RestartEmpty ==
  /\ wpc = "gone"
  /\ wpc' = "fetch"
  /\ peer' = {} /\ pending' = {}
  /\ UNCHANGED <<queue, age, hand, timerVars, canceling, histVars>>

\* stop() has joined the threads and start() maps a new control block.
Restart ==
  /\ wpc = "gone"
  /\ wpc' = "fetch"
  /\ peer' = {}
  /\ UNCHANGED <<queue, pending, age, hand, timerVars, canceling, histVars>>

-----------------------------------------------------------------------------
(* process_packet, for a packet that is a response                         *)

\* Faulty: the answered request stays registered.
ReaderGetsAndKeeps(r) ==
  /\ r \in peer /\ r \in pending
  /\ Call({r}, "response")
  /\ UNCHANGED <<queue, pending, age, writerVars, timerVars, canceling, sent,
                 cancelled, missed, forgotten>>

ReaderGetsResponse(r) ==
  /\ r \in peer /\ r \in pending
  /\ Call({r}, "response")
  /\ pending' = pending \ {r}
  /\ UNCHANGED <<queue, age, writerVars, timerVars, canceling, sent,
                 cancelled, missed, forgotten>>

-----------------------------------------------------------------------------
(* on_request_timeout_check_timer                                          *)

SecondPasses ==
  /\ \E r \in sent : age[r] < Timeout[r]
  /\ age' = [r \in Requests |->
               IF r \in sent /\ age[r] < Timeout[r] THEN age[r] + 1 ELSE age[r]]
  /\ UNCHANGED <<queue, pending, writerVars, timerVars, canceling, histVars>>

Elapsed == {r \in Requests : age[r] >= Timeout[r]}

TimerChecksRegistered ==
  /\ tpc = "idle"
  /\ expired' = Elapsed
  /\ Call(pending \cap Elapsed, "timeout")
  /\ pending' = pending \ Elapsed
  /\ tpc' = "queue"
  /\ UNCHANGED <<queue, age, writerVars, canceling, sent, cancelled, missed,
                 forgotten>>

\* Faulty: requests still on the queue do not time out.
TimerSkipsQueue ==
  /\ tpc = "queue"
  /\ tpc' = "idle" /\ expired' = {}
  /\ UNCHANGED <<queue, pending, age, writerVars, canceling, histVars>>

\* The queue is scanned from its front up to the first one not expired.
TimerChecksQueue ==
  /\ tpc = "queue"
  /\ \E n \in 0 .. Len(queue) :
       /\ \A i \in 1 .. n : queue[i] \in expired
       /\ n < Len(queue) => queue[n + 1] \notin expired
       /\ Call({queue[i] : i \in 1 .. n} \cap WithCallback, "timeout")
       /\ queue' = SubSeq(queue, n + 1, Len(queue))
  /\ tpc' = "idle" /\ expired' = {}
  /\ UNCHANGED <<pending, age, writerVars, canceling, sent, cancelled, missed,
                 forgotten>>

-----------------------------------------------------------------------------

WriterStep == WriterPops \/ WriterRegisters \/ WriterCommits
TimerStep == TimerChecksRegistered \/ TimerChecksQueue

Next ==
  \/ \E r \in Requests : Send(r) \/ CancelQueued(r) \/ ReaderGetsResponse(r)
  \/ CancelRegistered
  \/ WriterStep \/ WriterEnds \/ Restart
  \/ SecondPasses \/ TimerStep

\* Time passes, the periodic timer fires, a call of cancel_sending returns,
\* and what is registered is committed under the same lock.  Nobody owes a
\* response, a cancellation or a reconnection, nor the writing thread the room
\* in the buffer that it waits for before it registers.
Fairness ==
  /\ WF_vars(SecondPasses)
  /\ WF_vars(TimerStep)
  /\ WF_vars(WriterCommits)
  /\ WF_vars(CancelRegistered)

Spec == Init /\ [][Next]_vars /\ Fairness

-----------------------------------------------------------------------------
(* Properties                                                              *)

TypeOK ==
  /\ queue \in Seq(Requests)
  /\ pending \subseteq Requests
  /\ age \in [Requests -> Nat]
  /\ wpc \in {"fetch", "popped", "registered", "gone"}
  /\ hand \in Requests \cup {None}
  /\ wpc \in {"popped", "registered"} <=> hand # None
  /\ peer \subseteq Requests
  /\ tpc \in {"idle", "queue"} /\ expired \subseteq Requests
  /\ canceling \in Requests \cup {None}
  /\ sent \subseteq Requests
  /\ calls \in [Requests -> Nat]
  /\ result \in [Requests -> {"none", "response", "timeout"}]
  /\ cancelled \subseteq Requests /\ missed \subseteq Requests
  /\ forgotten \subseteq Requests

\* The callback of send_packet is called at most once, although the reader,
\* the timer (in two places) and the writer race for the request.
AtMostOneCall == \A r \in Requests : calls[r] <= 1

\* A request that waits for a response is, until its callback was called, in
\* a place where the timer or the writer will find it: on the queue, in the
\* writer's hand or registered.  Only cancel_sending and the end of the
\* writing thread with the request in hand take it out of there.
NoRequestForgotten ==
  \A r \in sent :
    \/ ~ShouldWait(r)
    \/ calls[r] = 1 \/ r \in cancelled \cup forgotten \/ canceling = r
    \/ InQueue(r) \/ hand = r \/ r \in pending

\* A response the peer can give finds its request registered: write_proc
\* registers before it commits.
AnswerableIsRegistered ==
  \A r \in peer :
    \/ ~ShouldWait(r)
    \/ calls[r] = 1 \/ r \in cancelled
    \/ r \in pending

\* The life of each request as the caller sees it.  A cancel_sending that
\* found the request in the writer's hand, or already forgotten, did nothing.
Status(r) ==
  CASE r \notin sent -> "unsent"
    [] r \in sent /\ calls[r] > 0 -> result[r]
    [] r \in sent /\ calls[r] = 0 /\ r \in forgotten -> "forgotten"
    [] r \in sent /\ calls[r] = 0 /\ r \in cancelled \ (missed \cup forgotten)
         -> "cancelled"
    [] OTHER -> "open"

Outcome == INSTANCE CallOutcome
             WITH status <- [r \in Requests |-> Status(r)]

\* Each request goes through one conclusion and stays there: no callback
\* after a cancellation that took effect, none after the request was answered.
ImplementsOutcome == Outcome!Spec

\* Every request that waits for a response hears of it or of its absence,
\* across any number of reconnections, unless it was cancelled, lost with the
\* writing thread, or stays for ever in the hand of one that finds no room:
\* the request timeout does not reach it there.
EveryRequestConcludes ==
  \A r \in Requests :
    (r \in sent /\ ShouldWait(r)) ~>
      \/ calls[r] > 0 \/ r \in cancelled \cup forgotten
      \/ [](wpc = "popped" /\ hand = r)

=============================================================================
