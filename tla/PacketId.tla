------------------------------ MODULE PacketId ------------------------------
(***************************************************************************)
(* The names of requests (packet.hpp): the generator of sequence numbers,  *)
(* packet_id, and the map of requests that wait for a response, which is   *)
(* keyed by that id and by nothing else.  seq_generator is atomic, but     *)
(* next_seq uses it in three operations, one action each; send_packet is   *)
(* called by any thread.                                                   *)
(*                                                                         *)
(* Half is 2^31: a sequence number has one bit more than packet_id shifts  *)
(* the command by.                                                         *)
(***************************************************************************)
EXTENDS Integers, FiniteSets

CONSTANTS
  Threads,    \* the threads that build request packets
  Cmds,       \* the commands they use
  Half,       \* half of the values of a sequence number
  MaxCalls    \* bound: how many requests are built

\* What is assumed of the constants.
ConstantsOK ==
  /\ IsFiniteSet(Threads)
  /\ Half \in Nat \ {0, 1}
  /\ Cmds \subseteq Nat
  /\ MaxCalls \in Nat

VARIABLES
  gen,        \* seq_generator
  pc,         \* where each thread is in next_seq
  cmd,        \* the command of the request each thread is building
  issued,     \* requests built so far; numbers them
  pending,    \* waiting_for_response_requests: [id, call] pairs
  answers,    \* responses that may still arrive: [cmd, seq, call] records
  met,        \* the callbacks run: [call, answers] pairs
  crowded     \* a thread entered next_seq at the wrap behind another one

vars == <<gen, pc, cmd, issued, pending, answers, met, crowded>>

Modulus == 2 * Half      \* uint32_t
Seqs == 0 .. Modulus - 1

\* Faulty: the command is not shifted.
PacketIdUnshifted(c, s) == c + s

\* id << 31 | seq: the top bit of seq falls on the lowest bit of cmd.
PacketIdOf(c, s) ==
  LET top == s \div Half
      joined == IF top = 1 /\ c % 2 = 0 THEN c + 1 ELSE c
  IN (joined * Half) + (s % Half)

TypeOK ==
  /\ gen \in Seqs
  /\ pc \in [Threads -> {"out", "reset", "increment"}]
  /\ cmd \in [Threads -> Cmds]
  /\ issued \in 0 .. MaxCalls
  /\ pending \subseteq [id : Nat, call : 1 .. MaxCalls]
  /\ answers \subseteq [cmd : Cmds, seq : Seqs, call : 1 .. MaxCalls]
  /\ met \subseteq [call : 1 .. MaxCalls, answers : 1 .. MaxCalls]
  /\ crowded \in BOOLEAN

Init ==
  /\ gen = 0
  /\ pc = [t \in Threads |-> "out"]
  /\ cmd \in [Threads -> Cmds]
  /\ issued = 0
  /\ pending = {}
  /\ answers = {}
  /\ met = {}
  /\ crowded = FALSE

Inside == {t \in Threads : pc[t] # "out"}

\* So close to the end that the threads inside can step over it.
AtWrap == gen + Cardinality(Threads) >= Modulus

-----------------------------------------------------------------------------
\* build_req_packet with sequence number 0: next_seq reads the generator.
Test(t, c) ==
  /\ pc[t] = "out"
  /\ issued + Cardinality(Inside) < MaxCalls
  /\ pc' = [pc EXCEPT ![t] =
              IF gen = Modulus - 1 THEN "reset" ELSE "increment"]
  /\ cmd' = [cmd EXCEPT ![t] = c]
  /\ crowded' = (crowded \/ (Inside # {} /\ AtWrap))
  /\ UNCHANGED <<gen, issued, pending, answers, met>>

Reset(t) ==
  /\ pc[t] = "reset"
  /\ gen' = 0
  /\ pc' = [pc EXCEPT ![t] = "increment"]
  /\ UNCHANGED <<cmd, issued, pending, answers, met, crowded>>

Incremented == (gen + 1) % Modulus

\* waiting_for_response_requests[pack_id] = req, over what was there.
Awaiting(c, s) ==
  {p \in pending : p.id # PacketIdOf(c, s)}
    \cup {[id |-> PacketIdOf(c, s), call |-> issued + 1]}

\* The increment gives the request its number; the writer stores it under
\* its id and sends it, and the peer will answer with the same two numbers.
\* A packet built with number 0 gets another one: in the peer's decoder, so
\* that its answer names no request.
Increment(t) ==
  /\ pc[t] = "increment"
  /\ gen' = Incremented
  /\ pc' = [pc EXCEPT ![t] = "out"]
  /\ issued' = issued + 1
  /\ pending' = Awaiting(cmd[t], gen')
  /\ answers' = IF gen' = 0 THEN answers
                ELSE answers \cup
                  {[cmd |-> cmd[t], seq |-> gen', call |-> issued + 1]}
  /\ UNCHANGED <<cmd, met, crowded>>

\* process_packet: a response runs the callback found under its id.
Respond(a) ==
  LET found == {p \in pending : p.id = PacketIdOf(a.cmd, a.seq)}
  IN /\ answers' = answers \ {a}
     /\ pending' = pending \ found
     /\ met' = met \cup {[call |-> p.call, answers |-> a.call] : p \in found}
     /\ UNCHANGED <<gen, pc, cmd, issued, crowded>>

\* The request is given up; its response may still come.
TimeOut(p) ==
  /\ pending' = pending \ {p}
  /\ UNCHANGED <<gen, pc, cmd, issued, answers, met, crowded>>

Build == \E t \in Threads :
           (\E c \in Cmds : Test(t, c)) \/ Reset(t) \/ Increment(t)

Next ==
  \/ Build
  \/ \E a \in answers : Respond(a)
  \/ \E p \in pending : TimeOut(p)

Spec == Init /\ [][Next]_vars

-----------------------------------------------------------------------------
\* A response runs the callback of the request it answers, or none, as long
\* as the two requests were built fewer than 2^31 - 1 apart and no two
\* threads were inside next_seq when the generator wrapped (packet_id and
\* the map of process_packet; numbers repeat after 2^32 - 1 requests).
AnswersOwnRequest ==
  crowded \/ \A m \in met :
    \/ m.call = m.answers
    \/ m.call - m.answers >= Half - 1
    \/ m.answers - m.call >= Half - 1

\* Two requests that wait at the same time never overwrite each other: of
\* the last 2^31 - 1 requests each one that was not answered or given up is
\* still in the map.  Stated of the step that stores a request: it removes
\* no other request that was built fewer than 2^31 - 1 before it.
StoredBesideOthers ==
  [][\A p \in pending :
       (issued' # issued /\ p \notin pending' /\ ~crowded)
         => issued' - p.call >= Half - 1]_vars

\* 0 asks the constructor of packet for a number: no request is built with
\* it, except when two threads step over the end of the generator together
\* (next_seq; the comparison with UINT_MAX is there for this).
NumbersAreNotZero ==
  [][(issued' # issued /\ ~crowded) => gen' # 0]_vars

\* Requests that are not half the numbers apart are never taken for each
\* other, neither in the map nor by a response.
RequestsAreToldApart ==
  /\ [](TypeOK /\ AnswersOwnRequest)
  /\ StoredBesideOthers
  /\ NumbersAreNotZero

=============================================================================
