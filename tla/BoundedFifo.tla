----------------------------- MODULE BoundedFifo -----------------------------
(***************************************************************************)
(* What one direction of a connection promises to its two ends: packets go *)
(* in whole at one end and come out whole, once and in the same order at   *)
(* the other, and never occupy more than Capacity cells between them.      *)
(***************************************************************************)
EXTENDS Integers, Sequences

CONSTANTS Capacity, Packets, Size

VARIABLES
  items,    \* the packets written and not yet read, oldest first
  used      \* the cells they occupy

Init == items = <<>> /\ used = 0

Put(p) ==
  /\ used + Size[p] <= Capacity
  /\ items' = Append(items, p)
  /\ used' = used + Size[p]

Get ==
  /\ items # <<>>
  /\ items' = Tail(items)
  /\ used' = used - Size[Head(items)]

Next == Get \/ \E p \in Packets : Put(p)

Spec == Init /\ [][Next]_<<items, used>>

=============================================================================
