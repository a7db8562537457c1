------------------------------ MODULE MCChannel ------------------------------
(* Instances of Channel for TLC. *)
EXTENDS Channel, TLC

CONSTANTS p1, p2, p3, p4

\* Sizes that do not divide the capacity, so that packets cross its end.
MCPackets3 == {p1, p2, p3}
MCPackets4 == {p1, p2, p3, p4}
MCSize3 == p1 :> 1 @@ p2 :> 2 @@ p3 :> 3
MCSize4 == p1 :> 1 @@ p2 :> 2 @@ p3 :> 2 @@ p4 :> 3
=============================================================================
