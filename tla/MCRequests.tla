----------------------------- MODULE MCRequests -----------------------------
(* Instances of Requests for TLC. *)
EXTENDS Requests, TLC

CONSTANTS long, short, push

MCRequestSet == {long, short, push}

\* A request behind one that waits longer, and a packet without a callback.
MCWithCallback == {long, short}
MCTimeout == long :> 2 @@ short :> 1 @@ push :> 0
=============================================================================
