--------------------------- MODULE MCServerRegistry ---------------------------
(* Two connections of a server for TLC. *)
EXTENDS ServerRegistry, TLC

CONSTANTS c1, c2

MCConns == {c1, c2}

\* Connections are interchangeable; no property is a liveness property.
MCSymmetry == Permutations(MCConns)
=============================================================================
