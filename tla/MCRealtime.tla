----------------------------- MODULE MCRealtime -----------------------------
(* Realtime for TLC.                                                           *)
EXTENDS Realtime, TLC

CONSTANTS u1, u2

ActorOf == [a \in Action |-> u1]

Symmetry == Permutations(Tab) \cup Permutations(Page)
=============================================================================
