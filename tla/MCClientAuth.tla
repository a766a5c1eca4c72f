---------------------------- MODULE MCClientAuth ----------------------------
(* ClientAuth for TLC.                                                         *)
EXTENDS ClientAuth, TLC

Symmetry == Permutations(Names) \cup Permutations(Users) \cup Permutations(Tokens)
              \cup Permutations(Requests) \cup Permutations(Pages)
=============================================================================
