--------------------------- MODULE MCMediaPipeline ---------------------------
(* MediaPipeline for TLC: symmetry of the interchangeable identities, for the  *)
(* runs that check safety only.                                               *)
EXTENDS MediaPipeline, TLC

Symmetry == Permutations(Users) \cup Permutations(MediaIds) \cup Permutations(Requests)
              \cup Permutations(Workers)
=============================================================================
