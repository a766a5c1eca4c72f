------------------------------ MODULE MCAdmins ------------------------------
(* Admins for TLC.                                                             *)
EXTENDS Admins, TLC

Symmetry == Permutations(Accounts) \cup Permutations(Requests)
=============================================================================
