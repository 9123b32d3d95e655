------------------------------ MODULE MCPortal ------------------------------
(* Small instances of Portal for TLC.                                      *)
EXTENDS Portal, TLC

Symmetry == Permutations(Users) \cup Permutations(Slots) \cup Permutations(Requests)
=============================================================================
