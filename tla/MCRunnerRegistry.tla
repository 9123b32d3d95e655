--------------------------- MODULE MCRunnerRegistry ---------------------------
(* Small instances of RunnerRegistry for TLC.                              *)
EXTENDS RunnerRegistry, TLC

OneRepo  == {"repo"}
RepoOfMC == [j \in Jobs |-> "repo"]

Symmetry == Permutations(Runners)
=============================================================================
