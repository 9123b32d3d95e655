---------------------------- MODULE MCRunnerPool ----------------------------
(* Small instances of RunnerPool for TLC.                                  *)
EXTENDS RunnerPool, TLC

OneRepo  == {"repo"}
RepoOfMC == [j \in Jobs |-> "repo"]

Symmetry == Permutations(Jobs) \cup Permutations(Runners)
=============================================================================
