----------------------------- MODULE MCWorkdirs -----------------------------
(* Small instances of Workdirs for TLC.                                    *)
EXTENDS Workdirs, TLC

OneRepo  == {"repo"}
RepoOfMC == [j \in Jobs |-> "repo"]
=============================================================================
