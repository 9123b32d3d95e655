---------------------------- MODULE JobLifecycle ----------------------------
(***************************************************************************)
(* What the jobs table promises to whoever reads it, whatever the order in *)
(* which the scheduler, the webhooks, the reconciler and the admin write:  *)
(* a row is registered once, is claimed by one runner and keeps it, ends   *)
(* once and keeps the conclusion it ended with, until it is retried, which *)
(* starts it over (docs/architecture.md, "Event handling per               *)
(* workflow_job.action"; the guards of internal/store/sqlite.go).          *)
(***************************************************************************)
CONSTANTS Jobs, NoRunner

VARIABLES status, conclusion, claimant

jobs == <<status, conclusion, claimant>>

Open(j) == status[j] \in {"pending", "dispatched"}

Init ==
  /\ status     = [j \in Jobs |-> "none"]
  /\ conclusion = [j \in Jobs |-> ""]
  /\ claimant   = [j \in Jobs |-> NoRunner]

Register(j) ==
  /\ status[j] = "none"
  /\ status' = [status EXCEPT ![j] = "pending"]
  /\ UNCHANGED <<conclusion, claimant>>

Launch(j) ==
  /\ Open(j)
  /\ status' = [status EXCEPT ![j] = "dispatched"]
  /\ UNCHANGED <<conclusion, claimant>>

Claim(j) ==
  /\ Open(j)
  /\ status' = [status EXCEPT ![j] = "in_progress"]
  /\ claimant'[j] # NoRunner
  /\ claimant' = [claimant EXCEPT ![j] = claimant'[j]]
  /\ UNCHANGED conclusion

(* A repository leaving the installation ends several rows at once.        *)
End(S) ==
  /\ \A j \in S : Open(j) \/ status[j] = "in_progress"
  /\ status' = [j \in Jobs |-> IF j \in S THEN "completed" ELSE status[j]]
  /\ \A j \in S : conclusion'[j] # ""
  /\ conclusion' = [j \in Jobs |-> IF j \in S THEN conclusion'[j] ELSE conclusion[j]]
  /\ UNCHANGED claimant

Retry(j) ==
  /\ status[j] = "completed"
  /\ status'     = [status EXCEPT ![j] = "pending"]
  /\ conclusion' = [conclusion EXCEPT ![j] = ""]
  /\ claimant'   = [claimant EXCEPT ![j] = NoRunner]

Next == \/ \E j \in Jobs : Register(j) \/ Launch(j) \/ Claim(j) \/ Retry(j)
        \/ \E S \in SUBSET Jobs : End(S)

Spec == Init /\ [][Next]_jobs
=============================================================================
