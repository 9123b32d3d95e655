------------------------------- MODULE Store -------------------------------
(***************************************************************************)
(* The SQLite tables the pool engine shares between its goroutines: jobs,  *)
(* runners, installations and installation_repos                           *)
(* (internal/store/sqlite.go, schema.sql).                                 *)
(* Every operator below is one SQL statement, hence one atomic step; the   *)
(* components call them, and a handler that issues two statements is two   *)
(* steps there.                                                            *)
(*                                                                         *)
(* Ages are abstracted to the question the code asks of them: a row is in  *)
(* "aged" once its updated_at is past the threshold that applies to its    *)
(* status, in "young" while its received_at is within                      *)
(* noInstallationCancelAge.                                                *)
(***************************************************************************)
EXTENDS Naturals, FiniteSets

CONSTANTS
  Jobs,      \* workflow job ids
  Runners,   \* container/runner names this instance may generate
  Foreign,   \* a runner registered by someone else
  NoRunner,  \* the empty runner_name
  NoJob,     \* no job at all
  Repos,     \* repositories
  RepoOf,    \* the repository of each job
  Env        \* which optional events of the environment a run explores

ASSUME StoreAssumption ==
  /\ IsFiniteSet(Jobs) /\ IsFiniteSet(Runners)
  /\ Foreign \notin Runners /\ NoRunner \notin Runners /\ Foreign # NoRunner
  /\ NoJob \notin Jobs
  /\ RepoOf \in [Jobs -> Repos]

VARIABLES
  status,     \* jobs.status, "none" when the row does not exist
  conclusion, \* jobs.conclusion
  claimant,   \* jobs.runner_name
  aged,       \* jobs whose updated_at is past the threshold of their status
  young,      \* jobs whose received_at is recent
  row,        \* runners.status, "none" when the row does not exist
  rowJob,     \* the job id embedded in the container name
  overdue,    \* rows whose started_at is past RUNNER_MAX_LIFETIME
  revived,    \* history: rows that left 'finished' other than by a new insert
  mapped,     \* repos present in installation_repos
  installations \* repos whose installation has its row in installations

jobVars    == <<status, conclusion, claimant, aged, young>>
runnerVars == <<row, rowJob, overdue, revived>>
installVars == <<mapped, installations>>
storeVars  == <<jobVars, runnerVars, installVars>>

JobStatuses    == {"none", "pending", "dispatched", "in_progress", "completed"}
Outcomes       == {"success", "cancelled"}
Conclusions    == Outcomes \cup {""}
Claimants      == Runners \cup {Foreign, NoRunner}
RunnerStatuses == {"none", "starting", "busy", "finished"}

Dispatchable(j) == status[j] \in {"pending", "dispatched"}

(* The rows the cap counts: nothing in the code writes 'idle'.             *)
ActiveRunners == {r \in Runners : row[r] \in {"starting", "busy"}}

(* Mutant: runners that got their job are not counted.                     *)
StartingRunnerCount == Cardinality({r \in Runners : row[r] = "starting"})

ActiveRunnerCount == Cardinality(ActiveRunners)

StoreInit ==
  /\ status     = [j \in Jobs |-> "none"]
  /\ conclusion = [j \in Jobs |-> ""]
  /\ claimant   = [j \in Jobs |-> NoRunner]
  /\ aged = {} /\ young = {}
  /\ row     = [r \in Runners |-> "none"]
  /\ rowJob  = [r \in Runners |-> NoJob]
  /\ overdue = {} /\ revived = {}
  /\ mapped = IF "install" \in Env THEN {} ELSE Repos
  /\ installations = mapped

----------------------------------------------------------------------------
(* jobs: every UPDATE also refreshes updated_at.                           *)

UpdateJob(j, s, c, r) ==
  /\ status'     = [status EXCEPT ![j] = s]
  /\ conclusion' = [conclusion EXCEPT ![j] = c]
  /\ claimant'   = [claimant EXCEPT ![j] = r]
  /\ aged' = aged \ {j}
  /\ UNCHANGED young

InsertJobIfNew(j) ==
  IF status[j] = "none"
  THEN /\ status' = [status EXCEPT ![j] = "pending"]
       /\ young' = young \cup {j}
       /\ UNCHANGED <<conclusion, claimant, aged>>
  ELSE UNCHANGED jobVars

MarkJobDispatched(j) ==
  IF Dispatchable(j)
  THEN UpdateJob(j, "dispatched", conclusion[j], claimant[j])
  ELSE UNCHANGED jobVars

(* Mutant: a late in_progress takes a completed row back.                  *)
MarkJobInProgressUnguarded(j, r) ==
  IF status[j] # "none"
  THEN UpdateJob(j, "in_progress", conclusion[j], r)
  ELSE UNCHANGED jobVars

MarkJobInProgress(j, r) ==
  IF Dispatchable(j)
  THEN UpdateJob(j, "in_progress", conclusion[j], r)
  ELSE UNCHANGED jobVars

Completable(j) == status[j] \notin {"none", "completed"}

MarkJobCompleted(j, c) ==
  IF Completable(j)
  THEN UpdateJob(j, "completed", c, claimant[j])
  ELSE UNCHANGED jobVars

CancelJobIfPending(j) ==
  IF Dispatchable(j)
  THEN UpdateJob(j, "completed", "cancelled", claimant[j])
  ELSE UNCHANGED jobVars

RetryJobIfCompleted(j) ==
  IF status[j] = "completed"
  THEN UpdateJob(j, "pending", "", NoRunner)
  ELSE UNCHANGED jobVars

CancelPendingJobsForRepo(p) ==
  LET hit == {j \in Jobs : RepoOf[j] = p /\ Dispatchable(j)}
  IN  /\ status' = [j \in Jobs |-> IF j \in hit THEN "completed" ELSE status[j]]
      /\ conclusion' = [j \in Jobs |-> IF j \in hit THEN "cancelled" ELSE conclusion[j]]
      /\ aged' = aged \ hit
      /\ UNCHANGED <<claimant, young>>

(* Mutant: dispatches whose runner never reported back are not rescued.    *)
PendingJobsWithoutRescue == {j \in Jobs : status[j] = "pending"}

(* What a replay enqueues.                                                 *)
PendingJobs ==
  {j \in Jobs : \/ status[j] = "pending"
                \/ status[j] = "dispatched" /\ j \in aged}

----------------------------------------------------------------------------
(* installations and installation_repos.  The mapping of a repository      *)
(* references the row of its installation, and the database enforces it    *)
(* (PRAGMA foreign_keys): without that row the INSERT fails.  No statement *)
(* deletes a row of installations.                                         *)

UpsertInstallation(p) == installations' = installations \cup {p} /\ UNCHANGED mapped

UpsertRepoInstallation(p) ==
  /\ mapped' = IF p \in installations THEN mapped \cup {p} ELSE mapped
  /\ UNCHANGED installations

RemoveRepoInstallation(p) == mapped' = mapped \ {p} /\ UNCHANGED installations

----------------------------------------------------------------------------
(* runners                                                                 *)

InsertRunner(r, j) ==
  /\ row'    = [row EXCEPT ![r] = "starting"]
  /\ rowJob' = [rowJob EXCEPT ![r] = j]
  /\ overdue' = overdue \ {r}
  /\ revived' = revived \ {r}

(* Both UPDATEs of runners.status, by container name and by runner name:   *)
(* the two names of a row determine each other, and neither statement      *)
(* looks at the status it replaces.                                        *)
UpdateRunnerStatus(r, s) ==
  IF row[r] = "none"
  THEN UNCHANGED runnerVars
  ELSE /\ row' = [row EXCEPT ![r] = s]
       /\ revived' = IF row[r] = "finished" /\ s # "finished"
                     THEN revived \cup {r} ELSE revived
       /\ UNCHANGED <<rowJob, overdue>>

----------------------------------------------------------------------------
(* The clock: a row crosses the threshold its status is subject to -       *)
(* DispatchedReplayAge for 'dispatched', RUNNER_MAX_LIFETIME for           *)
(* 'in_progress' and for an active runner row, noInstallationCancelAge     *)
(* since received_at (read only for a repo without a mapping).             *)

AgeJob(j) ==
  /\ j \notin aged
  /\ \/ status[j] = "dispatched" /\ "age" \in Env
     \/ status[j] = "in_progress" /\ "staleSweep" \in Env
  /\ aged' = aged \cup {j}
  /\ UNCHANGED <<status, conclusion, claimant, young, runnerVars, installVars>>

MatureJob(j) ==
  /\ {"install", "uninstall"} \cap Env # {} /\ j \in young
  /\ young' = young \ {j}
  /\ UNCHANGED <<status, conclusion, claimant, aged, runnerVars, installVars>>

AgeRunner(r) ==
  /\ "lifetime" \in Env /\ r \in ActiveRunners \ overdue
  /\ overdue' = overdue \cup {r}
  /\ UNCHANGED <<jobVars, row, rowJob, revived, installVars>>
----------------------------------------------------------------------------
StoreTypeOK ==
  /\ status \in [Jobs -> JobStatuses]
  /\ conclusion \in [Jobs -> Conclusions]
  /\ claimant \in [Jobs -> Claimants]
  /\ aged \subseteq Jobs /\ young \subseteq Jobs
  /\ row \in [Runners -> RunnerStatuses]
  /\ rowJob \in [Runners -> Jobs \cup {NoJob}]
  /\ overdue \subseteq Runners /\ revived \subseteq Runners
  /\ mapped \subseteq Repos /\ installations \subseteq Repos
============================================================================
