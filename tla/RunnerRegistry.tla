--------------------------- MODULE RunnerRegistry ---------------------------
(***************************************************************************)
(* The GitHub-side sweep of the reconciler (sweepGitHubGhostRunners in     *)
(* internal/reconciler/reconciler.go): it deregisters the runners GitHub   *)
(* still has on file under this instance's name prefix although no active  *)
(* row stands for them.  It runs in a goroutine of its own, over the whole *)
(* pool engine: the active rows are read once for all the repositories,    *)
(* each repository's runners are listed, its active rows are read again,   *)
(* and the ghosts that are left are deleted one call at a time.            *)
(***************************************************************************)
EXTENDS RunnerPool

VARIABLES
  registered, \* runners of ours that GitHub has on file
  sweep,      \* "idle", "repos", "recheck" or "delete"
  todo,       \* repositories the sweep has not visited yet
  known,      \* the active rows read at its start
  ghosts      \* runners of the current repository it means to delete

sweepVars    == <<sweep, todo, known, ghosts>>
registryVars == <<registered, sweepVars>>

RegistryInit ==
  /\ Init
  /\ registered = {} /\ sweep = "idle" /\ todo = {} /\ known = {} /\ ghosts = {}

RepoOfRunner(r) == RepoOf[rowJob[r]]

----------------------------------------------------------------------------
(* A runner registers when its container is up; GitHub takes an ephemeral  *)
(* one off its file after its job.  One whose container vanished stays.    *)
Register(r) ==
  /\ r \in containers \ registered /\ ~Assigned(r)
  /\ registered' = registered \cup {r}
  /\ UNCHANGED sweepVars

Deregister(r) ==
  /\ r \in registered /\ Exiting(r)
  /\ registered' = registered \ {r}
  /\ UNCHANGED sweepVars

----------------------------------------------------------------------------
(* Mutant: only the repositories with an active row are visited.           *)
StartSweepActiveReposOnly ==
  /\ Listening /\ sweep = "idle" /\ mapped # {}
  /\ todo' = mapped \cap {RepoOfRunner(r) : r \in ActiveRunners}
  /\ known' = ActiveRunners
  /\ sweep' = IF todo' = {} THEN "idle" ELSE "repos"
  /\ UNCHANGED <<registered, ghosts>>

(* ListAllInstallationRepos and ListActiveRunners; the failure of either   *)
(* ends the sweep.                                                         *)
StartSweep ==
  /\ Listening /\ sweep = "idle" /\ mapped # {}
  /\ todo' = mapped /\ known' = ActiveRunners
  /\ sweep' = "repos"
  /\ UNCHANGED <<registered, ghosts>>

NextRepo == /\ sweep' = IF todo' = {} THEN "idle" ELSE "repos"
            /\ known' = IF todo' = {} THEN {} ELSE known

(* ListRepoRunners: whatever is neither known nor busy is a candidate ...   *)
ListAnswered(p) ==
  /\ p \in installed
  /\ ghosts' = {r \in registered \ known : RepoOfRunner(r) = p /\ ~Working(r)}
  /\ IF ghosts' = {} THEN NextRepo ELSE sweep' = "recheck" /\ UNCHANGED known

(* ... and no token or no answer skips the repository.                     *)
ListSkipped(p) ==
  /\ p \notin installed \/ "apiError" \in Env
  /\ NextRepo /\ UNCHANGED ghosts

ListRunners(p) ==
  /\ Listening /\ sweep = "repos" /\ p \in todo
  /\ todo' = todo \ {p}
  /\ ListAnswered(p) \/ ListSkipped(p)
  /\ UNCHANGED registered

(* Mutant: the candidates are deleted on the strength of the first read.   *)
RecheckNothing ==
  /\ Listening /\ sweep = "recheck"
  /\ sweep' = "delete"
  /\ UNCHANGED <<registered, todo, known, ghosts>>

(* activeRunnerNames: a row may have been inserted since the first read; a *)
(* failure skips the repository.                                           *)
Recheck ==
  /\ Listening /\ sweep = "recheck"
  /\ \/ ghosts' = ghosts \ ActiveRunners
     \/ "storeError" \in Env /\ ghosts' = {}
  /\ UNCHANGED <<registered, todo>>
  /\ IF ghosts' = {} THEN NextRepo ELSE sweep' = "delete" /\ UNCHANGED known

(* DeleteRepoRunner: a runner that is gone already counts as deleted.      *)
DeleteGhost(r) ==
  /\ Listening /\ sweep = "delete" /\ r \in ghosts
  /\ ghosts' = ghosts \ {r}
  /\ \/ registered' = registered \ {r}
     \/ "apiError" \in Env /\ UNCHANGED registered
  /\ UNCHANGED todo
  /\ IF ghosts' = {} THEN NextRepo ELSE UNCHANGED <<sweep, known>>

SweepStep ==
  \/ StartSweep \/ Recheck
  \/ \E p \in Repos : ListRunners(p)
  \/ \E r \in Runners : DeleteGhost(r)

----------------------------------------------------------------------------
(* GitHub gives jobs only to the runners it has on file, and a name the    *)
(* registry or the sweep still mentions is not generated again.            *)
Consistent ==
  /\ \A j \in Jobs : ghRunner'[j] # ghRunner[j] => ghRunner'[j] \in registered \cup {Foreign}
  /\ \A r \in registered \cup known \cup ghosts :
       row[r] # "starting" => row'[r] # "starting"

(* The sweep ends with the context of the reconciler.                      *)
PoolStep ==
  /\ Next /\ Consistent
  /\ UNCHANGED registered
  /\ IF phase' = "up" THEN UNCHANGED sweepVars
     ELSE sweep' = "idle" /\ todo' = {} /\ known' = {} /\ ghosts' = {}

RegistryNext ==
  \/ PoolStep
  \/ SweepStep /\ UNCHANGED vars
  \/ (\E r \in Runners : Register(r) \/ Deregister(r)) /\ UNCHANGED vars

RegistrySpec == RegistryInit /\ [][RegistryNext]_<<vars, registryVars>>

(* The sweep comes round every five minutes and GitHub's API does not fail *)
(* for ever; the tick, the dispatch in flight, docker and the end of a job *)
(* are as fair as RunnerPool has them.                                     *)
RegistryFairSpec ==
  /\ RegistrySpec
  /\ WF_<<vars, registryVars>>(SweepStep /\ UNCHANGED vars)
  /\ \A p \in Repos :
       SF_<<vars, registryVars>>(ListRunners(p) /\ ListAnswered(p) /\ UNCHANGED vars)
  /\ \A r \in Runners :
       SF_<<vars, registryVars>>(DeleteGhost(r) /\ r \notin registered' /\ UNCHANGED vars)
  /\ WF_<<vars, registryVars>>(TickStep /\ PoolStep)
  /\ WF_<<vars, registryVars>>(DispatchStep /\ PoolStep)
  /\ WF_<<vars, registryVars>>((\E r \in Runners : ContainerUp(r)) /\ PoolStep)
  /\ \A j \in Jobs : WF_<<vars, registryVars>>(FinishOnGitHub(j) /\ PoolStep)

----------------------------------------------------------------------------
RegistryTypeOK ==
  /\ registered \subseteq Runners /\ known \subseteq Runners /\ ghosts \subseteq Runners
  /\ todo \subseteq Repos
  /\ sweep \in {"idle", "repos", "recheck", "delete"}

(* A runner that listens for a job or works on one is never deregistered,  *)
(* however late it was launched, listed or reported: the second read of    *)
(* the rows closes the window the first one leaves open.                   *)
DeregisterSparesRunners == sweep = "delete" => ghosts \cap Running = {}

(* Why: once rechecked, no ghost gets back a slot.                         *)
GhostsHoldNoSlot == sweep = "delete" => ghosts \cap Slots = {}

(* A registration whose container is gone does not stay on GitHub's file,  *)
(* even in a repository that has no active row left.                       *)
GhostsDeregistered ==
  \A r \in Runners :
    (r \in registered \ (containers \cup spawned) /\ [](phase = "up" /\ r \notin containers \cup spawned))
      ~> (r \notin registered)
=============================================================================
