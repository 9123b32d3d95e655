------------------------------- MODULE GitHub -------------------------------
(***************************************************************************)
(* The world the pool engine acts on and observes: GitHub's own view of    *)
(* the workflow jobs, the repositories the App is installed on, and the    *)
(* docker daemon with the containers of this instance.  None of it is code *)
(* of this repository; it is modelled from what internal/github,           *)
(* internal/runner and internal/reconciler/docker.go expect of it and from *)
(* the GitHub semantics docs/architecture.md lists.                        *)
(***************************************************************************)
EXTENDS Store

VARIABLES
  gh,         \* GitHub's state of a job; the last two are "completed"
  ghRunner,   \* the runner GitHub assigned the job to
  installed,  \* repos the App is installed on
  spawned,    \* docker run is under way: no container yet
  containers, \* containers docker knows
  settled     \* containers older than the orphan grace

worldVars == <<gh, ghRunner, installed, spawned, containers, settled>>
jobWorld  == <<gh, ghRunner>>
docker    == <<spawned, containers, settled>>

GitHubStates == {"queued", "in_progress"} \cup Outcomes
GitHubDone(j) == gh[j] \in Outcomes

(* The runner has been given its one job: runners are ephemeral.           *)
Assigned(r) == \E j \in Jobs : ghRunner[j] = r
Working(r)  == \E j \in Jobs : ghRunner[j] = r /\ gh[j] = "in_progress"

(* A runner that is, or will be, listening for a job or working on one;    *)
(* one whose job is over is on its way out (docker run --rm).              *)
Exiting(r) == \E j \in Jobs : ghRunner[j] = r /\ GitHubDone(j)
Running == {r \in spawned \cup containers : ~Exiting(r)}

(* A job that GitHub has not queued yet is one whose queued event has not  *)
(* been delivered yet.                                                     *)
WorldInit ==
  /\ gh = [j \in Jobs |-> "queued"]
  /\ ghRunner = [j \in Jobs |-> NoRunner]
  /\ installed = Repos
  /\ spawned = {} /\ containers = {} /\ settled = {}

----------------------------------------------------------------------------
(* GitHub                                                                  *)

Assign(j, r) ==
  /\ gh[j] = "queued"
  /\ gh' = [gh EXCEPT ![j] = "in_progress"]
  /\ ghRunner' = [ghRunner EXCEPT ![j] = r]
  /\ UNCHANGED <<storeVars, installed, docker>>

(* Any listening runner may win any queued job.                            *)
AssignOurs(j, r) == /\ r \in containers /\ ~Assigned(r)
                    /\ Assign(j, r)
AssignForeign(j) == "foreign" \in Env /\ Assign(j, Foreign)

FinishOnGitHub(j) ==
  /\ gh[j] = "in_progress"
  /\ gh' = [gh EXCEPT ![j] = "success"]
  /\ UNCHANGED <<storeVars, ghRunner, installed, docker>>

CancelOnGitHub(j) ==
  /\ "ghCancel" \in Env /\ gh[j] \in {"queued", "in_progress"}
  /\ gh' = [gh EXCEPT ![j] = "cancelled"]
  /\ UNCHANGED <<storeVars, ghRunner, installed, docker>>

Uninstall(p) ==
  /\ "uninstall" \in Env /\ p \in installed
  /\ installed' = installed \ {p}
  /\ UNCHANGED <<storeVars, jobWorld, docker>>

----------------------------------------------------------------------------
(* docker: the container appears some time after docker run was started    *)
(* (an image pull may take minutes), or never.                             *)

ContainerUp(r) ==
  /\ r \in spawned
  /\ spawned' = spawned \ {r}
  /\ containers' = containers \cup {r}
  /\ UNCHANGED <<storeVars, jobWorld, installed, settled>>

SpawnFails(r) ==
  /\ "launchFail" \in Env /\ r \in spawned
  /\ spawned' = spawned \ {r}
  /\ UNCHANGED <<storeVars, jobWorld, installed, containers, settled>>

ContainerExits(r) ==
  /\ r \in containers
  /\ Exiting(r) \/ "containerCrash" \in Env
  /\ containers' = containers \ {r}
  /\ settled' = settled \ {r}
  /\ UNCHANGED <<storeVars, jobWorld, installed, spawned>>

Settle(r) ==
  /\ r \in containers \ settled
  /\ settled' = settled \cup {r}
  /\ UNCHANGED <<storeVars, jobWorld, installed, spawned, containers>>

(* Mutant: the container is stopped being tracked, not stopped.            *)
ForceRemoveNothing(r) == UNCHANGED docker

ForceRemove(r) ==
  /\ containers' = containers \ {r}
  /\ settled' = settled \ {r}
  /\ UNCHANGED spawned
----------------------------------------------------------------------------
WorldTypeOK ==
  /\ gh \in [Jobs -> GitHubStates]
  /\ ghRunner \in [Jobs -> Claimants]
  /\ installed \subseteq Repos
  /\ spawned \subseteq Runners /\ containers \subseteq Runners /\ settled \subseteq Runners
============================================================================
