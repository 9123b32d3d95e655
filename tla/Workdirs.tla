------------------------------ MODULE Workdirs ------------------------------
(***************************************************************************)
(* The working directories of the runners (RUNNER_WORKDIR_ROOT): docker    *)
(* creates <root>/<container_name> with the container, the tick removes it *)
(* after every container it retires or removes, and a sweeper of its own   *)
(* goroutine removes what is left over (cleanupRunnerWorkdir and           *)
(* sweepOrphanWorkdirs in internal/reconciler/reconciler.go).  The pool    *)
(* engine runs underneath and knows nothing of it.                         *)
(***************************************************************************)
EXTENDS RunnerPool

VARIABLES
  workdirs, \* directories under the root
  oldDirs,  \* those modified longer ago than workdirGrace
  clearing, \* the directory the tick is about to remove
  entries,  \* what the sweeper's ReadDir returned and it has not looked at
  past,     \* the directories that were past the grace then
  missing   \* the entry it found no container for

sweeperVars == <<entries, past, missing>>
workdirVars == <<workdirs, oldDirs, clearing, sweeperVars>>

WorkdirsInit ==
  /\ Init
  /\ workdirs = {} /\ oldDirs = {} /\ clearing = {}
  /\ entries = {} /\ past = {} /\ missing = {}

----------------------------------------------------------------------------
(* What the tick goes on to clear in a step of the pool engine: the rows   *)
(* it finished for want of a container, the containers it force-removed    *)
(* for their age, whether or not the UPDATE succeeded, and the orphans.    *)
TickClears ==
  LET swept == {r \in rows \ rows' :
                  \/ r \in containers \ containers'
                  \/ r \notin containers \cup alive' /\ row'[r] = "finished"}
  IN swept \cup ((orphans \ orphans') \ containers')

(* The tick looks at the next row once the directory is gone, and a name   *)
(* that left a directory behind is not generated again.                    *)
InOrder ==
  /\ clearing # {} /\ phase' = phase => UNCHANGED tickVars
  /\ \A r \in workdirs \cup entries \cup missing \cup clearing :
       row[r] # "starting" => row'[r] # "starting"

(* A bind mount creates the directory it does not find, and uses the one   *)
(* an earlier attempt of the same launch has left.                         *)
PoolWithWorkdirs ==
  /\ Next /\ InOrder
  /\ workdirs' = workdirs \cup (containers' \ containers)
  /\ UNCHANGED oldDirs
  /\ IF phase' = "down" THEN clearing' = {} /\ entries' = {} /\ past' = {} /\ missing' = {}
     ELSE clearing' = clearing \cup TickClears /\ UNCHANGED sweeperVars

(* Mutant: the modification time is remembered past its directory.         *)
RemoveAllButTime(r) == workdirs' = workdirs \ {r} /\ UNCHANGED oldDirs

RemoveAll(r) == workdirs' = workdirs \ {r} /\ oldDirs' = oldDirs \ {r}

(* cleanupRunnerWorkdir, called by the tick                                *)
TickRemoves(r) ==
  /\ Alive /\ r \in clearing
  /\ clearing' = clearing \ {r}
  /\ RemoveAll(r)
  /\ UNCHANGED sweeperVars

----------------------------------------------------------------------------
(* sweepOrphanWorkdirs, at the start and every five minutes: a directory   *)
(* whose container docker does not know, however the inspect and the       *)
(* removal may be apart, and that was past the grace when the sweep began. *)
ReadWorkdirs ==
  /\ Listening /\ entries = {} /\ missing = {}
  /\ entries' = workdirs /\ past' = oldDirs
  /\ UNCHANGED <<workdirs, oldDirs, clearing, missing>>

(* Mutant: an error of the inspect, or an answer, counts as no container.  *)
InspectNothing(r) ==
  /\ Listening /\ r \in entries /\ missing = {}
  /\ entries' = entries \ {r}
  /\ missing' = {r}
  /\ UNCHANGED <<workdirs, oldDirs, clearing, past>>

(* Mutant: a container docker does not know is taken for a docker error.   *)
InspectKeepsMissing(r) ==
  /\ Listening /\ r \in entries /\ missing = {}
  /\ entries' = entries \ {r}
  /\ UNCHANGED <<workdirs, oldDirs, clearing, past, missing>>

InspectEntry(r) ==
  /\ Listening /\ r \in entries /\ missing = {}
  /\ entries' = entries \ {r}
  /\ \/ r \notin containers /\ missing' = {r}
     \/ (r \in containers \/ "dockerError" \in Env) /\ UNCHANGED missing
  /\ UNCHANGED <<workdirs, oldDirs, clearing, past>>

(* Mutant: the age is taken when the entry's turn comes.                   *)
RemoveOldByNow(r) ==
  /\ Alive /\ r \in missing
  /\ missing' = {}
  /\ IF r \in oldDirs THEN RemoveAll(r) ELSE UNCHANGED <<workdirs, oldDirs>>
  /\ UNCHANGED <<clearing, entries, past>>

RemoveOld(r) ==
  /\ Alive /\ r \in missing
  /\ missing' = {}
  /\ IF r \in past \cap oldDirs THEN RemoveAll(r) ELSE UNCHANGED <<workdirs, oldDirs>>
  /\ UNCHANGED <<clearing, entries, past>>

SweeperStep ==
  ReadWorkdirs \/ \E r \in Runners : InspectEntry(r) \/ RemoveOld(r)

(* The modification time.  A launch comes to an end, retries included,     *)
(* within workdirGrace of its first container.                             *)
PassWorkdirGrace(r) ==
  /\ r \in workdirs \ oldDirs /\ BootedInTime(r)
  /\ oldDirs' = oldDirs \cup {r}
  /\ UNCHANGED <<workdirs, clearing, sweeperVars>>

WorkdirsNext ==
  \/ PoolWithWorkdirs
  \/ (SweeperStep \/ \E r \in Runners : TickRemoves(r) \/ PassWorkdirGrace(r)) /\ UNCHANGED vars

WorkdirsSpec == WorkdirsInit /\ [][WorkdirsNext]_<<vars, workdirVars>>

(* The sweeper has a ticker of its own, and the clock runs.                *)
WorkdirsFairSpec ==
  /\ WorkdirsSpec
  /\ WF_<<vars, workdirVars>>(SweeperStep /\ UNCHANGED vars)
  /\ \A r \in Runners : WF_<<vars, workdirVars>>(PassWorkdirGrace(r) /\ UNCHANGED vars)
----------------------------------------------------------------------------
(* The directories, and what the tick and the sweeper hold, are of this    *)
(* instance's names.                                                       *)
WorkdirsTypeOK ==
  /\ workdirs \subseteq Runners /\ oldDirs \subseteq workdirs
  /\ clearing \subseteq Runners /\ entries \subseteq Runners
  /\ past \subseteq Runners /\ missing \subseteq Runners

(* No container loses the directory it works in: neither the tick, whose   *)
(* removal comes some calls after it looked for the container, nor the     *)
(* sweeper, whose list and inspects are older still, meets a later attempt *)
(* of the same launch.                                                     *)
ContainersKeepWorkdirs == containers \subseteq workdirs

(* What it rests on: a name that is past the grace, or about to be cleared *)
(* is not one a launch may still bring up - unless its runner already has  *)
(* had its job, which a launch does not repeat.                            *)
ClearedIsOver ==
  \A r \in clearing \cup oldDirs \cup (missing \cap past) :
    /\ r \notin spawned /\ (r = name /\ pc \in Launching => Assigned(r))
    /\ r \in clearing \cup (missing \cap past) => r \notin containers

(* Nothing is left behind for good: a directory whose container is gone is *)
(* removed, though nothing but the sweeper may ever look at it again.      *)
WorkdirsSwept ==
  \A r \in Runners :
    (r \in workdirs /\ [](phase = "up" /\ r \notin containers /\ BootedInTime(r)))
      ~> (r \notin workdirs)
=============================================================================
