--------------------------- MODULE Workdirs_proofs ---------------------------
(***************************************************************************)
(* No container loses its working directory, for every value of the        *)
(* constants: what RunnerPool_proofs shows of the pool engine, carried     *)
(* over to the engine with the tick's removals and the sweeper.            *)
(***************************************************************************)
EXTENDS Workdirs, RunnerPool_proofs

USE DEF sweeperVars, workdirVars, vars, processVars, storeVars, jobVars, runnerVars, installVars, worldVars,
        jobWorld, docker, schedulerVars, queueVars, workerVars, handlerVars, reconcilerVars,
        tickVars

LEMMA PoolStepsOnly ==
  ASSUME [WorkdirsNext]_<<vars, workdirVars>>
  PROVE  [Next]_vars
BY DEF WorkdirsNext, PoolWithWorkdirs

LEMMA PoolBehaviour == WorkdirsSpec => Spec
<1>1. WorkdirsInit => Init
  BY DEF WorkdirsInit
<1> QED BY <1>1, PoolStepsOnly, PTL DEF WorkdirsSpec, Spec

----------------------------------------------------------------------------
(* What the pool engine adds to what RunnerPool_proofs says of launches:   *)
(* a name that is about to be launched, or launched again, has not had its *)
(* job yet, and the tick holds rows and orphans in their phases only.      *)

FreshLaunch ==
  /\ Unclaimed
  /\ \A r \in spawned : ~Assigned(r)
  /\ pc \in {"launch", "giveup"} => Unmentioned(name)

TickPhases == (tick # "rows" => rows = {}) /\ (tick # "orphans" => orphans = {})

LEMMA SameFresh ==
  ASSUME FreshLaunch, UNCHANGED <<gh, ghRunner>>,
         spawned' \subseteq spawned, containers' \subseteq containers,
         pc' \in {"launch", "giveup"} => pc \in {"launch", "giveup"} /\ name' = name
  PROVE  FreshLaunch'
BY DEF FreshLaunch, Unclaimed, Unmentioned, Assigned

LEMMA FreshStep ==
  ASSUME TypeOK, LaunchUndisturbed, FreshLaunch, [Next]_vars
  PROVE  FreshLaunch'
<1> USE DEF TypeOK, Idle, Goto
<1>1. CASE SchedulerStep /\ UNCHANGED <<handlerVars, reconcilerVars>>
  <2>1. ASSUME NEW r \in Runners, InsertRow(r)  PROVE FreshLaunch'
    BY <2>1 DEF InsertRow, FreshLaunch, Unclaimed, Unmentioned, Assigned
  <2>2. CASE StartContainer
    BY <2>2 DEF StartContainer, FreshLaunch, Unclaimed, Unmentioned, Assigned
  <2>3. CASE ObserveLaunch
    BY <2>3 DEF ObserveLaunch, FreshLaunch, Unclaimed, Unmentioned, Assigned
  <2> QED BY <1>1, <2>1, <2>2, <2>3, SameFresh
          DEF SchedulerStep, Replay, Receive, CheckCap, CheckInstallation, CheckTruth, Confirm404,
              GiveUp, MarkDispatched, StoreFails, TimerFires, Stop, DrainExpires
<1>2. CASE HandlerStep
  BY <1>2, SameFresh
     DEF HandlerStep, QueuedEvent, InsertJob, EnqueueJob, InProgressEvent, CompletedEvent, RetryJob,
         CancelJob, WriteBusy, WriteFinished, CreatedEvent, AddRepo, AddedEvent, RemovedEvent,
         CancelForRepo, WriteFails
<1>3. CASE ReconcilerStep
  BY <1>3, SameFresh
     DEF ReconcilerStep, ListActive, ListContainers, SweepRow, KeepRow, ForceRemove, RemoveOrphan,
         PassGrace, Settle, ReadStale, CompleteStale
<1>4. CASE WorldStep
  <2>1. UNCHANGED <<pc, name>>  BY <1>4 DEF WorldStep
  <2>2. CASE \E j \in Jobs : FinishOnGitHub(j) \/ CancelOnGitHub(j)
    BY <2>1, <2>2 DEF FinishOnGitHub, CancelOnGitHub, FreshLaunch, Unclaimed, Unmentioned, Assigned, WorldTypeOK
  <2>3. ASSUME NEW j \in Jobs, NEW x, Assign(j, x), x \in containers \/ x = Foreign
        PROVE  FreshLaunch'
    <3>1. /\ gh[j] = "queued" /\ gh' = [gh EXCEPT ![j] = "in_progress"]
          /\ ghRunner' = [ghRunner EXCEPT ![j] = x] /\ UNCHANGED <<spawned, containers>>
      BY <2>3 DEF Assign
    <3>2. Unclaimed'  BY <3>1 DEF FreshLaunch, Unclaimed, WorldTypeOK
    <3>3. \A r \in Runners : r # x /\ ~Assigned(r) => ~Assigned(r)'
      BY <3>1 DEF Assigned, WorldTypeOK
    <3>4. x \notin spawned /\ (pc \in {"launch", "giveup"} => x # name)
      BY <2>3, StoreAssumption
         DEF LaunchUndisturbed, FreshLaunch, Unmentioned, WorldTypeOK, SchedulerTypeOK, Launching
    <3> QED BY <2>1, <3>1, <3>2, <3>3, <3>4
            DEF FreshLaunch, Unmentioned, WorldTypeOK, SchedulerTypeOK, Launching
  <2>4. ASSUME NEW r \in Runners, ContainerUp(r)  PROVE FreshLaunch'
    BY <2>1, <2>4 DEF ContainerUp, FreshLaunch, Unclaimed, Unmentioned, Assigned
  <2> QED BY <1>4, <2>1, <2>2, <2>3, <2>4, SameFresh
          DEF WorldStep, AssignForeign, AssignOurs, Uninstall, SpawnFails, ContainerExits
<1>5. CASE ClockStep
  BY <1>5, SameFresh DEF ClockStep, AgeJob, MatureJob, AgeRunner
<1>6. CASE Crash \/ Exit \/ Restart
  BY <1>6, SameFresh DEF Crash, Exit, ProcessGone, Restart
<1>7. CASE UNCHANGED vars
  BY <1>7, SameFresh
<1> QED BY <1>1, <1>2, <1>3, <1>4, <1>5, <1>6, <1>7 DEF Next

LEMMA PhasesStep ==
  ASSUME TickPhases, [Next]_vars
  PROVE  TickPhases'
<1>1. CASE UNCHANGED tickVars
  BY <1>1 DEF TickPhases
<1>2. CASE ReconcilerStep
  BY <1>1, <1>2
     DEF ReconcilerStep, ListActive, ListContainers, SweepRow, RemoveOrphan, PassGrace, Settle, ReadStale,
         CompleteStale, TickPhases
<1>3. CASE Crash \/ Exit
  BY <1>3 DEF Crash, Exit, ProcessGone, TickPhases
<1> QED BY <1>1, <1>2, <1>3 DEF Next, HandlerStep, WorldStep, ClockStep, Restart

(* How launches and containers go on: a name gets a container by way of a  *)
(* launch, and into a launch by way of an insert.                          *)
WorkerMoves ==
  /\ containers' \subseteq containers \cup spawned
  /\ \A r \in spawned' \ spawned : pc = "launch" /\ r = name
  /\ pc' \in Launching => \/ pc \in Launching /\ name' = name
                          \/ row[name'] # "starting" /\ row'[name'] = "starting"
  /\ \A r \in Runners : Assigned(r) => Assigned(r)'

LEMMA SameWorker ==
  ASSUME containers' \subseteq containers \cup spawned, spawned' \subseteq spawned,
         pc' \in Launching => pc \in Launching /\ name' = name,
         \A r \in Runners : Assigned(r) => Assigned(r)'
  PROVE  WorkerMoves
BY DEF WorkerMoves

LEMMA WorkerStep ==
  ASSUME TypeOK, FreshLaunch, [Next]_vars
  PROVE  WorkerMoves
<1> USE DEF TypeOK, Idle, Goto, Launching
<1>0. ASSUME UNCHANGED ghRunner  PROVE \A r \in Runners : Assigned(r) => Assigned(r)'
  BY <1>0 DEF Assigned
<1>1. CASE SchedulerStep /\ UNCHANGED <<handlerVars, reconcilerVars>>
  <2>1. ASSUME NEW r \in Runners, InsertRow(r)  PROVE WorkerMoves
    BY <1>0, <2>1 DEF InsertRow, InsertRunner, StoreTypeOK, WorkerMoves
  <2>2. CASE StartContainer
    BY <1>0, <2>2 DEF StartContainer, WorkerMoves
  <2> QED BY <1>0, <1>1, <2>1, <2>2, SameWorker
          DEF SchedulerStep, Replay, Receive, CheckCap, CheckInstallation, CheckTruth, Confirm404,
              ObserveLaunch, GiveUp, MarkDispatched, StoreFails, TimerFires, Stop, DrainExpires
<1>2. CASE HandlerStep
  BY <1>0, <1>2, SameWorker
     DEF HandlerStep, QueuedEvent, InsertJob, EnqueueJob, InProgressEvent, CompletedEvent, RetryJob,
         CancelJob, WriteBusy, WriteFinished, CreatedEvent, AddRepo, AddedEvent, RemovedEvent,
         CancelForRepo, WriteFails
<1>3. CASE ReconcilerStep
  BY <1>0, <1>3, SameWorker
     DEF ReconcilerStep, ListActive, ListContainers, SweepRow, KeepRow, ForceRemove, RemoveOrphan,
         PassGrace, Settle, ReadStale, CompleteStale
<1>4. CASE WorldStep
  <2>1. UNCHANGED <<pc, name>>  BY <1>4 DEF WorldStep
  <2>2. ASSUME NEW j \in Jobs, NEW x, Assign(j, x)  PROVE WorkerMoves
    <3>1. ghRunner[j] = NoRunner /\ ghRunner' = [ghRunner EXCEPT ![j] = x] /\ UNCHANGED <<spawned, containers>>
      BY <2>2 DEF Assign, FreshLaunch, Unclaimed
    <3>2. \A r \in Runners : Assigned(r) => Assigned(r)'
      BY <3>1, StoreAssumption DEF Assigned, WorldTypeOK
    <3> QED BY <2>1, <3>1, <3>2, SameWorker
  <2> QED BY <1>0, <1>4, <2>1, <2>2, SameWorker
          DEF WorldStep, AssignForeign, AssignOurs, FinishOnGitHub, CancelOnGitHub, Uninstall,
              ContainerUp, SpawnFails, ContainerExits
<1>5. CASE ClockStep
  BY <1>0, <1>5, SameWorker DEF ClockStep, AgeJob, MatureJob, AgeRunner
<1>6. CASE Crash \/ Exit \/ Restart
  BY <1>0, <1>6, SameWorker DEF Crash, Exit, ProcessGone, Restart
<1>7. CASE UNCHANGED vars
  BY <1>0, <1>7, SameWorker
<1> QED BY <1>1, <1>2, <1>3, <1>4, <1>5, <1>6, <1>7 DEF Next

----------------------------------------------------------------------------
(* The inductive invariant: whatever the tick or the sweeper may go on to  *)
(* remove is a name no launch will bring up.                               *)

Over(r) == r \notin spawned /\ (r = name /\ pc \in Launching => Assigned(r))

Doomed == clearing \cup oldDirs \cup ((missing \cup entries) \cap past)

WorkInv ==
  /\ WorkdirsTypeOK /\ ContainersKeepWorkdirs
  /\ \A r \in Doomed : Over(r)
  /\ \A r \in clearing \cup (missing \cap past) : r \notin containers

(* What a step of the tick leads it to clear is over.                      *)
LEMMA ClearsOver ==
  ASSUME "slowStart" \notin Env, TypeOK, LaunchUndisturbed, OrphansInv, FreshLaunch, TickPhases,
         Next, phase' # "down"
  PROVE  \A r \in TickClears : r \in Runners /\ Over(r)' /\ r \notin containers'
<1> USE DEF TypeOK
<1>1. CASE UNCHANGED <<rows, orphans>>
  BY <1>1 DEF TickClears
<1>2. ASSUME NEW r \in Runners, SweepRow(r)
      PROVE  \A x \in TickClears : x \in Runners /\ Over(x)' /\ x \notin containers'
  <2>1. rows' = rows \ {r} /\ orphans' = orphans /\ UNCHANGED <<spawned, name, pc, ghRunner>>
    BY <1>2 DEF SweepRow, KeepRow, ForceRemove
  <2>2. TickClears \subseteq {r}  BY <2>1 DEF TickClears
  <2>3. CASE r \in containers \ containers'
    <3>1. r \in overdue  BY <1>2, <2>3 DEF SweepRow, KeepRow
    <3>2. Over(r)  BY <2>3, <3>1 DEF LaunchUndisturbed, Over
    <3> QED BY <2>1, <2>2, <2>3, <3>2 DEF Over, Assigned
  <2>4. CASE r \notin containers \cup alive'
    <3>1. BootedInTime(r) /\ containers' = containers
      BY <1>2, <2>4 DEF SweepRow, KeepRow
    <3>2. Over(r)  BY <3>1 DEF BootedInTime, Over
    <3> QED BY <2>1, <2>2, <2>4, <3>1, <3>2 DEF Over, Assigned
  <2> QED BY <2>1, <2>2, <2>3, <2>4 DEF TickClears
<1>3. ASSUME NEW r \in Runners, RemoveOrphan(r)
      PROVE  \A x \in TickClears : x \in Runners /\ Over(x)' /\ x \notin containers'
  <2>1. /\ orphans' = orphans \ {r} /\ r \in orphans /\ rows' = rows
        /\ UNCHANGED <<spawned, name, pc, ghRunner>>
    BY <1>3 DEF RemoveOrphan, ForceRemove
  <2>2. Assigned(r)  BY <2>1 DEF OrphansInv, Exiting, Assigned
  <2>3. Over(r)  BY <2>2 DEF FreshLaunch, Over
  <2> QED BY <2>1, <2>3 DEF TickClears, Over, Assigned
<1>4. CASE ListActive \/ ListContainers
  BY <1>4 DEF ListActive, ListContainers, TickPhases, TickClears
<1>5. CASE ReconcilerStep
  BY <1>1, <1>2, <1>3, <1>4, <1>5 DEF ReconcilerStep, PassGrace, Settle, ReadStale, CompleteStale
<1>6. CASE HandlerStep /\ UNCHANGED reconcilerVars
  BY <1>1, <1>6
<1>7. CASE Crash \/ Exit
  BY <1>7 DEF Crash, Exit, ProcessGone
<1> QED BY <1>1, <1>5, <1>6, <1>7 DEF Next, WorldStep, ClockStep, Restart

LEMMA PoolStepKeeps ==
  ASSUME "slowStart" \notin Env, TypeOK, LaunchUndisturbed, OrphansInv, FreshLaunch, TickPhases,
         WorkInv, PoolWithWorkdirs, TypeOK'
  PROVE  WorkInv'
<1>1. WorkerMoves  BY WorkerStep DEF PoolWithWorkdirs
<1>2. ASSUME NEW r \in Doomed, r \notin clearing => r \in workdirs \cup entries \cup missing
      PROVE  Over(r)'
  <2>1. Over(r) /\ r \in Runners  BY <1>2 DEF WorkInv, WorkdirsTypeOK, Doomed
  <2>2. r \notin spawned'
    BY <1>1, <2>1 DEF WorkerMoves, Over, FreshLaunch, Unmentioned, Launching
  <2>3. row[r] # "starting" => row'[r] # "starting"
    BY <1>2 DEF PoolWithWorkdirs, InOrder
  <2>4. r = name' /\ pc' \in Launching => Assigned(r)'
    BY <1>1, <2>1, <2>3 DEF WorkerMoves, Over
  <2> QED BY <2>2, <2>4 DEF Over
<1>3. \A r \in Doomed : r \notin clearing => r \in workdirs \cup entries \cup missing
  BY DEF WorkInv, WorkdirsTypeOK, Doomed
<1>4. \A r \in Doomed : Over(r)'  BY <1>2, <1>3
<1>5. \A r \in clearing \cup (missing \cap past) : r \notin containers'
  BY <1>1 DEF WorkInv, Doomed, Over, WorkerMoves
<1>6. containers' \subseteq workdirs' /\ workdirs' \subseteq Runners /\ oldDirs' = oldDirs
      /\ workdirs \subseteq workdirs'
  BY DEF PoolWithWorkdirs, WorkInv, ContainersKeepWorkdirs, WorkdirsTypeOK, TypeOK, WorldTypeOK
<1>7. CASE phase' = "down"
  BY <1>4, <1>6, <1>7 DEF PoolWithWorkdirs, WorkInv, WorkdirsTypeOK, ContainersKeepWorkdirs, Doomed
<1>8. CASE phase' # "down"
  <2>1. clearing' = clearing \cup TickClears /\ UNCHANGED sweeperVars /\ Next
    BY <1>8 DEF PoolWithWorkdirs
  <2>2. \A r \in TickClears : r \in Runners /\ Over(r)' /\ r \notin containers'
    BY <1>8, <2>1, ClearsOver
  <2>3. Doomed' \subseteq Doomed \cup TickClears  BY <1>6, <2>1 DEF Doomed
  <2>4. \A r \in Doomed' : Over(r)'  BY <1>4, <2>2, <2>3
  <2>5. \A r \in clearing' \cup (missing' \cap past') : r \notin containers'  BY <1>5, <2>1, <2>2
  <2> QED BY <1>6, <2>1, <2>2, <2>4, <2>5 DEF WorkInv, WorkdirsTypeOK, ContainersKeepWorkdirs
<1> QED BY <1>7, <1>8

LEMMA RemovalKeeps ==
  ASSUME "slowStart" \notin Env, WorkInv, UNCHANGED vars,
         SweeperStep \/ \E r \in Runners : TickRemoves(r) \/ PassWorkdirGrace(r)
  PROVE  WorkInv'
<1>1. \A r : Over(r)' = Over(r)  BY DEF Over, Assigned
<1> USE DEF WorkInv, WorkdirsTypeOK, ContainersKeepWorkdirs, Doomed
<1>2. CASE ReadWorkdirs
  BY <1>1, <1>2 DEF ReadWorkdirs
<1>3. ASSUME NEW r \in Runners, InspectEntry(r)  PROVE WorkInv'
  BY <1>1, <1>3 DEF InspectEntry
<1>4. ASSUME NEW r \in Runners, RemoveOld(r)  PROVE WorkInv'
  BY <1>1, <1>4 DEF RemoveOld, RemoveAll
<1>5. ASSUME NEW r \in Runners, TickRemoves(r)  PROVE WorkInv'
  BY <1>1, <1>5 DEF TickRemoves, RemoveAll
<1>6. ASSUME NEW r \in Runners, PassWorkdirGrace(r)  PROVE WorkInv'
  <2>1. Over(r)  BY <1>6 DEF PassWorkdirGrace, BootedInTime, Over
  <2> QED BY <1>1, <1>6, <2>1 DEF PassWorkdirGrace
<1> QED BY <1>2, <1>3, <1>4, <1>5, <1>6 DEF SweeperStep

LEMMA WorkStep ==
  ASSUME "slowStart" \notin Env, TypeOK, LaunchUndisturbed, OrphansInv, FreshLaunch, TickPhases,
         WorkInv, [WorkdirsNext]_<<vars, workdirVars>>, TypeOK'
  PROVE  WorkInv'
<1>1. CASE PoolWithWorkdirs  BY <1>1, PoolStepKeeps
<1>2. CASE UNCHANGED <<vars, workdirVars>>
  BY <1>2 DEF WorkInv, WorkdirsTypeOK, ContainersKeepWorkdirs, Doomed, Over, Assigned
<1> QED BY <1>1, <1>2, RemovalKeeps DEF WorkdirsNext

(* What is in force in every reachable state.                              *)
LEMMA WorkInvariant ==
  ASSUME "slowStart" \notin Env, "slowTick" \notin Env, "storeError" \notin Env
  PROVE  WorkdirsSpec => []WorkInv
<1>1. Init => FreshLaunch /\ TickPhases
  BY DEF Init, WorldInit, SchedulerInit, ReconcilerInit, FreshLaunch, Unclaimed, TickPhases
<1>2. TypeOK /\ (RunnersHoldSlots /\ LaunchUndisturbed) /\ (FreshLaunch /\ TickPhases) /\ [Next]_vars
        => (FreshLaunch /\ TickPhases)'
  BY FreshStep, PhasesStep
<1>3. Spec => [](FreshLaunch /\ TickPhases)
  BY TypeCorrect, RunnersKeepSlots, <1>1, <1>2, PTL DEF Spec
<1>4. WorkdirsInit => WorkInv
  BY DEF WorkdirsInit, Init, WorldInit, WorkInv, WorkdirsTypeOK, ContainersKeepWorkdirs, Doomed
<1>5. /\ TypeOK /\ TypeOK' /\ (RunnersHoldSlots /\ LaunchUndisturbed) /\ OrphansInv
      /\ (FreshLaunch /\ TickPhases) /\ WorkInv /\ [WorkdirsNext]_<<vars, workdirVars>>
      => WorkInv'
  BY WorkStep
<1> QED BY PoolBehaviour, TypeCorrect, RunnersKeepSlots, OrphansInvariant, <1>3, <1>4, <1>5, PTL DEF WorkdirsSpec

(* The tick and the sweeper handle directories of this instance's names    *)
(* only, whatever fails and however long anything takes; a modification    *)
(* time does not outlive its directory.                                    *)
THEOREM WorkdirsTyped == WorkdirsSpec => []WorkdirsTypeOK
<1> USE DEF WorkdirsTypeOK
<1>1. WorkdirsInit => WorkdirsTypeOK
  BY DEF WorkdirsInit
<1>2. TypeOK /\ TypeOK' /\ WorkdirsTypeOK /\ [WorkdirsNext]_<<vars, workdirVars>>
        => WorkdirsTypeOK'
  <2> SUFFICES ASSUME TypeOK, TypeOK', WorkdirsTypeOK, [WorkdirsNext]_<<vars, workdirVars>>
               PROVE  WorkdirsTypeOK'
    OBVIOUS
  <2>1. CASE PoolWithWorkdirs
    <3>1. TickClears \subseteq Runners /\ containers' \subseteq Runners
      BY DEF TypeOK, ReconcilerTypeOK, WorldTypeOK, TickClears
    <3> QED BY <2>1, <3>1 DEF PoolWithWorkdirs
  <2>2. CASE SweeperStep
    BY <2>2 DEF SweeperStep, ReadWorkdirs, InspectEntry, RemoveOld, RemoveAll
  <2>3. ASSUME NEW r \in Runners, TickRemoves(r) \/ PassWorkdirGrace(r)  PROVE WorkdirsTypeOK'
    BY <2>3 DEF TickRemoves, PassWorkdirGrace, RemoveAll
  <2>4. CASE UNCHANGED <<vars, workdirVars>>
    BY <2>4
  <2> QED BY <2>1, <2>2, <2>3, <2>4 DEF WorkdirsNext
<1> QED BY PoolBehaviour, TypeCorrect, <1>1, <1>2, PTL DEF WorkdirsSpec

(* Neither the tick (cleanupRunnerWorkdir) nor the sweeper                 *)
(* (sweepOrphanWorkdirs) removes the directory of a container, however     *)
(* their lists, inspects and removals interleave with launches, retries,   *)
(* crashes and restarts.                                                   *)
THEOREM WorkdirsStay ==
  ASSUME "slowStart" \notin Env, "slowTick" \notin Env, "storeError" \notin Env
  PROVE  WorkdirsSpec => []ContainersKeepWorkdirs
<1>1. WorkInv => ContainersKeepWorkdirs  BY DEF WorkInv
<1> QED BY WorkInvariant, <1>1, PTL

(* ... because what they may remove is over, and stays so.                 *)
THEOREM RemovedIsOver ==
  ASSUME "slowStart" \notin Env, "slowTick" \notin Env, "storeError" \notin Env
  PROVE  WorkdirsSpec => []ClearedIsOver
<1>1. WorkInv => ClearedIsOver  BY DEF WorkInv, Doomed, Over, ClearedIsOver
<1> QED BY WorkInvariant, <1>1, PTL
=============================================================================
