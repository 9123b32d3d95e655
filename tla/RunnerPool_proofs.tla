------------------------- MODULE RunnerPool_proofs -------------------------
(***************************************************************************)
(* Proofs about RunnerPool, for every set of jobs, runners and             *)
(* repositories, every cap, capacity and Env.                              *)
(***************************************************************************)
EXTENDS RunnerPool, FiniteSetTheorems, TLAPS

USE DEF vars, processVars, storeVars, jobVars, runnerVars, installVars, worldVars, jobWorld, docker,
        schedulerVars, queueVars, workerVars, handlerVars, reconcilerVars, tickVars

----------------------------------------------------------------------------
(* The statements of the store keep its types.                             *)

JobStatement(j) ==
  \/ InsertJobIfNew(j) \/ MarkJobDispatched(j) \/ CancelJobIfPending(j)
  \/ RetryJobIfCompleted(j)
  \/ \E c \in Outcomes : MarkJobCompleted(j, c)
  \/ \E r \in Claimants \ {NoRunner} : MarkJobInProgress(j, r)

LEMMA UpdateJobType ==
  ASSUME StoreTypeOK, NEW j \in Jobs, NEW s \in JobStatuses, NEW c \in Conclusions,
         NEW r \in Claimants, UpdateJob(j, s, c, r), UNCHANGED <<runnerVars, installVars>>
  PROVE  StoreTypeOK'
BY DEF StoreTypeOK, UpdateJob

LEMMA JobStatementType ==
  ASSUME StoreTypeOK, NEW j \in Jobs, JobStatement(j), UNCHANGED <<runnerVars, installVars>>
  PROVE  StoreTypeOK'
<1> USE DEF StoreTypeOK, JobStatuses, Conclusions, Outcomes, Claimants, UpdateJob
<1>1. CASE InsertJobIfNew(j)
  BY <1>1 DEF InsertJobIfNew
<1>2. CASE MarkJobDispatched(j)
  BY <1>2 DEF MarkJobDispatched
<1>3. CASE CancelJobIfPending(j)
  BY <1>3 DEF CancelJobIfPending
<1>4. CASE RetryJobIfCompleted(j)
  BY <1>4 DEF RetryJobIfCompleted
<1>5. CASE \E c \in Outcomes : MarkJobCompleted(j, c)
  BY <1>5 DEF MarkJobCompleted
<1>6. CASE \E r \in Claimants \ {NoRunner} : MarkJobInProgress(j, r)
  <2>1. PICK r \in Claimants : MarkJobInProgress(j, r)
    BY <1>6
  <2> QED BY <2>1 DEF MarkJobInProgress
<1> QED BY <1>1, <1>2, <1>3, <1>4, <1>5, <1>6 DEF JobStatement

LEMMA UpdateRunnerStatusType ==
  ASSUME StoreTypeOK, NEW r \in Runners, NEW s \in {"busy", "finished"},
         UpdateRunnerStatus(r, s), UNCHANGED <<jobVars, installVars>>
  PROVE  StoreTypeOK'
BY DEF StoreTypeOK, UpdateRunnerStatus, RunnerStatuses

LEMMA UpsertType ==
  ASSUME StoreTypeOK, NEW p \in Repos, TryUpsert(p), UNCHANGED <<jobVars, runnerVars>>
  PROVE  StoreTypeOK'
BY DEF StoreTypeOK, TryUpsert, UpsertRepoInstallation

LEMMA UnchangedStoreType ==
  ASSUME StoreTypeOK, UNCHANGED storeVars
  PROVE  StoreTypeOK'
BY DEF StoreTypeOK

----------------------------------------------------------------------------
(* The channel.                                                            *)

LEMMA EnqueueType ==
  ASSUME NEW ch \in Seq(Jobs), Len(ch) <= QueueCap, NEW j \in Jobs
  PROVE  Enqueue(ch, j) \in Seq(Jobs) /\ Len(Enqueue(ch, j)) <= QueueCap
BY SchedulerAssumption DEF Enqueue

LEMMA ReplayType ==
  ASSUME NEW ch \in Seq(Jobs), Len(ch) <= QueueCap, ReplayInto(ch)
  PROVE  jobCh' \in Seq(Jobs) /\ Len(jobCh') <= QueueCap
<1>1. IsFiniteSet(PendingJobs) /\ Cardinality(PendingJobs) \in Nat
  <2>1. PendingJobs \in SUBSET Jobs
    BY DEF PendingJobs
  <2> QED BY <2>1, StoreAssumption, FS_Subset, FS_CardinalityType
<1>2. PICK s \in Orders(PendingJobs) :
        LET sent == ch \o s
        IN  jobCh' = IF Len(sent) <= QueueCap THEN sent ELSE SubSeq(sent, 1, QueueCap)
  BY DEF ReplayInto
<1>3. s \in Seq(Jobs)
  BY <1>1, <1>2 DEF Orders, PendingJobs
<1>4. ch \o s \in Seq(Jobs)
  BY <1>3
<1> QED BY <1>2, <1>4, SchedulerAssumption

----------------------------------------------------------------------------
(* Type correctness, one lemma per component.                              *)

LEMMA InitType == Init => TypeOK
<1> SUFFICES ASSUME Init PROVE TypeOK
  OBVIOUS
<1>1. StoreTypeOK
  BY DEF Init, StoreInit, StoreTypeOK, JobStatuses, Conclusions, Claimants, RunnerStatuses
<1>2. WorldTypeOK
  BY DEF Init, WorldInit, WorldTypeOK, GitHubStates, Claimants
<1>3. SchedulerTypeOK
  BY SchedulerAssumption DEF Init, SchedulerInit, SchedulerTypeOK, PCs, Launching
<1>4. HandlersTypeOK /\ ReconcilerTypeOK
  BY DEF Init, WebhooksInit, ReconcilerInit, HandlersTypeOK, ReconcilerTypeOK
<1> QED BY <1>1, <1>2, <1>3, <1>4 DEF TypeOK

LEMMA SchedulerStepType ==
  ASSUME TypeOK, SchedulerStep, UNCHANGED <<handlerVars, reconcilerVars>>
  PROVE  TypeOK'
<1> USE DEF TypeOK, SchedulerTypeOK, PCs, Launching, Idle, Goto, Alive
<1>w. CASE UNCHANGED worldVars /\ StoreTypeOK' /\ SchedulerTypeOK'
  BY <1>w DEF WorldTypeOK, HandlersTypeOK, ReconcilerTypeOK
<1>1. CASE Replay
  BY <1>1, <1>w, ReplayType, UnchangedStoreType DEF Replay
<1>2. CASE Receive
  <2>1. StoreTypeOK' /\ UNCHANGED worldVars
    BY <1>2, UnchangedStoreType DEF Receive
  <2>2. Tail(jobCh) \in Seq(Jobs) /\ Len(Tail(jobCh)) <= QueueCap /\ Head(jobCh) \in Jobs
    BY <1>2, SchedulerAssumption DEF Receive
  <2>3. SchedulerTypeOK'
    BY <1>2, <2>2 DEF Receive
  <2> QED BY <1>w, <2>1, <2>3
<1>3. CASE CheckCap
  BY <1>3, <1>w, SchedulerAssumption, UnchangedStoreType DEF CheckCap
<1>4. CASE CheckInstallation
  <2>1. cur \in Jobs
    BY <1>4 DEF CheckInstallation
  <2>2. StoreTypeOK'
    BY <1>4, <2>1, UnchangedStoreType, JobStatementType
       DEF CheckInstallation, JobStatement, StoreTypeOK
  <2> QED BY <1>4, <1>w, <2>2, SchedulerAssumption DEF CheckInstallation
<1>5. CASE CheckTruth
  <2>1. cur \in Jobs
    BY <1>5 DEF CheckTruth
  <2>2. StoreTypeOK'
    BY <1>5, <2>1, UnchangedStoreType, JobStatementType
       DEF CheckTruth, JobStatement, StoreTypeOK, GitHubDone
  <2> QED BY <1>5, <1>w, <2>2, SchedulerAssumption DEF CheckTruth
<1>6. CASE Confirm404
  <2>1. cur \in Jobs
    BY <1>6 DEF Confirm404
  <2>2. StoreTypeOK'
    BY <1>6, <2>1, UnchangedStoreType, JobStatementType
       DEF Confirm404, JobStatement, StoreTypeOK
  <2> QED BY <1>6, <1>w, <2>2, SchedulerAssumption DEF Confirm404
<1>7. ASSUME NEW r \in Runners, InsertRow(r)  PROVE TypeOK'
  <2>1. cur \in Jobs
    BY <1>7 DEF InsertRow
  <2>2. StoreTypeOK'
    BY <1>7, <2>1 DEF InsertRow, InsertRunner, StoreTypeOK, RunnerStatuses
  <2> QED BY <1>7, <1>w, <2>2, SchedulerAssumption DEF InsertRow
<1>8. CASE StartContainer
  BY <1>8, UnchangedStoreType
     DEF StartContainer, WorldTypeOK, HandlersTypeOK, ReconcilerTypeOK
<1>9. CASE ObserveLaunch
  BY <1>9, <1>w, SchedulerAssumption, UnchangedStoreType DEF ObserveLaunch
<1>10. CASE GiveUp
  BY <1>10, <1>w, UpdateRunnerStatusType, SchedulerAssumption DEF GiveUp
<1>11. CASE MarkDispatched
  <2>1. cur \in Jobs
    BY <1>11 DEF MarkDispatched
  <2>2. StoreTypeOK'
    BY <1>11, <2>1, JobStatementType DEF MarkDispatched, JobStatement, StoreTypeOK
  <2> QED BY <1>11, <1>w, <2>2, SchedulerAssumption DEF MarkDispatched
<1>12. CASE StoreFails
  BY <1>12, <1>w, UnchangedStoreType, SchedulerAssumption DEF StoreFails
<1>13. ASSUME NEW j \in Jobs, TimerFires(j)  PROVE TypeOK'
  BY <1>13, <1>w, EnqueueType, SchedulerAssumption, UnchangedStoreType DEF TimerFires
<1>14. CASE Stop
  BY <1>14, <1>w, UnchangedStoreType DEF Stop
<1>15. CASE DrainExpires
  BY <1>15, UnchangedStoreType, SchedulerAssumption
     DEF DrainExpires, WorldTypeOK, HandlersTypeOK, ReconcilerTypeOK
<1> QED BY <1>1, <1>2, <1>3, <1>4, <1>5, <1>6, <1>7, <1>8, <1>9, <1>10, <1>11, <1>12,
           <1>13, <1>14, <1>15 DEF SchedulerStep

LEMMA HandlerStepType ==
  ASSUME TypeOK, HandlerStep, UNCHANGED reconcilerVars
  PROVE  TypeOK'
<1> USE DEF TypeOK, HandlersTypeOK
<1>w. CASE UNCHANGED <<worldVars, reconcilerVars>>
           /\ StoreTypeOK' /\ SchedulerTypeOK' /\ HandlersTypeOK'
  BY <1>w DEF WorldTypeOK, ReconcilerTypeOK
<1>s. CASE UNCHANGED <<worldVars, schedulerVars, reconcilerVars>>
           /\ StoreTypeOK' /\ HandlersTypeOK'
  BY <1>w, <1>s DEF SchedulerTypeOK
<1>1. ASSUME NEW j \in Jobs, QueuedEvent(j)  PROVE TypeOK'
  <2>1. StoreTypeOK'
    BY <1>1, StoreAssumption, UpsertType DEF QueuedEvent
  <2> QED BY <1>1, <1>s, <2>1 DEF QueuedEvent
<1>2. ASSUME NEW j \in Jobs, InsertJob(j)  PROVE TypeOK'
  <2>1. StoreTypeOK'
    BY <1>2, JobStatementType DEF InsertJob, JobStatement, StoreTypeOK
  <2> QED BY <1>2, <1>s, <2>1 DEF InsertJob
<1>3. ASSUME NEW j \in Jobs, EnqueueJob(j)  PROVE TypeOK'
  <2>1. SchedulerTypeOK'
    BY <1>3, EnqueueType DEF EnqueueJob, SchedulerTypeOK
  <2> QED BY <1>3, <1>w, <2>1, UnchangedStoreType DEF EnqueueJob
<1>4. ASSUME NEW j \in Jobs, InProgressEvent(j)  PROVE TypeOK'
  <2>1. ghRunner[j] \in Claimants \ {NoRunner}
    BY <1>4 DEF InProgressEvent, WorldTypeOK
  <2>2. StoreTypeOK'
    BY <1>4, <2>1, JobStatementType DEF InProgressEvent, JobStatement, StoreTypeOK
  <2> QED BY <1>4, <1>s, <2>2 DEF InProgressEvent
<1>5. ASSUME NEW j \in Jobs, CompletedEvent(j)  PROVE TypeOK'
  <2>1. StoreTypeOK'
    BY <1>5, JobStatementType DEF CompletedEvent, JobStatement, StoreTypeOK, GitHubDone
  <2> QED BY <1>5, <1>s, <2>1 DEF CompletedEvent
<1>6. ASSUME NEW j \in Jobs, RetryJob(j)  PROVE TypeOK'
  <2>1. StoreTypeOK'
    BY <1>6, JobStatementType DEF RetryJob, JobStatement, StoreTypeOK
  <2> QED BY <1>6, <1>s, <2>1 DEF RetryJob
<1>7. ASSUME NEW j \in Jobs, CancelJob(j)  PROVE TypeOK'
  <2>1. StoreTypeOK'
    BY <1>7, JobStatementType DEF CancelJob, JobStatement, StoreTypeOK
  <2> QED BY <1>7, <1>s, <2>1 DEF CancelJob
<1>8. ASSUME NEW r \in Runners, WriteBusy(r)  PROVE TypeOK'
  <2>1. StoreTypeOK'
    BY <1>8, UpdateRunnerStatusType DEF WriteBusy
  <2> QED BY <1>8, <1>s, <2>1 DEF WriteBusy
<1>9. ASSUME NEW r \in Runners, WriteFinished(r)  PROVE TypeOK'
  <2>1. StoreTypeOK'
    BY <1>9, UpdateRunnerStatusType DEF WriteFinished
  <2> QED BY <1>9, <1>s, <2>1 DEF WriteFinished
<1>10. ASSUME NEW p \in Repos, RemovedEvent(p)  PROVE TypeOK'
  <2>1. StoreTypeOK'
    BY <1>10 DEF RemovedEvent, RemoveRepoInstallation, StoreTypeOK
  <2> QED BY <1>10, <1>s, <2>1 DEF RemovedEvent
<1>11. ASSUME NEW p \in Repos, CancelForRepo(p)  PROVE TypeOK'
  <2>1. StoreTypeOK'
    BY <1>11 DEF CancelForRepo, CancelPendingJobsForRepo, StoreTypeOK, JobStatuses,
                 Conclusions, Outcomes
  <2> QED BY <1>11, <1>s, <2>1 DEF CancelForRepo
<1>12. CASE WriteFails
  BY <1>12, <1>s, UnchangedStoreType DEF WriteFails
<1>13. ASSUME NEW p \in Repos, CreatedEvent(p)  PROVE TypeOK'
  <2>1. StoreTypeOK'
    BY <1>13 DEF CreatedEvent, UpsertInstallation, StoreTypeOK
  <2> QED BY <1>13, <1>s, <2>1 DEF CreatedEvent
<1>14. ASSUME NEW p \in Repos, AddRepo(p)  PROVE TypeOK'
  <2>1. StoreTypeOK'
    BY <1>14, UpsertType DEF AddRepo
  <2> QED BY <1>14, <1>s, <2>1 DEF AddRepo
<1>15. ASSUME NEW p \in Repos, AddedEvent(p)  PROVE TypeOK'
  <2>1. StoreTypeOK'
    BY <1>15, UpsertType DEF AddedEvent
  <2> QED BY <1>15, <1>s, <2>1 DEF AddedEvent
<1> QED BY <1>1, <1>2, <1>3, <1>4, <1>5, <1>6, <1>7, <1>8, <1>9, <1>10, <1>11, <1>12,
           <1>13, <1>14, <1>15 DEF HandlerStep

LEMMA ReconcilerStepType ==
  ASSUME TypeOK, ReconcilerStep
  PROVE  TypeOK'
<1> USE DEF TypeOK, ReconcilerTypeOK
<1>w. CASE UNCHANGED <<schedulerVars, handlerVars>>
           /\ StoreTypeOK' /\ WorldTypeOK' /\ ReconcilerTypeOK'
  BY <1>w DEF SchedulerTypeOK, HandlersTypeOK
<1>s. CASE UNCHANGED <<worldVars, schedulerVars, handlerVars>>
           /\ StoreTypeOK' /\ ReconcilerTypeOK'
  BY <1>w, <1>s DEF WorldTypeOK
<1>1. CASE ListActive
  BY <1>1, <1>s, UnchangedStoreType DEF ListActive, ActiveRunners
<1>2. CASE ListContainers
  BY <1>2, <1>s, UnchangedStoreType DEF ListContainers, WorldTypeOK
<1>3. ASSUME NEW r \in Runners, SweepRow(r)  PROVE TypeOK'
  <2>1. StoreTypeOK'
    <3>1. CASE KeepRow(r)
      BY <1>3, <3>1, UnchangedStoreType DEF SweepRow, KeepRow
    <3>2. CASE RetireRow(r)
      BY <1>3, <3>2, UnchangedStoreType, UpdateRunnerStatusType DEF SweepRow, RetireRow
    <3> QED BY <1>3, <3>1, <3>2 DEF SweepRow
  <2>2. WorldTypeOK'
    BY <1>3 DEF SweepRow, KeepRow, ForceRemove, WorldTypeOK
  <2>3. ReconcilerTypeOK'
    BY <1>3 DEF SweepRow, KeepRow
  <2> QED BY <1>3, <1>w, <2>1, <2>2, <2>3 DEF SweepRow
<1>4. ASSUME NEW r \in Runners, RemoveOrphan(r)  PROVE TypeOK'
  <2>1. WorldTypeOK'
    BY <1>4 DEF RemoveOrphan, ForceRemove, WorldTypeOK
  <2> QED BY <1>4, <1>w, <2>1, UnchangedStoreType DEF RemoveOrphan
<1>5. ASSUME NEW r \in Runners, PassGrace(r)  PROVE TypeOK'
  BY <1>5, <1>w, UnchangedStoreType DEF PassGrace, Settle, WorldTypeOK
<1>6. ASSUME NEW j \in Jobs, ReadStale(j)  PROVE TypeOK'
  BY <1>6, <1>s, UnchangedStoreType DEF ReadStale
<1>7. ASSUME NEW j \in Jobs, NEW c \in Outcomes, CompleteStale(j, c)  PROVE TypeOK'
  <2>1. StoreTypeOK'
    BY <1>7, JobStatementType DEF CompleteStale, JobStatement, StoreTypeOK
  <2> QED BY <1>7, <1>s, <2>1 DEF CompleteStale
<1> QED BY <1>1, <1>2, <1>3, <1>4, <1>5, <1>6, <1>7 DEF ReconcilerStep

LEMMA OutsideStepType ==
  ASSUME TypeOK, WorldStep \/ ClockStep
  PROVE  TypeOK'
<1> USE DEF TypeOK, WorldTypeOK
<1>p. CASE UNCHANGED processVars /\ StoreTypeOK' /\ WorldTypeOK'
  BY <1>p DEF SchedulerTypeOK, HandlersTypeOK, ReconcilerTypeOK
<1>1. CASE WorldStep
  <2>0. StoreTypeOK'
    BY <1>1, UnchangedStoreType
       DEF WorldStep, AssignForeign, AssignOurs, Assign, FinishOnGitHub, CancelOnGitHub,
           Uninstall, ContainerUp, SpawnFails, ContainerExits
  <2>1. WorldTypeOK'
    BY <1>1 DEF WorldStep, AssignForeign, AssignOurs, Assign, FinishOnGitHub, CancelOnGitHub,
                Uninstall, ContainerUp, SpawnFails, ContainerExits, GitHubStates, Outcomes,
                Claimants
  <2> QED BY <1>1, <1>p, <2>0, <2>1 DEF WorldStep
<1>2. CASE ClockStep
  <2>1. StoreTypeOK'
    BY <1>2 DEF ClockStep, AgeJob, MatureJob, AgeRunner, StoreTypeOK, ActiveRunners
  <2> QED BY <1>2, <1>p, <2>1 DEF ClockStep
<1> QED BY <1>1, <1>2

LEMMA ProcessStepType ==
  ASSUME TypeOK, Crash \/ Exit \/ Restart
  PROVE  TypeOK'
<1> USE DEF TypeOK
<1>1. CASE ProcessGone
  BY <1>1, SchedulerAssumption, UnchangedStoreType
     DEF ProcessGone, Idle, WorldTypeOK, SchedulerTypeOK, HandlersTypeOK, ReconcilerTypeOK,
         PCs, Launching
<1>2. CASE Restart
  <2>1. jobCh' \in Seq(Jobs) /\ Len(jobCh') <= QueueCap
    <3>1. <<>> \in Seq(Jobs) /\ Len(<<>>) <= QueueCap
      BY SchedulerAssumption
    <3> QED BY <1>2, <3>1, ReplayType DEF Restart
  <2> QED BY <1>2, <2>1, UnchangedStoreType
          DEF Restart, WorldTypeOK, SchedulerTypeOK, HandlersTypeOK, ReconcilerTypeOK
<1> QED BY <1>1, <1>2 DEF Crash, Exit

LEMMA StutterType ==
  ASSUME TypeOK, UNCHANGED vars
  PROVE  TypeOK'
BY DEF TypeOK, StoreTypeOK, WorldTypeOK, SchedulerTypeOK, HandlersTypeOK, ReconcilerTypeOK

(* Every variable keeps its type and the channel its capacity, whatever    *)
(* the scheduler, the handlers, the reconciler and the world do.           *)
THEOREM TypeCorrect == Spec => []TypeOK
<1>1. TypeOK /\ [Next]_vars => TypeOK'
  BY SchedulerStepType, HandlerStepType, ReconcilerStepType, OutsideStepType,
     ProcessStepType, StutterType DEF Next
<1> QED BY InitType, <1>1, PTL DEF Spec

----------------------------------------------------------------------------
(* The cap.  CapRespected alone is not inductive: InsertRow adds a slot,   *)
(* so the room CheckCap saw has to be carried along to it.                 *)

CapInv == CapRespected /\ SlotReserved

LEMMA SlotsFinite ==
  /\ IsFiniteSet(Slots) /\ Cardinality(Slots) \in Nat
  /\ IsFiniteSet(ActiveRunners) /\ Cardinality(Slots) <= Cardinality(ActiveRunners)
<1>1. ActiveRunners \in SUBSET Runners /\ Slots \in SUBSET ActiveRunners
  BY DEF ActiveRunners, Slots
<1>2. IsFiniteSet(ActiveRunners)
  BY <1>1, StoreAssumption, FS_Subset
<1> QED BY <1>1, <1>2, FS_Subset, FS_CardinalityType

LEMMA SameSlots ==
  ASSUME UNCHANGED <<row, revived>>
  PROVE  Slots' = Slots
BY DEF Slots, ActiveRunners

(* A status write gives no slot back to a row that had lost it, and only   *)
(* 'finished' takes one away.                                              *)
LEMMA StatusWriteSlots ==
  ASSUME StoreTypeOK, NEW r \in Runners, NEW s \in {"busy", "finished"},
         UpdateRunnerStatus(r, s)
  PROVE  /\ Slots' \subseteq Slots /\ Slots \ {r} \subseteq Slots'
         /\ s = "busy" => Slots' = Slots
BY DEF StoreTypeOK, RunnerStatuses, UpdateRunnerStatus, Slots, ActiveRunners

LEMMA InsertSlots ==
  ASSUME StoreTypeOK, NEW r \in Runners, NEW j, InsertRunner(r, j)
  PROVE  Slots' = Slots \cup {r}
BY DEF StoreTypeOK, RunnerStatuses, InsertRunner, Slots, ActiveRunners

LEMMA FewerSlots ==
  ASSUME CapInv, Slots' \subseteq Slots, pc' \in Admitted => pc \in Admitted
  PROVE  CapInv'
<1>1. Slots' \in SUBSET Slots
  OBVIOUS
<1>2. Cardinality(Slots') <= Cardinality(Slots) /\ Cardinality(Slots') \in Nat
  BY <1>1, SlotsFinite, FS_Subset, FS_CardinalityType
<1> QED BY <1>2, SlotsFinite, SchedulerAssumption DEF CapInv, CapRespected, SlotReserved

LEMMA CapStep ==
  ASSUME TypeOK, CapInv, [Next]_vars
  PROVE  CapInv'
<1> USE DEF TypeOK, Admitted, Idle, Goto
<1>1. CASE SchedulerStep
  <2>1. CASE Replay \/ Receive \/ StoreFails \/ Stop
    BY <2>1, SameSlots, FewerSlots DEF Replay, Receive, StoreFails, Stop
  <2>2. CASE CheckCap
    <3>1. CASE AtCap
      BY <2>2, <3>1, SameSlots, FewerSlots DEF CheckCap
    <3>2. CASE ~AtCap
      <4>1. Cardinality(Slots) < MaxConcurrentRunners /\ Slots' = Slots
        <5>1. Cardinality(ActiveRunners) \in Nat
          BY SlotsFinite, FS_CardinalityType
        <5> QED BY <2>2, <3>2, <5>1, SlotsFinite, SameSlots, SchedulerAssumption
                DEF CheckCap, AtCap, ActiveRunnerCount
      <4> QED BY <4>1, SlotsFinite, SchedulerAssumption DEF CapInv, CapRespected, SlotReserved
    <3> QED BY <3>1, <3>2
  <2>3. CASE CheckInstallation \/ CheckTruth \/ Confirm404
    BY <2>3, SameSlots, FewerSlots DEF CheckInstallation, CheckTruth, Confirm404
  <2>4. ASSUME NEW r \in Runners, InsertRow(r)  PROVE CapInv'
    <3>1. Cardinality(Slots) < MaxConcurrentRunners
      BY <2>4 DEF InsertRow, CapInv, SlotReserved
    <3>2. Slots' = Slots \cup {r}
      BY <2>4, InsertSlots DEF InsertRow
    <3>3. Cardinality(Slots') <= MaxConcurrentRunners
      <4>1. /\ Cardinality(Slots \cup {r}) \in Nat
            /\ Cardinality(Slots \cup {r}) <= Cardinality(Slots) + 1
        <5>1. /\ IsFiniteSet(Slots \cup {r})
              /\ Cardinality(Slots \cup {r}) =
                   IF r \in Slots THEN Cardinality(Slots) ELSE Cardinality(Slots) + 1
          BY SlotsFinite, FS_AddElement, Zenon
        <5> QED BY <5>1, SlotsFinite
      <4> QED BY <3>1, <3>2, <4>1, SlotsFinite, SchedulerAssumption
    <3> QED BY <2>4, <3>3 DEF InsertRow, CapInv, CapRespected, SlotReserved
  <2>5. CASE StartContainer \/ ObserveLaunch \/ MarkDispatched \/ DrainExpires
    BY <2>5, SameSlots, FewerSlots DEF StartContainer, ObserveLaunch, MarkDispatched, DrainExpires
  <2>6. CASE GiveUp
    BY <2>6, StatusWriteSlots, FewerSlots DEF GiveUp, SchedulerTypeOK, Launching
  <2>7. ASSUME NEW j \in Jobs, TimerFires(j)  PROVE CapInv'
    BY <2>7, SameSlots, FewerSlots DEF TimerFires
  <2> QED BY <1>1, <2>1, <2>2, <2>3, <2>4, <2>5, <2>6, <2>7 DEF SchedulerStep
<1>2. CASE HandlerStep
  <2>1. ASSUME NEW r \in Runners, WriteBusy(r) \/ WriteFinished(r)  PROVE CapInv'
    BY <2>1, StatusWriteSlots, FewerSlots DEF WriteBusy, WriteFinished
  <2>2. ASSUME NEW j \in Jobs,
               QueuedEvent(j) \/ InsertJob(j) \/ EnqueueJob(j) \/ InProgressEvent(j)
                 \/ CompletedEvent(j) \/ RetryJob(j) \/ CancelJob(j)
        PROVE  CapInv'
    BY <2>2, SameSlots, FewerSlots
       DEF QueuedEvent, InsertJob, EnqueueJob, InProgressEvent, CompletedEvent, RetryJob, CancelJob
  <2>3. ASSUME NEW p \in Repos,
               CreatedEvent(p) \/ AddRepo(p) \/ AddedEvent(p) \/ RemovedEvent(p)
                 \/ CancelForRepo(p)
        PROVE  CapInv'
    BY <2>3, SameSlots, FewerSlots
       DEF CreatedEvent, AddRepo, AddedEvent, RemovedEvent, CancelForRepo
  <2>4. CASE WriteFails
    BY <2>4, SameSlots, FewerSlots DEF WriteFails
  <2> QED BY <1>2, <2>1, <2>2, <2>3, <2>4 DEF HandlerStep
<1>3. CASE ReconcilerStep
  <2>1. ASSUME NEW r \in Runners, SweepRow(r)  PROVE CapInv'
    <3>1. Slots' \subseteq Slots
      <4>1. CASE KeepRow(r)
        BY <4>1, SameSlots DEF KeepRow
      <4>2. CASE RetireRow(r)
        BY <4>2, SameSlots, StatusWriteSlots DEF RetireRow
      <4> QED BY <2>1, <4>1, <4>2 DEF SweepRow
    <3> QED BY <2>1, <3>1, FewerSlots DEF SweepRow
  <2>2. CASE ListActive \/ ListContainers
    BY <2>2, SameSlots, FewerSlots DEF ListActive, ListContainers
  <2>3. ASSUME NEW r \in Runners, RemoveOrphan(r) \/ PassGrace(r)  PROVE CapInv'
    BY <2>3, SameSlots, FewerSlots DEF RemoveOrphan, PassGrace, Settle
  <2>4. ASSUME NEW j \in Jobs, ReadStale(j) \/ \E c \in Outcomes : CompleteStale(j, c)
        PROVE  CapInv'
    BY <2>4, SameSlots, FewerSlots DEF ReadStale, CompleteStale
  <2> QED BY <1>3, <2>1, <2>2, <2>3, <2>4 DEF ReconcilerStep
<1>4. CASE WorldStep
  BY <1>4, SameSlots, FewerSlots
     DEF WorldStep, AssignForeign, AssignOurs, Assign, FinishOnGitHub, CancelOnGitHub,
         Uninstall, ContainerUp, SpawnFails, ContainerExits
<1>5. CASE ClockStep
  BY <1>5, SameSlots, FewerSlots DEF ClockStep, AgeJob, MatureJob, AgeRunner
<1>6. CASE Crash \/ Exit \/ Restart
  BY <1>6, SameSlots, FewerSlots DEF Crash, Exit, ProcessGone, Restart
<1>7. CASE UNCHANGED vars
  BY <1>7, SameSlots, FewerSlots
<1> QED BY <1>1, <1>2, <1>3, <1>4, <1>5, <1>6, <1>7 DEF Next

(* The scheduler never has more than MaxConcurrentRunners rows active at a *)
(* time, late 'busy' writes to finished rows apart, although the count it  *)
(* checks is several calls old when it inserts.                            *)
THEOREM CapSafe == Spec => []CapRespected
<1>1. Init => CapInv
  <2> SUFFICES ASSUME Init PROVE CapInv
    OBVIOUS
  <2>1. Slots = {}
    BY DEF Init, StoreInit, Slots, ActiveRunners
  <2> QED BY <2>1, FS_EmptySet, SchedulerAssumption
          DEF Init, SchedulerInit, CapInv, CapRespected, SlotReserved, Admitted
<1>2. CapInv => CapRespected
  BY DEF CapInv
<1> QED BY TypeCorrect, <1>1, <1>2, CapStep, PTL DEF Spec

----------------------------------------------------------------------------
(* Refinement of Semaphore: the inserts acquire, what retires a row        *)
(* releases, everything else stutters.                                     *)

SlotStep == [CapSlots!Next]_Slots

LEMMA SlotStutter ==
  ASSUME UNCHANGED <<row, revived>>
  PROVE  SlotStep
BY SameSlots DEF SlotStep

LEMMA SlotRelease ==
  ASSUME NEW r \in Runners, Slots' \subseteq Slots, Slots \ {r} \subseteq Slots'
  PROVE  SlotStep
<1>1. CASE Slots' = Slots
  BY <1>1 DEF SlotStep
<1>2. CASE Slots' # Slots
  <2>1. CapSlots!Release(r)
    BY <1>2 DEF CapSlots!Release
  <2> QED BY <2>1 DEF SlotStep, CapSlots!Next
<1> QED BY <1>1, <1>2

LEMMA StatusWriteReleases ==
  ASSUME StoreTypeOK, NEW r \in Runners, NEW s \in {"busy", "finished"},
         UpdateRunnerStatus(r, s)
  PROVE  SlotStep
BY StatusWriteSlots, SlotRelease

LEMMA SlotsStep ==
  ASSUME TypeOK, CapInv, [Next]_vars
  PROVE  SlotStep
<1> USE DEF TypeOK
<1>1. CASE SchedulerStep
  <2>1. ASSUME NEW r \in Runners, InsertRow(r)  PROVE SlotStep
    <3>1. Slots' = Slots \cup {r} /\ r \notin Slots
      BY <2>1, InsertSlots DEF InsertRow, Slots, ActiveRunners
    <3>2. Cardinality(Slots) < MaxConcurrentRunners
      BY <2>1 DEF InsertRow, CapInv, SlotReserved, Admitted
    <3>3. CapSlots!Cardinality(Slots) = Cardinality(Slots)
      BY Zenon DEF CapSlots!Cardinality, Cardinality
    <3> QED BY <3>1, <3>2, <3>3 DEF SlotStep, CapSlots!Next, CapSlots!Acquire
  <2>2. CASE GiveUp
    BY <2>2, StatusWriteReleases DEF GiveUp, SchedulerTypeOK, Launching
  <2> QED BY <1>1, <2>1, <2>2, SlotStutter
          DEF SchedulerStep, Replay, Receive, CheckCap, CheckInstallation, CheckTruth,
              Confirm404, StartContainer, ObserveLaunch, MarkDispatched, StoreFails,
              TimerFires, Stop, DrainExpires
<1>2. CASE HandlerStep
  <2>1. ASSUME NEW r \in Runners, WriteBusy(r) \/ WriteFinished(r)  PROVE SlotStep
    BY <2>1, StatusWriteReleases DEF WriteBusy, WriteFinished
  <2> QED BY <1>2, <2>1, SlotStutter
          DEF HandlerStep, QueuedEvent, InsertJob, EnqueueJob, InProgressEvent, CompletedEvent,
              RetryJob, CancelJob, CreatedEvent, AddRepo, AddedEvent, RemovedEvent,
              CancelForRepo, WriteFails
<1>3. CASE ReconcilerStep
  <2>1. ASSUME NEW r \in Runners, SweepRow(r)  PROVE SlotStep
    BY <2>1, SlotStutter, StatusWriteReleases DEF SweepRow, KeepRow, RetireRow
  <2> QED BY <1>3, <2>1, SlotStutter
          DEF ReconcilerStep, ListActive, ListContainers, RemoveOrphan, PassGrace, Settle,
              ReadStale, CompleteStale
<1>4. CASE WorldStep \/ ClockStep \/ Crash \/ Exit \/ Restart \/ UNCHANGED vars
  BY <1>4, SlotStutter
     DEF WorldStep, AssignForeign, AssignOurs, Assign, FinishOnGitHub, CancelOnGitHub,
         Uninstall, ContainerUp, SpawnFails, ContainerExits, ClockStep, AgeJob, MatureJob,
         AgeRunner, Crash, Exit, ProcessGone, Restart
<1> QED BY <1>1, <1>2, <1>3, <1>4 DEF Next

(* The rows that were active ever since their insert implement a counting  *)
(* semaphore of MaxConcurrentRunners places, whatever fails or restarts.   *)
THEOREM ImplementsSemaphore == Spec => CapSlotsSpec
<1>1. Init => CapSlots!Init /\ CapInv
  <2> SUFFICES ASSUME Init PROVE CapSlots!Init /\ CapInv
    OBVIOUS
  <2>1. Slots = {}
    BY DEF Init, StoreInit, Slots, ActiveRunners
  <2> QED BY <2>1, FS_EmptySet, SchedulerAssumption
          DEF Init, SchedulerInit, CapInv, CapRespected, SlotReserved, Admitted, CapSlots!Init
<1>2. TypeOK /\ CapInv /\ [Next]_vars => CapInv' /\ [CapSlots!Next]_Slots
  BY CapStep, SlotsStep DEF SlotStep
<1> QED BY TypeCorrect, <1>1, <1>2, PTL DEF Spec, CapSlotsSpec, CapSlots!Spec

----------------------------------------------------------------------------
(* Running runners.  With BootedInTime (no "slowStart") nobody who listens *)
(* or works has lost its slot, so the cap on slots is a cap on runners.    *)

RunInv == RunnersHoldSlots /\ LaunchUndisturbed

(* Steps that leave the slots alone, start nothing and un-assign nobody.   *)
LEMMA QuietStep ==
  ASSUME RunInv,
         Slots' = Slots, overdue' \subseteq overdue \/ pc' \notin Launching,
         spawned' \subseteq spawned, containers' \subseteq containers,
         \A r : Exiting(r) => Exiting(r)',
         finishWrites' \subseteq finishWrites,
         pc' = "idle" \/ name' = name,
         pc' \in {"launch", "giveup"} =>
           pc \in {"launch", "giveup"} \/ name' \notin spawned \cup containers,
         pc' \in {"launch", "observe"} => pc \in {"launch", "observe"},
         pc' \in Launching => pc \in Launching
  PROVE  RunInv'
<1> USE DEF RunInv, RunnersHoldSlots, LaunchUndisturbed, Running, Launching
<1>1. RunnersHoldSlots'
  OBVIOUS
<1>2. LaunchUndisturbed'
  OBVIOUS
<1> QED BY <1>1, <1>2

LEMMA SameWorld ==
  ASSUME UNCHANGED <<gh, ghRunner>>
  PROVE  \A r : Exiting(r)' = Exiting(r)
BY DEF Exiting, GitHubDone

LEMMA RunStep ==
  ASSUME "slowStart" \notin Env, TypeOK, RunInv, [Next]_vars
  PROVE  RunInv'
<1> USE DEF TypeOK, Idle, Goto, Launching
<1>1. CASE SchedulerStep /\ UNCHANGED <<handlerVars, reconcilerVars>>
  <2>1. CASE Replay \/ Receive \/ CheckCap \/ CheckInstallation \/ CheckTruth \/ Confirm404
             \/ MarkDispatched \/ StoreFails \/ Stop \/ DrainExpires
    <3>1. Slots' = Slots /\ (\A r : Exiting(r)' = Exiting(r))
      BY <2>1, SameSlots, SameWorld
         DEF Replay, Receive, CheckCap, CheckInstallation, CheckTruth, Confirm404,
             MarkDispatched, StoreFails, Stop, DrainExpires
    <3> QED BY <1>1, <2>1, <3>1, QuietStep
            DEF Replay, Receive, CheckCap, CheckInstallation, CheckTruth, Confirm404,
                MarkDispatched, StoreFails, Stop, DrainExpires
  <2>2. CASE \E j \in Jobs : TimerFires(j)
    BY <1>1, <2>2, QuietStep, SameSlots, SameWorld DEF TimerFires
  <2>3. CASE ObserveLaunch
    BY <1>1, <2>3, QuietStep, SameSlots, SameWorld DEF ObserveLaunch, Unmentioned
  <2>4. ASSUME NEW r \in Runners, InsertRow(r)  PROVE RunInv'
    <3>1. Slots' = Slots \cup {r} /\ (\A x : Exiting(x)' = Exiting(x))
      BY <2>4, InsertSlots, SameWorld DEF InsertRow
    <3> QED BY <1>1, <2>4, <3>1
            DEF InsertRow, InsertRunner, Unmentioned, RunInv, RunnersHoldSlots,
                LaunchUndisturbed, Running
  <2>5. CASE StartContainer
    <3>1. Slots' = Slots /\ (\A x : Exiting(x)' = Exiting(x))
      BY <2>5, SameSlots, SameWorld DEF StartContainer
    <3> QED BY <1>1, <2>5, <3>1
            DEF StartContainer, RunInv, RunnersHoldSlots, LaunchUndisturbed, Running
  <2>6. CASE GiveUp
    <3>1. Slots \ {name} \subseteq Slots' /\ (\A x : Exiting(x)' = Exiting(x))
      BY <2>6, StatusWriteSlots, SameWorld DEF GiveUp, SchedulerTypeOK
    <3> QED BY <1>1, <2>6, <3>1
            DEF GiveUp, RunInv, RunnersHoldSlots, LaunchUndisturbed, Running
  <2> QED BY <1>1, <2>1, <2>2, <2>3, <2>4, <2>5, <2>6 DEF SchedulerStep
<1>2. CASE HandlerStep /\ UNCHANGED reconcilerVars
  <2>1. ASSUME NEW r \in Runners, WriteBusy(r)  PROVE RunInv'
    <3>1. Slots' = Slots /\ (\A x : Exiting(x)' = Exiting(x)) /\ overdue' = overdue
      BY <2>1, StatusWriteSlots, SameWorld DEF WriteBusy, UpdateRunnerStatus
    <3> QED BY <2>1, <3>1, QuietStep DEF WriteBusy
  <2>2. ASSUME NEW r \in Runners, WriteFinished(r)  PROVE RunInv'
    <3>1. /\ Slots \ {r} \subseteq Slots' /\ (\A x : Exiting(x)' = Exiting(x))
          /\ overdue' = overdue
      BY <2>2, StatusWriteSlots, SameWorld DEF WriteFinished, UpdateRunnerStatus
    <3> QED BY <2>2, <3>1
            DEF WriteFinished, RunInv, RunnersHoldSlots, LaunchUndisturbed, Running
  <2>3. ASSUME NEW j \in Jobs, CompletedEvent(j)  PROVE RunInv'
    <3>1. Slots' = Slots /\ (\A x : Exiting(x)' = Exiting(x))
      BY <2>3, SameSlots, SameWorld DEF CompletedEvent
    <3>2. Exiting(ghRunner[j])
      BY <2>3 DEF CompletedEvent, Exiting
    <3> QED BY <2>3, <3>1, <3>2
            DEF CompletedEvent, RunInv, RunnersHoldSlots, LaunchUndisturbed, Running
  <2>4. ASSUME NEW j \in Jobs,
               QueuedEvent(j) \/ InsertJob(j) \/ EnqueueJob(j) \/ InProgressEvent(j)
                 \/ RetryJob(j) \/ CancelJob(j)
        PROVE  RunInv'
    BY <2>4, QuietStep, SameSlots, SameWorld
       DEF QueuedEvent, InsertJob, EnqueueJob, InProgressEvent, RetryJob, CancelJob
  <2>5. ASSUME NEW p \in Repos,
               CreatedEvent(p) \/ AddRepo(p) \/ AddedEvent(p) \/ RemovedEvent(p)
                 \/ CancelForRepo(p)
        PROVE  RunInv'
    BY <2>5, QuietStep, SameSlots, SameWorld
       DEF CreatedEvent, AddRepo, AddedEvent, RemovedEvent, CancelForRepo
  <2>6. CASE WriteFails
    BY <2>6, QuietStep, SameSlots, SameWorld DEF WriteFails
  <2> QED BY <1>2, <2>1, <2>2, <2>3, <2>4, <2>5, <2>6 DEF HandlerStep
<1>3. CASE ReconcilerStep
  <2>1. ASSUME NEW r \in Runners, SweepRow(r)  PROVE RunInv'
    <3>1. \A x : Exiting(x)' = Exiting(x)
      BY <2>1, SameWorld DEF SweepRow
    <3>2. CASE KeepRow(r) \/ UNCHANGED <<runnerVars, docker>>
      BY <2>1, <3>1, <3>2, QuietStep, SameSlots DEF SweepRow, KeepRow
    <3>3. CASE /\ UpdateRunnerStatus(r, "finished")
               /\ r \notin containers /\ BootedInTime(r) /\ UNCHANGED docker
      <4>1. /\ Slots \ {r} \subseteq Slots' /\ overdue' = overdue
            /\ r \notin spawned /\ ~(r = name /\ pc \in Launching)
        BY <3>3, StatusWriteSlots DEF UpdateRunnerStatus, BootedInTime
      <4> QED BY <2>1, <3>1, <3>3, <4>1
              DEF SweepRow, RunInv, RunnersHoldSlots, LaunchUndisturbed, Running
    <3>4. CASE r \in containers /\ r \in overdue /\ ForceRemove(r) /\ RetireRow(r)
      <4>1. Slots \ {r} \subseteq Slots' /\ overdue' = overdue
        BY <3>4, StatusWriteSlots, SameSlots DEF RetireRow, UpdateRunnerStatus
      <4> QED BY <2>1, <3>1, <3>4, <4>1
              DEF SweepRow, ForceRemove, RunInv, RunnersHoldSlots, LaunchUndisturbed, Running
    <3> QED BY <2>1, <3>2, <3>3, <3>4 DEF SweepRow, RetireRow
  <2>2. CASE ListActive \/ ListContainers
    BY <2>2, QuietStep, SameSlots, SameWorld DEF ListActive, ListContainers
  <2>3. ASSUME NEW r \in Runners, RemoveOrphan(r) \/ PassGrace(r)  PROVE RunInv'
    BY <2>3, QuietStep, SameSlots, SameWorld DEF RemoveOrphan, ForceRemove, PassGrace, Settle
  <2>4. ASSUME NEW j \in Jobs, ReadStale(j) \/ \E c \in Outcomes : CompleteStale(j, c)
        PROVE  RunInv'
    BY <2>4, QuietStep, SameSlots, SameWorld DEF ReadStale, CompleteStale
  <2> QED BY <1>3, <2>1, <2>2, <2>3, <2>4 DEF ReconcilerStep
<1>4. CASE WorldStep
  <2>1. /\ Slots' = Slots /\ UNCHANGED <<overdue, processVars>>
        /\ \A x : Exiting(x) => Exiting(x)'
    <3>1. Slots' = Slots /\ UNCHANGED <<overdue, processVars>>
      BY <1>4, SameSlots
         DEF WorldStep, AssignForeign, AssignOurs, Assign, FinishOnGitHub, CancelOnGitHub,
             Uninstall, ContainerUp, SpawnFails, ContainerExits
    <3>2. \A j \in Jobs : GitHubDone(j) => ghRunner'[j] = ghRunner[j] /\ GitHubDone(j)'
      BY <1>4
         DEF WorldStep, AssignForeign, AssignOurs, Assign, FinishOnGitHub, CancelOnGitHub,
             Uninstall, ContainerUp, SpawnFails, ContainerExits, GitHubDone, WorldTypeOK,
             Outcomes
    <3> QED BY <3>1, <3>2 DEF Exiting
  <2>2. CASE spawned' \subseteq spawned /\ containers' \subseteq containers
    BY <2>1, <2>2, QuietStep
  <2>3. CASE \E r \in Runners : ContainerUp(r)
    BY <2>1, <2>3 DEF ContainerUp, RunInv, RunnersHoldSlots, LaunchUndisturbed, Running
  <2> QED BY <1>4, <2>2, <2>3
          DEF WorldStep, AssignForeign, AssignOurs, Assign, FinishOnGitHub, CancelOnGitHub,
              Uninstall, SpawnFails, ContainerExits
<1>5. CASE ClockStep
  <2>1. Slots' = Slots /\ \A x : Exiting(x)' = Exiting(x)
    BY <1>5, SameSlots, SameWorld DEF ClockStep, AgeJob, MatureJob, AgeRunner
  <2> QED BY <1>5, <2>1
          DEF ClockStep, AgeJob, MatureJob, AgeRunner, RunInv, RunnersHoldSlots,
              LaunchUndisturbed, Running
<1>6. CASE Crash \/ Exit \/ Restart
  BY <1>6, QuietStep, SameSlots, SameWorld DEF Crash, Exit, ProcessGone, Restart
<1>7. CASE UNCHANGED vars
  BY <1>7, QuietStep, SameSlots, SameWorld
<1> QED BY <1>1, <1>2, <1>3, <1>4, <1>5, <1>6, <1>7 DEF Next

(* Whoever listens or works holds a slot in every reachable state, and no  *)
(* launch is disturbed.                                                    *)
THEOREM RunnersKeepSlots ==
  ASSUME "slowStart" \notin Env
  PROVE  Spec => [](RunnersHoldSlots /\ LaunchUndisturbed)
<1>1. Init => RunInv
  BY DEF Init, StoreInit, WorldInit, SchedulerInit, WebhooksInit, RunInv, RunnersHoldSlots,
         LaunchUndisturbed, Running, Launching
<1>2. TypeOK /\ RunInv /\ [Next]_vars => RunInv'
  BY RunStep
<1> QED BY TypeCorrect, <1>1, <1>2, PTL DEF Spec, RunInv

(* Until a launch is settled nothing but the end of its job retires its    *)
(* row, and a name to be launched (again) has no container: sweeps, late   *)
(* webhooks and restarts leave dispatchWithContext what it relies on.      *)
THEOREM LaunchesKept ==
  ASSUME "slowStart" \notin Env
  PROVE  Spec => []LaunchUndisturbed
<1> QED BY RunnersKeepSlots, PTL

(* However the sweeps, webhooks, launches, crashes and restarts interleave *)
(* there are never more runners listening for or working on jobs than      *)
(* MaxConcurrentRunners, provided a container exists by the time a sweep   *)
(* inspects its row.                                                       *)
THEOREM RunningSafe ==
  ASSUME "slowStart" \notin Env
  PROVE  Spec => []RunningWithinCap
<1>1. RunnersHoldSlots /\ CapRespected => RunningWithinCap
  <2>1. ASSUME Running \in SUBSET Slots  PROVE Cardinality(Running) <= Cardinality(Slots)
                                              /\ Cardinality(Running) \in Nat
    BY <2>1, SlotsFinite, FS_Subset, FS_CardinalityType
  <2> QED BY <2>1, SlotsFinite, SchedulerAssumption
          DEF RunnersHoldSlots, CapRespected, RunningWithinCap
<1> QED BY RunnersKeepSlots, CapSafe, <1>1, PTL

----------------------------------------------------------------------------
(* The orphan sweep.  A container that is past the grace, and that the     *)
(* tick has neither to inspect nor left alive, is on its way out: whoever  *)
(* listened or worked had an active row when the tick read them.           *)

AssignedOnce ==
  \A j, k \in Jobs : ghRunner[j] \in Runners /\ ghRunner[k] = ghRunner[j] => j = k

OrphansInv ==
  /\ settled \subseteq containers /\ AssignedOnce
  /\ tick = "rows" => \A r \in settled \ (rows \cup alive) : Exiting(r)
  /\ \A r \in orphans : Exiting(r)

LEMMA SameSweep ==
  ASSUME OrphansInv, AssignedOnce', \A r : Exiting(r) => Exiting(r)',
         settled' \subseteq settled, settled' \subseteq containers', orphans' \subseteq orphans,
         tick' = "rows" => /\ tick = "rows"
                           /\ \A r \in settled' \ (rows' \cup alive') : r \notin rows \cup alive
  PROVE  OrphansInv'
BY DEF OrphansInv

LEMMA SameAssignments ==
  ASSUME AssignedOnce, UNCHANGED <<gh, ghRunner>>
  PROVE  AssignedOnce' /\ \A r : Exiting(r) => Exiting(r)'
BY SameWorld DEF AssignedOnce

LEMMA OrphansStep ==
  ASSUME "slowTick" \notin Env, "storeError" \notin Env, TypeOK, RunInv, OrphansInv, [Next]_vars
  PROVE  OrphansInv'
<1> USE DEF TypeOK
<1>0. AssignedOnce /\ settled \subseteq containers  BY DEF OrphansInv
<1>1. CASE UNCHANGED <<gh, ghRunner, containers, settled, tick, rows, alive, orphans>>
  BY <1>0, <1>1, SameSweep, SameAssignments
<1>2. CASE SchedulerStep /\ UNCHANGED <<handlerVars, reconcilerVars>>
  BY <1>1, <1>2
     DEF SchedulerStep, Replay, Receive, CheckCap, CheckInstallation, CheckTruth, Confirm404, InsertRow,
         StartContainer, ObserveLaunch, GiveUp, MarkDispatched, StoreFails, TimerFires, Stop, DrainExpires
<1>3. CASE HandlerStep /\ UNCHANGED reconcilerVars
  BY <1>1, <1>3
     DEF HandlerStep, QueuedEvent, InsertJob, EnqueueJob, InProgressEvent, CompletedEvent, RetryJob,
         CancelJob, WriteBusy, WriteFinished, CreatedEvent, AddRepo, AddedEvent, RemovedEvent,
         CancelForRepo, WriteFails
<1>4. CASE ReconcilerStep
  <2>1. CASE ListActive
    <3>1. rows' = ActiveRunners /\ orphans' = orphans /\ UNCHANGED <<gh, ghRunner, containers, settled>>
      BY <2>1 DEF ListActive
    <3>2. \A r \in settled \ ActiveRunners : Exiting(r)
      BY <1>0 DEF RunInv, RunnersHoldSlots, Running, Slots, WorldTypeOK
    <3> QED BY <1>0, <3>1, <3>2, SameWorld, SameAssignments DEF OrphansInv
  <2>2. ASSUME NEW r \in Runners, SweepRow(r)  PROVE OrphansInv'
    <3>1. /\ UNCHANGED <<gh, ghRunner, tick, orphans>> /\ tick = "rows" /\ rows' = rows \ {r}
          /\ settled' \subseteq settled /\ settled' \subseteq containers'
      BY <1>0, <2>2 DEF SweepRow, KeepRow, ForceRemove
    <3>2. alive \subseteq alive' /\ (r \in alive' \/ r \notin settled')
      BY <1>0, <2>2 DEF SweepRow, KeepRow, ForceRemove
    <3> QED BY <1>0, <3>1, <3>2, SameSweep, SameAssignments
  <2>3. CASE ListContainers
    <3>1. /\ orphans' \subseteq settled \ alive /\ rows = {} /\ tick = "rows" /\ tick' # "rows"
          /\ UNCHANGED <<gh, ghRunner, containers, settled>>
      BY <2>3 DEF ListContainers
    <3>2. \A r \in orphans' : Exiting(r)
      BY <3>1 DEF OrphansInv
    <3> QED BY <1>0, <3>1, <3>2, SameWorld, SameAssignments DEF OrphansInv
  <2>4. ASSUME NEW r \in Runners, RemoveOrphan(r)  PROVE OrphansInv'
    <3>1. /\ UNCHANGED <<gh, ghRunner>> /\ orphans' \subseteq orphans /\ tick' # "rows"
          /\ settled' \subseteq settled /\ settled' \subseteq containers'
      BY <1>0, <2>4 DEF RemoveOrphan, ForceRemove
    <3> QED BY <1>0, <3>1, SameSweep, SameAssignments
  <2>5. ASSUME NEW r \in Runners, PassGrace(r)  PROVE OrphansInv'
    <3>1. /\ UNCHANGED <<gh, ghRunner, orphans, containers>> /\ tick' # "rows"
          /\ settled' \subseteq containers'
      BY <1>0, <2>5 DEF PassGrace, Settle
    <3> QED BY <1>0, <3>1, SameWorld, SameAssignments DEF OrphansInv
  <2>6. CASE \E j \in Jobs : ReadStale(j) \/ \E c \in Outcomes : CompleteStale(j, c)
    BY <1>1, <2>6 DEF ReadStale, CompleteStale
  <2> QED BY <1>4, <2>1, <2>2, <2>3, <2>4, <2>5, <2>6 DEF ReconcilerStep
<1>5. CASE WorldStep
  <2>1. UNCHANGED <<tick, rows, alive, orphans>> /\ settled' \subseteq settled /\ settled' \subseteq containers'
    BY <1>0, <1>5
       DEF WorldStep, AssignForeign, AssignOurs, Assign, FinishOnGitHub, CancelOnGitHub,
           Uninstall, ContainerUp, SpawnFails, ContainerExits
  <2>2. \A j \in Jobs : GitHubDone(j) => ghRunner'[j] = ghRunner[j] /\ GitHubDone(j)'
    BY <1>5
       DEF WorldStep, AssignForeign, AssignOurs, Assign, FinishOnGitHub, CancelOnGitHub,
           Uninstall, ContainerUp, SpawnFails, ContainerExits, GitHubDone, WorldTypeOK, Outcomes
  <2>3. \A r : Exiting(r) => Exiting(r)'
    BY <2>2 DEF Exiting
  <2>4. AssignedOnce'
    <3>1. CASE UNCHANGED ghRunner  BY <1>0, <3>1 DEF AssignedOnce
    <3>2. ASSUME NEW j \in Jobs, AssignForeign(j)  PROVE AssignedOnce'
      BY <1>0, <3>2, StoreAssumption DEF AssignForeign, Assign, AssignedOnce, WorldTypeOK
    <3>3. ASSUME NEW j \in Jobs, NEW r \in Runners, AssignOurs(j, r)  PROVE AssignedOnce'
      BY <1>0, <3>3 DEF AssignOurs, Assign, Assigned, AssignedOnce, WorldTypeOK
    <3> QED BY <1>5, <3>1, <3>2, <3>3
            DEF WorldStep, FinishOnGitHub, CancelOnGitHub, Uninstall, ContainerUp, SpawnFails, ContainerExits
  <2> QED BY <2>1, <2>3, <2>4, SameSweep
<1>6. CASE ClockStep  BY <1>1, <1>6 DEF ClockStep, AgeJob, MatureJob, AgeRunner
<1>7. CASE Crash \/ Exit
  BY <1>0, <1>7, SameAssignments DEF Crash, Exit, ProcessGone, OrphansInv
<1>8. CASE Restart  BY <1>1, <1>8 DEF Restart
<1>9. CASE UNCHANGED vars  BY <1>1, <1>9
<1> QED BY <1>2, <1>3, <1>4, <1>5, <1>6, <1>7, <1>8, <1>9 DEF Next

LEMMA OrphansInvariant ==
  ASSUME "slowStart" \notin Env, "slowTick" \notin Env, "storeError" \notin Env
  PROVE  Spec => []OrphansInv
<1>1. Init => OrphansInv
  BY StoreAssumption DEF Init, WorldInit, ReconcilerInit, OrphansInv, AssignedOnce
<1>2. TypeOK /\ (RunnersHoldSlots /\ LaunchUndisturbed) /\ OrphansInv /\ [Next]_vars => OrphansInv'
  BY OrphansStep DEF RunInv
<1> QED BY TypeCorrect, RunnersKeepSlots, <1>1, <1>2, PTL DEF Spec

(* sweepOrphanContainers spares the runners that work, though it works     *)
(* from lists taken before, as long as no list of rows comes back          *)
(* empty for an error, a tick is shorter than the grace and containers are *)
(* up when their rows are inspected.                                       *)
THEOREM OrphanSweepSafe ==
  ASSUME "slowStart" \notin Env, "slowTick" \notin Env, "storeError" \notin Env
  PROVE  Spec => []OrphanSweepSparesWorkers
<1>1. TypeOK /\ OrphansInv => OrphanSweepSparesWorkers
  BY DEF TypeOK, ReconcilerTypeOK, OrphansInv, AssignedOnce, OrphanSweepSparesWorkers, Exiting, Working, GitHubDone, Outcomes
<1> QED BY TypeCorrect, OrphansInvariant, <1>1, PTL

----------------------------------------------------------------------------
(* No second runner.  A row of a pending job belongs to the launch under   *)
(* way, or its launch was given up and nobody runs under its name.         *)

GivenUp(r) == row[r] = "finished" /\ Unmentioned(r)

Recorded(r) ==
  row[r] # "none" =>
    /\ rowJob[r] \in Jobs /\ status[rowJob[r]] # "none"
    /\ status[rowJob[r]] = "pending" => (pc \in Launching /\ name = r) \/ GivenUp(r)

Dispatching ==
  /\ pc # "idle" => status[cur] # "none"
  /\ pc \in Admitted \cup {"cap"} => status[cur] # "dispatched" \/ cur \in aged
  /\ pc \in Launching => row[name] # "none" /\ rowJob[name] = cur
  /\ pc = "giveup" => Unmentioned(name)

Unclaimed == \A j \in Jobs : gh[j] = "queued" => ghRunner[j] = NoRunner

DupInv ==
  /\ phase = "up" /\ Unclaimed /\ \A r \in busyWrites : Assigned(r)
  /\ \A r \in Runners : Recorded(r)
  /\ Dispatching

(* How a job's row goes on when no one retries it: only the worker writes  *)
(* "dispatched", at the end of a launch.                                   *)
JobMoves ==
  \A j \in Jobs :
    \/ status'[j] = status[j] /\ (status[j] = "dispatched" /\ j \in aged => j \in aged')
    \/ status[j] = "none" /\ status'[j] = "pending"
    \/ status[j] # "none" /\ status'[j] \in {"in_progress", "completed"}

LEMMA StatementMoves ==
  ASSUME StoreTypeOK, NEW j \in Jobs,
         \/ InsertJobIfNew(j) \/ CancelJobIfPending(j)
         \/ \E c \in Outcomes : MarkJobCompleted(j, c)
         \/ \E r \in Claimants : MarkJobInProgress(j, r)
  PROVE  JobMoves
<1> USE DEF JobMoves, UpdateJob, StoreTypeOK, Dispatchable, Completable
<1>1. CASE InsertJobIfNew(j)  BY <1>1 DEF InsertJobIfNew
<1>2. CASE CancelJobIfPending(j)  BY <1>2 DEF CancelJobIfPending
<1>3. ASSUME NEW c, MarkJobCompleted(j, c)  PROVE JobMoves  BY <1>3 DEF MarkJobCompleted
<1>4. ASSUME NEW r, MarkJobInProgress(j, r)  PROVE JobMoves  BY <1>4 DEF MarkJobInProgress
<1> QED BY <1>1, <1>2, <1>3, <1>4

LEMMA SameJobs ==
  ASSUME UNCHANGED <<status, aged>>
  PROVE  JobMoves
BY DEF JobMoves

(* Steps that leave the worker where it is, and whoever is given up where  *)
(* he is.                                                                  *)
LEMMA SameDispatch ==
  ASSUME TypeOK, DupInv, JobMoves, Unclaimed', UNCHANGED <<pc, cur, name, phase, rowJob>>,
         \A r \in Runners : row[r] = "none" => row'[r] = "none",
         \A r \in Runners : row[r] # "none" => row'[r] # "none",
         \A r \in Runners : GivenUp(r) => row'[r] = "finished",
         \A r \in Runners : Unmentioned(r) => Unmentioned(r)',
         \A r \in busyWrites' : Assigned(r)'
  PROVE  DupInv'
<1> USE DEF TypeOK
<1>1. \A r \in Runners : GivenUp(r) => GivenUp(r)'
  BY DEF GivenUp
<1>2. ASSUME NEW r \in Runners  PROVE Recorded(r)'
  <2>1. CASE row'[r] = "none"  BY <2>1 DEF Recorded
  <2>2. CASE row'[r] # "none"
    <3>1. row[r] # "none" /\ rowJob'[r] = rowJob[r]  BY <2>2
    <3>2. Recorded(r)  BY DEF DupInv
    <3> QED BY <1>1, <3>1, <3>2 DEF Recorded, JobMoves
  <2> QED BY <2>1, <2>2
<1>3. Dispatching'
  BY DEF DupInv, Dispatching, JobMoves, SchedulerTypeOK, Launching, Admitted
<1> QED BY <1>2, <1>3 DEF DupInv


LEMMA SchedulerDup ==
  ASSUME {"crash", "shutdown", "storeError", "retry"} \cap Env = {},
         TypeOK, DupInv, SchedulerStep, UNCHANGED <<handlerVars, reconcilerVars>>
  PROVE  DupInv'
<1> USE DEF TypeOK, SchedulerTypeOK, Idle, Goto, Launching, Admitted
<1>0. /\ phase = "up" /\ Unclaimed /\ \A r \in busyWrites : Assigned(r)
      /\ \A r \in Runners : Recorded(r)
      /\ Dispatching
  BY DEF DupInv
<1>1. CASE Replay \/ \E j \in Jobs : TimerFires(j)
  BY <1>1, SameJobs, SameDispatch, <1>0 DEF Replay, TimerFires, Unclaimed, GivenUp, Unmentioned, Assigned
<1>i. ASSUME UNCHANGED <<row, rowJob, phase, spawned, containers, gh, ghRunner>>, JobMoves, pc \notin Launching,
             Dispatching'
      PROVE  DupInv'
  <2>1. \A r \in Runners : GivenUp(r)' = GivenUp(r)  BY <1>i DEF GivenUp, Unmentioned, Assigned
  <2>2. \A r \in Runners : Recorded(r)'
    BY <1>0, <1>i, <2>1 DEF Recorded, JobMoves
  <2> QED BY <1>0, <1>i, <2>2 DEF DupInv, Assigned, Unclaimed
<1>2. CASE Receive
  <2>1. Head(jobCh) \in Jobs  BY <1>2, SchedulerAssumption DEF Receive
  <2>2. Dispatching'  BY <1>0, <1>2, <2>1 DEF Receive, Dispatching, Rescuable
  <2> QED BY <1>2, <1>i, <1>0, <2>2, SameJobs DEF Receive
<1>3. CASE CheckCap
  <2>1. Dispatching'  BY <1>0, <1>3 DEF CheckCap, Dispatching
  <2> QED BY <1>3, <1>i, <2>1, SameJobs DEF CheckCap
<1>4. CASE CheckInstallation
  <2>1. JobMoves  BY <1>4, SameJobs, StatementMoves DEF CheckInstallation
  <2>2. Dispatching'  BY <1>0, <1>4 DEF CheckInstallation, Dispatching
  <2> QED BY <1>4, <1>i, <2>1, <2>2 DEF CheckInstallation
<1>5. CASE CheckTruth
  <2>1. JobMoves  BY <1>5, SameJobs, StatementMoves DEF CheckTruth, GitHubDone
  <2>2. Dispatching'  BY <1>0, <1>5 DEF CheckTruth, Dispatching
  <2> QED BY <1>5, <1>i, <2>1, <2>2 DEF CheckTruth
<1>6. CASE Confirm404
  <2>1. JobMoves  BY <1>6, SameJobs, StatementMoves DEF Confirm404
  <2>2. Dispatching'  BY <1>0, <1>6 DEF Confirm404, Dispatching
  <2> QED BY <1>6, <1>i, <2>1, <2>2 DEF Confirm404
<1>7. ASSUME NEW r \in Runners, InsertRow(r)  PROVE DupInv'
  <2>1. /\ UNCHANGED <<status, aged, spawned, containers, gh, ghRunner, phase, cur>> /\ pc = "insert"
        /\ cur \in Jobs /\ status[cur] # "none" /\ pc' = "launch" /\ name' = r
    BY <1>0, <1>7 DEF InsertRow, Dispatching
  <2>2. /\ row'[r] = "starting" /\ rowJob'[r] = cur
        /\ \A x \in Runners \ {r} : row'[x] = row[x] /\ rowJob'[x] = rowJob[x]
    BY <1>7 DEF InsertRow, InsertRunner, StoreTypeOK
  <2>3. \A x \in Runners : Recorded(x)'
    <3>1. Recorded(r)'  BY <2>1, <2>2 DEF Recorded
    <3>2. ASSUME NEW x \in Runners \ {r}  PROVE Recorded(x)'
      BY <1>0, <2>1, <2>2, <3>2 DEF Recorded, GivenUp, Unmentioned, Assigned
    <3> QED BY <3>1, <3>2
  <2>4. Dispatching'  BY <2>1, <2>2 DEF Dispatching
  <2> QED BY <1>0, <2>1, <2>3, <2>4 DEF DupInv, Assigned, Unclaimed
<1>8. CASE StartContainer \/ ObserveLaunch
  <2>1. /\ UNCHANGED <<status, aged, row, rowJob, containers, gh, ghRunner, phase, cur, name>>
        /\ pc \in {"launch", "observe"} /\ pc' \in Launching /\ pc' # "idle"
        /\ spawned \subseteq spawned' /\ spawned' \subseteq spawned \cup {name}
        /\ pc' = "giveup" => Unmentioned(name)'
    BY <1>8 DEF StartContainer, ObserveLaunch, Unmentioned, Assigned
  <2>2. \A x \in Runners : Recorded(x)'
    BY <1>0, <2>1 DEF Recorded, GivenUp, Unmentioned, Assigned
  <2>3. Dispatching'  BY <1>0, <2>1 DEF Dispatching
  <2> QED BY <1>0, <2>1, <2>2, <2>3 DEF DupInv, Assigned, Unclaimed
<1>9. CASE GiveUp
  <2>1. /\ UNCHANGED <<status, aged, rowJob, spawned, containers, gh, ghRunner, phase>>
        /\ pc = "giveup" /\ pc' = "idle" /\ name \in Runners
    BY <1>9 DEF GiveUp, UpdateRunnerStatus
  <2>2. PICK n \in Runners : n = name
    BY <2>1
  <2>3. row[n] # "none" /\ Unmentioned(n) /\ \A x : Unmentioned(x)' = Unmentioned(x)
    BY <1>0, <2>1, <2>2 DEF Dispatching, Unmentioned, Assigned
  <2>4. row'[n] = "finished" /\ \A x \in Runners \ {n} : row'[x] = row[x]
    BY <1>9, <2>1, <2>2, <2>3 DEF GiveUp, UpdateRunnerStatus, StoreTypeOK
  <2>5. \A x \in Runners : Recorded(x)'
    <3>1. Recorded(n)'  BY <1>0, <2>1, <2>3, <2>4 DEF Recorded, GivenUp
    <3>2. ASSUME NEW x \in Runners \ {n}  PROVE Recorded(x)'
      BY <1>0, <2>1, <2>2, <2>3, <2>4, <3>2 DEF Recorded, GivenUp
    <3> QED BY <3>1, <3>2
  <2>6. Dispatching'  BY <2>1 DEF Dispatching
  <2> QED BY <1>0, <2>1, <2>5, <2>6 DEF DupInv, Assigned, Unclaimed
<1>10. CASE MarkDispatched
  <2>1. /\ UNCHANGED <<row, rowJob, spawned, containers, gh, ghRunner, phase>>
        /\ pc = "mark" /\ pc' = "idle" /\ name \in Runners /\ cur \in Jobs
    BY <1>10 DEF MarkDispatched
  <2>2. /\ status'[cur] # "pending" /\ (status[cur] # "none" => status'[cur] # "none")
        /\ \A j \in Jobs \ {cur} : status'[j] = status[j]
    BY <1>10, <2>1 DEF MarkDispatched, MarkJobDispatched, UpdateJob, Dispatchable, StoreTypeOK
  <2>3. rowJob[name] = cur  BY <1>0, <2>1 DEF Dispatching
  <2>4. \A x \in Runners : Recorded(x)'
    BY <1>0, <2>1, <2>2, <2>3 DEF Recorded, GivenUp, Unmentioned, Assigned
  <2>5. Dispatching'  BY <2>1 DEF Dispatching
  <2> QED BY <1>0, <2>1, <2>4, <2>5 DEF DupInv, Assigned, Unclaimed
<1>11. CASE StoreFails \/ Stop \/ DrainExpires
  BY <1>0, <1>11 DEF StoreFails, Stop, DrainExpires
<1> QED BY <1>1, <1>2, <1>3, <1>4, <1>5, <1>6, <1>7, <1>8, <1>9, <1>10, <1>11 DEF SchedulerStep

LEMMA DupStep ==
  ASSUME {"crash", "shutdown", "storeError", "retry"} \cap Env = {},
         TypeOK, DupInv, [Next]_vars
  PROVE  DupInv'
<1> USE DEF TypeOK
<1>0. /\ phase = "up" /\ Unclaimed /\ \A r \in busyWrites : Assigned(r)
  BY DEF DupInv
<1>s. ASSUME UNCHANGED <<runnerVars, docker, gh, ghRunner, schedulerVars, busyWrites>>, JobMoves  PROVE DupInv'
  <2>1. \A r : Unmentioned(r)' = Unmentioned(r) /\ Assigned(r)' = Assigned(r)
    BY <1>s DEF Unmentioned, Assigned
  <2> QED BY <1>0, <1>s, <2>1, SameDispatch DEF GivenUp, Unclaimed
<1>1. CASE SchedulerStep /\ UNCHANGED <<handlerVars, reconcilerVars>>
  BY <1>1, SchedulerDup
<1>2. CASE HandlerStep /\ UNCHANGED reconcilerVars
  <2>1. ASSUME NEW j \in Jobs, QueuedEvent(j) \/ InsertJob(j) \/ CompletedEvent(j) \/ CancelJob(j)
        PROVE  DupInv'
    <3>1. JobMoves
      BY <2>1, StatementMoves, SameJobs DEF QueuedEvent, InsertJob, CompletedEvent, GitHubDone, CancelJob
    <3> QED BY <2>1, <3>1, <1>s DEF QueuedEvent, InsertJob, CompletedEvent, CancelJob
  <2>2. ASSUME NEW j \in Jobs, EnqueueJob(j)  PROVE DupInv'
    <3>1. \A r : Unmentioned(r)' = Unmentioned(r) /\ Assigned(r)' = Assigned(r)
      BY <2>2 DEF EnqueueJob, Unmentioned, Assigned
    <3> QED BY <1>0, <2>2, <3>1, SameDispatch, SameJobs DEF EnqueueJob, GivenUp, Unclaimed
  <2>3. ASSUME NEW j \in Jobs, InProgressEvent(j)  PROVE DupInv'
    <3>1. ghRunner[j] \in Claimants /\ MarkJobInProgress(j, ghRunner[j])
      BY <2>3 DEF InProgressEvent, WorldTypeOK
    <3>2. JobMoves  BY <3>1, StatementMoves
    <3>3. UNCHANGED <<runnerVars, docker, gh, ghRunner, schedulerVars>> /\ \A r \in busyWrites' : Assigned(r)'
      BY <1>0, <2>3 DEF InProgressEvent, Assigned
    <3>4. \A r : Unmentioned(r)' = Unmentioned(r)
      BY <3>3 DEF Unmentioned, Assigned
    <3> QED BY <1>0, <3>2, <3>3, <3>4, SameDispatch DEF GivenUp, Unclaimed
  <2>4. ASSUME NEW r \in Runners, WriteBusy(r) \/ WriteFinished(r)  PROVE DupInv'
    <3>1. /\ UNCHANGED <<jobVars, docker, gh, ghRunner, schedulerVars, rowJob>> /\ busyWrites' \subseteq busyWrites
          /\ \E s \in {"busy", "finished"} :
               UpdateRunnerStatus(r, s) /\ (s = "busy" => r \in busyWrites)
      BY <2>4 DEF WriteBusy, WriteFinished, UpdateRunnerStatus
    <3>2. \A x : Unmentioned(x)' = Unmentioned(x) /\ Assigned(x)' = Assigned(x)
      BY <3>1 DEF Unmentioned, Assigned
    <3>3. \A x \in Runners : /\ row[x] = "none" => row'[x] = "none"
                             /\ row[x] # "none" => row'[x] # "none"
                             /\ GivenUp(x) => row'[x] = "finished"
      BY <1>0, <3>1 DEF UpdateRunnerStatus, GivenUp, Unmentioned, StoreTypeOK
    <3> QED BY <1>0, <3>1, <3>2, <3>3, SameDispatch, SameJobs DEF Unclaimed
  <2>5. ASSUME NEW p \in Repos,
               CreatedEvent(p) \/ AddRepo(p) \/ AddedEvent(p) \/ RemovedEvent(p)
        PROVE  DupInv'
    BY <2>5, <1>s, SameJobs DEF CreatedEvent, AddRepo, AddedEvent, RemovedEvent
  <2>6. ASSUME NEW p \in Repos, CancelForRepo(p)  PROVE DupInv'
    <3>1. JobMoves
      BY <2>6 DEF CancelForRepo, CancelPendingJobsForRepo, JobMoves, Dispatchable, StoreTypeOK
    <3> QED BY <2>6, <3>1, <1>s DEF CancelForRepo
  <2>7. CASE WriteFails \/ \E j \in Jobs : RetryJob(j)
    BY <2>7 DEF WriteFails, RetryJob
  <2> QED BY <1>2, <2>1, <2>2, <2>3, <2>4, <2>5, <2>6, <2>7 DEF HandlerStep
<1>3. CASE ReconcilerStep
  <2>1. ASSUME NEW r \in Runners, SweepRow(r) \/ RemoveOrphan(r) \/ PassGrace(r)  PROVE DupInv'
    <3>1. /\ UNCHANGED <<jobVars, spawned, gh, ghRunner, schedulerVars, handlerVars, rowJob>>
          /\ containers' \subseteq containers
          /\ UpdateRunnerStatus(r, "finished") \/ UNCHANGED row
      BY <2>1 DEF SweepRow, KeepRow, RetireRow, ForceRemove, UpdateRunnerStatus, RemoveOrphan, PassGrace, Settle
    <3>2. \A x : (Unmentioned(x) => Unmentioned(x)') /\ Assigned(x)' = Assigned(x)
      BY <3>1 DEF Unmentioned, Assigned
    <3>3. \A x \in Runners : /\ row[x] = "none" => row'[x] = "none"
                             /\ row[x] # "none" => row'[x] # "none"
                             /\ GivenUp(x) => row'[x] = "finished"
      BY <3>1 DEF UpdateRunnerStatus, GivenUp, StoreTypeOK
    <3> QED BY <1>0, <3>1, <3>2, <3>3, SameDispatch, SameJobs DEF Unclaimed
  <2>2. CASE ListActive \/ ListContainers \/ \E j \in Jobs : ReadStale(j)
    BY <2>2, <1>s, SameJobs DEF ListActive, ListContainers, ReadStale
  <2>3. ASSUME NEW j \in Jobs, NEW c \in Outcomes, CompleteStale(j, c)  PROVE DupInv'
    <3>1. JobMoves  BY <2>3, StatementMoves DEF CompleteStale
    <3> QED BY <2>3, <3>1, <1>s DEF CompleteStale
  <2> QED BY <1>3, <2>1, <2>2, <2>3 DEF ReconcilerStep
<1>4. CASE WorldStep
  <2>1. UNCHANGED <<storeVars, schedulerVars, busyWrites>> /\ spawned' \cup containers' \subseteq spawned \cup containers
    BY <1>4
       DEF WorldStep, AssignForeign, AssignOurs, Assign, FinishOnGitHub, CancelOnGitHub,
           Uninstall, ContainerUp, SpawnFails, ContainerExits
  <2>2. ASSUME NEW r \in Runners
        PROVE  (Unmentioned(r) => Unmentioned(r)') /\ (Assigned(r) => Assigned(r)')
    <3>1. CASE UNCHANGED ghRunner
      BY <2>1, <3>1 DEF Unmentioned, Assigned
    <3>2. ASSUME NEW j \in Jobs, NEW x, Assign(j, x), x \in containers \/ x = Foreign
          PROVE  (Unmentioned(r) => Unmentioned(r)') /\ (Assigned(r) => Assigned(r)')
      <4>1. gh[j] = "queued" /\ ghRunner' = [ghRunner EXCEPT ![j] = x]  BY <3>2 DEF Assign
      <4>2. ghRunner[j] = NoRunner  BY <1>0, <4>1 DEF Unclaimed
      <4>3. Assigned(r) => Assigned(r)'
        BY <4>1, <4>2, StoreAssumption DEF Assigned, WorldTypeOK
      <4>4. Unmentioned(r) => Unmentioned(r)'
        BY <2>1, <3>2, <4>1, <4>2, StoreAssumption DEF Unmentioned, Assigned, WorldTypeOK
      <4> QED BY <4>3, <4>4
    <3> QED BY <1>4, <3>1, <3>2
            DEF WorldStep, AssignForeign, AssignOurs, FinishOnGitHub, CancelOnGitHub, Uninstall,
                ContainerUp, SpawnFails, ContainerExits
  <2>3. Unclaimed'
    BY <1>0, <1>4
       DEF WorldStep, AssignForeign, AssignOurs, Assign, FinishOnGitHub, CancelOnGitHub,
           Uninstall, ContainerUp, SpawnFails, ContainerExits, Unclaimed, WorldTypeOK
  <2> QED BY <1>0, <2>1, <2>2, <2>3, SameDispatch, SameJobs DEF GivenUp, HandlersTypeOK
<1>5. CASE ClockStep
  <2>1. JobMoves  BY <1>5, SameJobs DEF ClockStep, AgeJob, MatureJob, AgeRunner, JobMoves
  <2>2. /\ UNCHANGED <<row, rowJob, docker, gh, ghRunner, schedulerVars, busyWrites>>
    BY <1>5 DEF ClockStep, AgeJob, MatureJob, AgeRunner
  <2>3. \A r : Unmentioned(r)' = Unmentioned(r) /\ Assigned(r)' = Assigned(r)
    BY <2>2 DEF Unmentioned, Assigned
  <2> QED BY <1>0, <2>1, <2>2, <2>3, SameDispatch DEF GivenUp, Unclaimed
<1>6. CASE Crash \/ Exit \/ Restart
  BY <1>0, <1>6 DEF Crash, Exit, Restart
<1>7. CASE UNCHANGED vars
  BY <1>7, <1>s, SameJobs
<1> QED BY <1>1, <1>2, <1>3, <1>4, <1>5, <1>6, <1>7 DEF Next

(* No job that waits for its first runner is given a second one by a       *)
(* replay, a duplicate copy in the channel or a late timer, unless a       *)
(* dispatch was cut off before its last write - by a crash, a shutdown or  *)
(* an error of the store - or an admin retried a job whose runner is up.   *)
THEOREM NoSecondRunner ==
  ASSUME {"crash", "shutdown", "storeError", "retry"} \cap Env = {}
  PROVE  Spec => []NoDuplicateRunner
<1>1. Init => DupInv
  BY DEF Init, StoreInit, WorldInit, SchedulerInit, WebhooksInit, DupInv, Unclaimed, Recorded, Dispatching,
         Admitted, Launching
<1>2. TypeOK /\ DupInv /\ [Next]_vars => DupInv'
  BY DupStep
<1>3. TypeOK /\ DupInv => NoDuplicateRunner
  BY DEF TypeOK, SchedulerTypeOK, DupInv, Dispatching, Recorded, GivenUp, NoDuplicateRunner, ActiveRunners, Admitted,
         Launching
<1> QED BY TypeCorrect, <1>1, <1>2, <1>3, PTL DEF Spec

----------------------------------------------------------------------------
(* Refinement of JobLifecycle: every statement on the jobs table is one of *)
(* its actions or leaves the row alone, for whoever issues it.             *)

LifecycleStep == [Lifecycle!Next]_(Lifecycle!jobs)

LEMMA StatementRefines ==
  ASSUME StoreTypeOK, NEW j \in Jobs, JobStatement(j)
  PROVE  LifecycleStep
<1> USE DEF StoreTypeOK, UpdateJob, Dispatchable, LifecycleStep, Lifecycle!Next, Lifecycle!jobs
<1>0. CASE UNCHANGED <<status, conclusion, claimant>>
  BY <1>0
<1>e. ASSUME NEW c \in Outcomes, UpdateJob(j, "completed", c, claimant[j]),
             status[j] \notin {"none", "completed"}
      PROVE  LifecycleStep
  <2>1. Lifecycle!End({j})
    BY <1>e DEF Lifecycle!End, Lifecycle!Open, Outcomes, JobStatuses
  <2> QED BY <2>1
<1>1. CASE InsertJobIfNew(j)
  BY <1>0, <1>1 DEF InsertJobIfNew, Lifecycle!Register
<1>2. CASE MarkJobDispatched(j)
  BY <1>0, <1>2 DEF MarkJobDispatched, Lifecycle!Launch, Lifecycle!Open
<1>3. CASE CancelJobIfPending(j)
  BY <1>0, <1>e, <1>3 DEF CancelJobIfPending, Outcomes
<1>4. CASE RetryJobIfCompleted(j)
  BY <1>0, <1>4 DEF RetryJobIfCompleted, Lifecycle!Retry
<1>5. CASE \E c \in Outcomes : MarkJobCompleted(j, c)
  BY <1>0, <1>e, <1>5 DEF MarkJobCompleted, Completable
<1>6. CASE \E r \in Claimants \ {NoRunner} : MarkJobInProgress(j, r)
  <2>1. PICK r \in Claimants \ {NoRunner} : MarkJobInProgress(j, r)
    BY <1>6
  <2> QED BY <1>0, <2>1 DEF MarkJobInProgress, Lifecycle!Claim, Lifecycle!Open
<1> QED BY <1>1, <1>2, <1>3, <1>4, <1>5, <1>6 DEF JobStatement

LEMMA CancelForRepoRefines ==
  ASSUME StoreTypeOK, NEW p \in Repos, CancelPendingJobsForRepo(p)
  PROVE  LifecycleStep
<1> DEFINE hit == {j \in Jobs : RepoOf[j] = p /\ Dispatchable(j)}
<1>1. Lifecycle!End(hit)
  BY DEF CancelPendingJobsForRepo, Dispatchable, Lifecycle!End, Lifecycle!Open, StoreTypeOK
<1>2. hit \in SUBSET Jobs
  OBVIOUS
<1> QED BY <1>1, <1>2 DEF LifecycleStep, Lifecycle!Next

LEMMA LifecycleStutter ==
  ASSUME UNCHANGED jobVars
  PROVE  LifecycleStep
BY DEF LifecycleStep, Lifecycle!jobs

LEMMA StepRefines ==
  ASSUME TypeOK, [Next]_vars
  PROVE  LifecycleStep
<1> USE DEF TypeOK, SchedulerTypeOK
<1>1. CASE SchedulerStep
  <2>1. CASE CheckInstallation \/ CheckTruth \/ Confirm404 \/ MarkDispatched
    <3>1. cur \in Jobs
      BY <2>1 DEF CheckInstallation, CheckTruth, Confirm404, MarkDispatched
    <3>2. JobStatement(cur) \/ UNCHANGED jobVars
      BY <2>1 DEF CheckInstallation, CheckTruth, Confirm404, MarkDispatched, JobStatement,
                  GitHubDone
    <3> QED BY <3>1, <3>2, StatementRefines, LifecycleStutter
  <2>2. CASE UNCHANGED jobVars
    BY <2>2, LifecycleStutter
  <2> QED BY <1>1, <2>1, <2>2
          DEF SchedulerStep, Replay, Receive, CheckCap, InsertRow, StartContainer,
              ObserveLaunch, GiveUp, StoreFails, TimerFires, Stop, DrainExpires
<1>2. CASE HandlerStep
  <2>1. ASSUME NEW j \in Jobs,
               InsertJob(j) \/ InProgressEvent(j) \/ CompletedEvent(j) \/ RetryJob(j)
                 \/ CancelJob(j)
        PROVE  LifecycleStep
    <3>1. JobStatement(j)
      BY <2>1 DEF InsertJob, InProgressEvent, CompletedEvent, RetryJob, CancelJob,
                  JobStatement, GitHubDone, WorldTypeOK
    <3> QED BY <3>1, StatementRefines
  <2>2. ASSUME NEW p \in Repos, CancelForRepo(p)  PROVE LifecycleStep
    BY <2>2, CancelForRepoRefines DEF CancelForRepo
  <2>3. CASE UNCHANGED jobVars
    BY <2>3, LifecycleStutter
  <2> QED BY <1>2, <2>1, <2>2, <2>3
          DEF HandlerStep, QueuedEvent, EnqueueJob, WriteBusy, WriteFinished, CreatedEvent,
              AddRepo, AddedEvent, RemovedEvent, WriteFails
<1>3. CASE ReconcilerStep
  <2>1. ASSUME NEW j \in Jobs, NEW c \in Outcomes, CompleteStale(j, c)  PROVE LifecycleStep
    BY <2>1, StatementRefines DEF CompleteStale, JobStatement
  <2>2. CASE UNCHANGED jobVars
    BY <2>2, LifecycleStutter
  <2> QED BY <1>3, <2>1, <2>2
          DEF ReconcilerStep, ListActive, ListContainers, SweepRow, RemoveOrphan, PassGrace,
              Settle, ReadStale
<1>4. CASE WorldStep \/ ClockStep \/ Crash \/ Exit \/ Restart \/ UNCHANGED vars
  <2>1. UNCHANGED <<status, conclusion, claimant>>
    BY <1>4 DEF WorldStep, AssignForeign, AssignOurs, Assign, FinishOnGitHub, CancelOnGitHub,
                Uninstall, ContainerUp, SpawnFails, ContainerExits, ClockStep, AgeJob,
                MatureJob, AgeRunner, Crash, Exit, ProcessGone, Restart
  <2> QED BY <2>1 DEF LifecycleStep, Lifecycle!jobs
<1> QED BY <1>1, <1>2, <1>3, <1>4 DEF Next

(* The jobs table implements JobLifecycle: no interleaving of webhooks,    *)
(* dispatches, sweeps, admin calls and crashes takes a claimed or ended    *)
(* row back, or changes who claimed it or how it ended.                    *)
THEOREM ImplementsLifecycle == Spec => LifecycleSpec
<1>1. Init => Lifecycle!Init
  BY DEF Init, StoreInit, Lifecycle!Init
<1>2. TypeOK /\ [Next]_vars => [Lifecycle!Next]_(Lifecycle!jobs)
  BY StepRefines DEF LifecycleStep
<1> QED BY TypeCorrect, <1>1, <1>2, PTL DEF Spec, LifecycleSpec, Lifecycle!Spec

----------------------------------------------------------------------------
(* How rows end.  What GitHub says of a job that is over, it says for      *)
(* ever, and an installation that is removed stays removed: an answer that *)
(* was true when it was read is true when it is written.                   *)

LEMMA FactsStay ==
  ASSUME TypeOK, [Next]_vars
  PROVE  /\ installed' \subseteq installed
         /\ \A j \in Jobs : gh[j] \in Outcomes => gh'[j] = gh[j]
<1> USE DEF TypeOK, WorldTypeOK, Outcomes, Assign
<1>1. CASE UNCHANGED <<gh, installed>>
  BY <1>1
<1>2. CASE WorldStep
  BY <1>2 DEF WorldStep, AssignForeign, AssignOurs, FinishOnGitHub, CancelOnGitHub, Uninstall,
              ContainerUp, SpawnFails, ContainerExits
<1> QED BY <1>1, <1>2
        DEF Next, SchedulerStep, Replay, Receive, CheckCap, CheckInstallation, CheckTruth, Confirm404,
            InsertRow, StartContainer, ObserveLaunch, GiveUp, MarkDispatched, StoreFails, TimerFires, Stop,
            DrainExpires, HandlerStep, QueuedEvent, InsertJob, EnqueueJob, InProgressEvent, CompletedEvent,
            RetryJob, CancelJob, WriteBusy, WriteFinished, CreatedEvent, AddRepo, AddedEvent, RemovedEvent,
            CancelForRepo, WriteFails, ReconcilerStep, ListActive, ListContainers, SweepRow, RemoveOrphan,
            PassGrace, Settle, ReadStale, CompleteStale, ClockStep, AgeJob, MatureJob, AgeRunner, Crash, Exit,
            ProcessGone, Restart

LEMMA ReportsStay ==
  ASSUME TypeOK, [Next]_vars, NEW j \in Jobs, NEW c \in Outcomes, Reported(j, c)
  PROVE  Reported(j, c)'
BY FactsStay DEF Reported

(* Without missed installations, what is installed has its mapping.        *)
InstalledMapped == "install" \notin Env => installed \subseteq mapped

EndsInv ==
  /\ InstalledMapped /\ cancelling \cap installed = {}
  /\ pc = "confirm404" => "apiError" \in Env
  /\ \A j \in Jobs, c \in Outcomes : <<j, c>> \in staleReads => Reported(j, c)
  /\ \A j \in Jobs : status[j] = "completed" => conclusion[j] \in Outcomes
  /\ EndsAsReported

LEMMA MappingStep ==
  ASSUME TypeOK, InstalledMapped, [Next]_vars
  PROVE  InstalledMapped'
<1>1. CASE mapped \subseteq mapped'
  BY <1>1, FactsStay DEF InstalledMapped
<1>2. ASSUME NEW p \in Repos, RemovedEvent(p)  PROVE InstalledMapped'
  BY <1>2 DEF RemovedEvent, RemoveRepoInstallation, InstalledMapped
<1>3. CASE HandlerStep
  BY <1>1, <1>2, <1>3
     DEF HandlerStep, QueuedEvent, TryUpsert, UpsertRepoInstallation, UpsertInstallation, InsertJob, EnqueueJob,
         InProgressEvent, CompletedEvent, RetryJob, CancelJob, WriteBusy, WriteFinished, CreatedEvent, AddRepo,
         AddedEvent, CancelForRepo, WriteFails
<1> QED BY <1>1, <1>3
        DEF Next, SchedulerStep, Replay, Receive, CheckCap, CheckInstallation, CheckTruth, Confirm404,
            InsertRow, StartContainer, ObserveLaunch, GiveUp, MarkDispatched, StoreFails, TimerFires, Stop,
            DrainExpires, ReconcilerStep, ListActive, ListContainers, SweepRow, RemoveOrphan, PassGrace, Settle,
            ReadStale, CompleteStale, WorldStep, AssignForeign, AssignOurs, Assign, FinishOnGitHub,
            CancelOnGitHub, Uninstall, ContainerUp, SpawnFails, ContainerExits, ClockStep, AgeJob, MatureJob,
            AgeRunner, Crash, Exit, ProcessGone, Restart

(* What a step may do to a row that is completed after it: leave it so, or *)
(* end it with what is reported of its job.                                *)
EndsWell(j) ==
  \/ status'[j] # "completed"
  \/ status[j] = "completed" /\ conclusion'[j] = conclusion[j]
  \/ conclusion'[j] \in Outcomes /\ Reported(j, conclusion'[j])

LEMMA StatementEnds ==
  ASSUME StoreTypeOK, NEW k \in Jobs,
         \/ InsertJobIfNew(k) \/ MarkJobDispatched(k) \/ RetryJobIfCompleted(k)
         \/ \E r \in Claimants : MarkJobInProgress(k, r)
         \/ CancelJobIfPending(k) /\ Reported(k, "cancelled")
         \/ \E c \in Outcomes : MarkJobCompleted(k, c) /\ Reported(k, c)
  PROVE  \A j \in Jobs : EndsWell(j)
<1> USE DEF StoreTypeOK, UpdateJob, EndsWell, Outcomes
<1>1. CASE InsertJobIfNew(k) \/ MarkJobDispatched(k) \/ RetryJobIfCompleted(k)
  BY <1>1 DEF InsertJobIfNew, MarkJobDispatched, RetryJobIfCompleted
<1>2. CASE \E r \in Claimants : MarkJobInProgress(k, r)
  BY <1>2 DEF MarkJobInProgress
<1>3. CASE CancelJobIfPending(k) /\ Reported(k, "cancelled")
  BY <1>3 DEF CancelJobIfPending
<1>4. ASSUME NEW c \in Outcomes, MarkJobCompleted(k, c), Reported(k, c)
      PROVE  \A j \in Jobs : EndsWell(j)
  BY <1>4 DEF MarkJobCompleted
<1> QED BY <1>1, <1>2, <1>3, <1>4

LEMMA RowsEnd ==
  ASSUME TypeOK, EndsInv, [Next]_vars
  PROVE  \A j \in Jobs : EndsWell(j)
<1> USE DEF TypeOK, SchedulerTypeOK
<1>0. CASE UNCHANGED <<status, conclusion>>
  BY <1>0 DEF EndsWell
<1>1. CASE SchedulerStep
  <2>1. CASE CheckInstallation
    <3>1. cur \in Jobs
      BY <2>1 DEF CheckInstallation
    <3>2. CASE UNCHANGED jobVars
      BY <1>0, <3>2
    <3>3. CASE RepoOf[cur] \notin mapped /\ CancelJobIfPending(cur)
      <4>1. RepoOf[cur] \in Repos
        BY <3>1, StoreAssumption
      <4>2. Reported(cur, "cancelled")
        BY <3>3, <4>1 DEF EndsInv, InstalledMapped, Reported
      <4> QED BY <3>1, <3>3, <4>2, StatementEnds
    <3> QED BY <2>1, <3>2, <3>3 DEF CheckInstallation
  <2>2. CASE CheckTruth
    <3>1. cur \in Jobs
      BY <2>2 DEF CheckTruth
    <3>2. CASE UNCHANGED jobVars
      BY <1>0, <3>2
    <3>3. CASE GitHubDone(cur) /\ MarkJobCompleted(cur, gh[cur])
      BY <3>1, <3>3, StatementEnds DEF GitHubDone, Reported
    <3> QED BY <2>2, <3>2, <3>3 DEF CheckTruth
  <2>3. CASE Confirm404
    <3>1. cur \in Jobs /\ "apiError" \in Env
      BY <2>3 DEF Confirm404, EndsInv
    <3>2. CASE UNCHANGED jobVars
      BY <1>0, <3>2
    <3>3. CASE CancelJobIfPending(cur)
      BY <3>1, <3>3, StatementEnds DEF Reported
    <3> QED BY <2>3, <3>2, <3>3 DEF Confirm404
  <2>4. CASE MarkDispatched
    BY <2>4, StatementEnds DEF MarkDispatched
  <2>5. CASE UNCHANGED jobVars
    BY <1>0, <2>5
  <2> QED BY <1>1, <2>1, <2>2, <2>3, <2>4, <2>5
          DEF SchedulerStep, Replay, Receive, CheckCap, InsertRow, StartContainer,
              ObserveLaunch, GiveUp, StoreFails, TimerFires, Stop, DrainExpires
<1>2. CASE HandlerStep
  <2>1. ASSUME NEW j \in Jobs, InsertJob(j) \/ InProgressEvent(j) \/ RetryJob(j)
        PROVE  \A k \in Jobs : EndsWell(k)
    BY <2>1, StatementEnds DEF InsertJob, InProgressEvent, RetryJob, WorldTypeOK
  <2>2. ASSUME NEW j \in Jobs, CompletedEvent(j)  PROVE \A k \in Jobs : EndsWell(k)
    BY <2>2, StatementEnds DEF CompletedEvent, GitHubDone, Reported
  <2>3. ASSUME NEW j \in Jobs, CancelJob(j)  PROVE \A k \in Jobs : EndsWell(k)
    BY <2>3, StatementEnds DEF CancelJob, Reported
  <2>4. ASSUME NEW p \in Repos, CancelForRepo(p)  PROVE \A k \in Jobs : EndsWell(k)
    <3>1. p \notin installed
      BY <2>4 DEF CancelForRepo, EndsInv
    <3> QED BY <2>4, <3>1
            DEF CancelForRepo, CancelPendingJobsForRepo, StoreTypeOK, EndsWell, Reported, Outcomes
  <2>5. CASE UNCHANGED jobVars
    BY <1>0, <2>5
  <2> QED BY <1>2, <2>1, <2>2, <2>3, <2>4, <2>5
          DEF HandlerStep, QueuedEvent, EnqueueJob, WriteBusy, WriteFinished, CreatedEvent,
              AddRepo, AddedEvent, RemovedEvent, WriteFails
<1>3. CASE ReconcilerStep
  <2>1. ASSUME NEW j \in Jobs, NEW c \in Outcomes, CompleteStale(j, c)
        PROVE  \A k \in Jobs : EndsWell(k)
    BY <2>1, StatementEnds DEF CompleteStale, EndsInv
  <2>2. CASE UNCHANGED jobVars
    BY <1>0, <2>2
  <2> QED BY <1>3, <2>1, <2>2
          DEF ReconcilerStep, ListActive, ListContainers, SweepRow, RemoveOrphan, PassGrace,
              Settle, ReadStale
<1>4. CASE WorldStep \/ ClockStep \/ Crash \/ Exit \/ Restart \/ UNCHANGED vars
  BY <1>0, <1>4 DEF WorldStep, AssignForeign, AssignOurs, Assign, FinishOnGitHub, CancelOnGitHub,
                    Uninstall, ContainerUp, SpawnFails, ContainerExits, ClockStep, AgeJob,
                    MatureJob, AgeRunner, Crash, Exit, ProcessGone, Restart
<1> QED BY <1>1, <1>2, <1>3, <1>4 DEF Next

(* What is read of a job before it is written, and what is removed before  *)
(* it is cancelled.                                                        *)
LEMMA ReadsStep ==
  ASSUME TypeOK, EndsInv, [Next]_vars
  PROVE  /\ cancelling' \cap installed = {}
         /\ pc' = "confirm404" => "apiError" \in Env
         /\ \A j \in Jobs, c \in Outcomes : <<j, c>> \in staleReads' => Reported(j, c)
<1> USE DEF EndsInv, Goto, Idle
<1>0. CASE cancelling' \subseteq cancelling /\ pc' \in {pc, "idle"} /\ staleReads' \subseteq staleReads
  BY <1>0
<1>1. CASE SchedulerStep /\ UNCHANGED <<handlerVars, reconcilerVars>>
  BY <1>1 DEF SchedulerStep, Replay, Receive, CheckCap, CheckInstallation, CheckTruth, Confirm404,
              InsertRow, StartContainer, ObserveLaunch, GiveUp, MarkDispatched, StoreFails, TimerFires, Stop,
              DrainExpires
<1>2. CASE HandlerStep /\ UNCHANGED reconcilerVars
  BY <1>2 DEF HandlerStep, QueuedEvent, InsertJob, EnqueueJob, InProgressEvent, CompletedEvent, RetryJob,
              CancelJob, WriteBusy, WriteFinished, CreatedEvent, AddRepo, AddedEvent, RemovedEvent,
              CancelForRepo, WriteFails
<1>3. ASSUME NEW k \in Jobs, ReadStale(k)
      PROVE  /\ cancelling' = cancelling /\ pc' = pc
             /\ \A j \in Jobs, c \in Outcomes : <<j, c>> \in staleReads' => Reported(j, c)
  BY <1>3 DEF ReadStale, Reported
<1>4. CASE ReconcilerStep
  BY <1>0, <1>3, <1>4
     DEF ReconcilerStep, ListActive, ListContainers, SweepRow, RemoveOrphan, PassGrace, Settle, CompleteStale
<1>5. CASE WorldStep \/ ClockStep \/ Crash \/ Exit \/ Restart \/ UNCHANGED vars
  BY <1>0, <1>5 DEF WorldStep, ClockStep, AgeJob, MatureJob, AgeRunner, Crash, Exit, ProcessGone, Restart
<1> QED BY <1>1, <1>2, <1>4, <1>5 DEF Next

LEMMA EndsStep ==
  ASSUME TypeOK, EndsInv, [Next]_vars
  PROVE  EndsInv'
<1>1. InstalledMapped'
  BY MappingStep DEF EndsInv
<1>2. cancelling' \cap installed' = {} /\ (pc' = "confirm404" => "apiError" \in Env)
  BY ReadsStep, FactsStay
<1>3. \A j \in Jobs, c \in Outcomes : <<j, c>> \in staleReads' => Reported(j, c)'
  BY ReadsStep, ReportsStay
<1>4. ASSUME NEW j \in Jobs, status'[j] = "completed"
      PROVE  conclusion'[j] \in Outcomes /\ Reported(j, conclusion[j])'
  <2>1. conclusion'[j] \in Outcomes /\ Reported(j, conclusion'[j])
    BY <1>4, RowsEnd DEF EndsWell, EndsInv, EndsAsReported
  <2>2. Reported(j, conclusion'[j]) => Reported(j, conclusion[j])'
    BY <2>1, FactsStay DEF Reported
  <2> QED BY <2>1, <2>2
<1> QED BY <1>1, <1>2, <1>3, <1>4 DEF EndsInv, EndsAsReported

LEMMA EndsInvariant == Spec => []EndsInv
<1>1. Init => EndsInv
  BY DEF Init, StoreInit, WorldInit, SchedulerInit, WebhooksInit, ReconcilerInit, EndsInv, InstalledMapped,
         EndsAsReported
<1>2. TypeOK /\ EndsInv /\ [Next]_vars => EndsInv'
  BY EndsStep
<1> QED BY TypeCorrect, <1>1, <1>2, PTL DEF Spec

(* A row ends with what GitHub reports of its job, or is cancelled for one *)
(* of four reasons: no late webhook, stale read, replayed dispatch or      *)
(* cancel of a removed repository makes up an outcome.                     *)
THEOREM EndsReported == Spec => []EndsAsReported
<1>1. EndsInv => EndsAsReported
  BY DEF EndsInv
<1> QED BY EndsInvariant, <1>1, PTL

(* A missed installation event is the only way the missing-installation    *)
(* fallback ends a job of a repository that has the App: where none is     *)
(* missed, the mapping is there as long as the installation is.            *)
THEOREM FallbackSafe ==
  ASSUME "install" \notin Env
  PROVE  Spec => FallbackSparesInstalled
<1>1. TypeOK /\ EndsInv /\ [Next]_vars =>
        [pc = "install" /\ pc' = "idle" /\ status[cur] # "completed" /\ status'[cur] = "completed"
           => RepoOf[cur] \notin installed]_vars
  <2> SUFFICES ASSUME TypeOK, EndsInv, [Next]_vars,
                      pc = "install", pc' = "idle", status[cur] # "completed", status'[cur] = "completed"
               PROVE  RepoOf[cur] \notin installed
    OBVIOUS
  <2>1. cur \in Jobs
    BY DEF TypeOK, SchedulerTypeOK
  <2>2. CASE CheckInstallation
    BY <2>1, <2>2, StoreAssumption
       DEF CheckInstallation, Goto, EndsInv, InstalledMapped
  <2> QED BY <2>1, <2>2
          DEF Next, SchedulerStep, Replay, Receive, CheckCap, CheckTruth, Confirm404,
              InsertRow, StartContainer, ObserveLaunch, GiveUp, MarkDispatched, StoreFails, TimerFires, Stop,
              DrainExpires, HandlerStep, QueuedEvent, InsertJob, EnqueueJob, InProgressEvent, CompletedEvent,
              RetryJob, CancelJob, WriteBusy, WriteFinished, CreatedEvent, AddRepo, AddedEvent, RemovedEvent,
              CancelForRepo, WriteFails, ReconcilerStep, ListActive, ListContainers, SweepRow, RemoveOrphan,
              PassGrace, Settle, ReadStale, CompleteStale, WorldStep, ClockStep, AgeJob, MatureJob, AgeRunner,
              Crash, Exit, ProcessGone, Restart
<1> QED BY TypeCorrect, EndsInvariant, <1>1, PTL DEF Spec, FallbackSparesInstalled
=============================================================================
