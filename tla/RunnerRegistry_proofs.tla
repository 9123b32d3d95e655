----------------------- MODULE RunnerRegistry_proofs -----------------------
(***************************************************************************)
(* The GitHub-side sweep deregisters no runner that listens or works, for  *)
(* every value of the constants: what RunnerPool_proofs shows of the pool  *)
(* engine, carried over to the engine with the sweep.                      *)
(***************************************************************************)
EXTENDS RunnerRegistry, RunnerPool_proofs

USE DEF registryVars, sweepVars, vars, processVars, storeVars, jobVars, runnerVars, installVars, worldVars,
        jobWorld, docker, schedulerVars, queueVars, workerVars, handlerVars, reconcilerVars,
        tickVars

LEMMA PoolStepsOnly ==
  ASSUME [RegistryNext]_<<vars, registryVars>>
  PROVE  [Next]_vars
BY DEF RegistryNext, PoolStep

LEMMA PoolBehaviour == RegistrySpec => Spec
<1>1. RegistryInit => Init
  BY DEF RegistryInit
<1> QED BY <1>1, PoolStepsOnly, PTL DEF RegistrySpec, Spec

----------------------------------------------------------------------------
(* A row gets into a slot only by being inserted.                          *)

Inserted(r) == row[r] # "starting" /\ row'[r] = "starting"

LEMMA SlotsComeFromInserts ==
  ASSUME TypeOK, [Next]_vars
  PROVE  \A r \in Slots' \ Slots : Inserted(r)
<1> USE DEF TypeOK
<1>0. CASE UNCHANGED <<row, revived>>
  BY <1>0, SameSlots
<1>1. ASSUME NEW r \in Runners, InsertRow(r)
      PROVE  \A x \in Slots' \ Slots : Inserted(x)
  <2>1. Slots' = Slots \cup {r}
    BY <1>1, InsertSlots DEF InsertRow
  <2>2. Inserted(r)
    BY <1>1 DEF InsertRow, InsertRunner, Inserted, StoreTypeOK
  <2> QED BY <2>1, <2>2
<1>2. ASSUME NEW r \in Runners, NEW s \in {"busy", "finished"}, UpdateRunnerStatus(r, s)
      PROVE  \A x \in Slots' \ Slots : Inserted(x)
  BY <1>2, StatusWriteSlots
<1>3. CASE SchedulerStep
  <2>1. CASE GiveUp
    BY <1>2, <2>1 DEF GiveUp, SchedulerTypeOK, Launching
  <2> QED BY <1>0, <1>1, <1>3, <2>1
          DEF SchedulerStep, Replay, Receive, CheckCap, CheckInstallation, CheckTruth,
              Confirm404, StartContainer, ObserveLaunch, MarkDispatched, StoreFails,
              TimerFires, Stop, DrainExpires
<1>4. CASE HandlerStep
  <2>1. ASSUME NEW r \in Runners, WriteBusy(r) \/ WriteFinished(r)
        PROVE  \A x \in Slots' \ Slots : Inserted(x)
    BY <1>2, <2>1 DEF WriteBusy, WriteFinished
  <2> QED BY <1>0, <1>4, <2>1
          DEF HandlerStep, QueuedEvent, InsertJob, EnqueueJob, InProgressEvent, CompletedEvent,
              RetryJob, CancelJob, CreatedEvent, AddRepo, AddedEvent, RemovedEvent,
              CancelForRepo, WriteFails
<1>5. CASE ReconcilerStep
  <2>1. ASSUME NEW r \in Runners, SweepRow(r)
        PROVE  \A x \in Slots' \ Slots : Inserted(x)
    BY <1>0, <1>2, <2>1 DEF SweepRow, KeepRow, RetireRow
  <2> QED BY <1>0, <1>5, <2>1
          DEF ReconcilerStep, ListActive, ListContainers, RemoveOrphan, PassGrace, Settle,
              ReadStale, CompleteStale
<1>6. CASE WorldStep \/ ClockStep \/ Crash \/ Exit \/ Restart \/ UNCHANGED vars
  BY <1>0, <1>6
     DEF WorldStep, AssignForeign, AssignOurs, Assign, FinishOnGitHub, CancelOnGitHub,
         Uninstall, ContainerUp, SpawnFails, ContainerExits, ClockStep, AgeJob, MatureJob,
         AgeRunner, Crash, Exit, ProcessGone, Restart
<1> QED BY <1>3, <1>4, <1>5, <1>6 DEF Next

LEMMA GhostsStep ==
  ASSUME TypeOK, RegistryTypeOK, GhostsHoldNoSlot, [RegistryNext]_<<vars, registryVars>>
  PROVE  (RegistryTypeOK /\ GhostsHoldNoSlot)'
<1> USE DEF RegistryTypeOK, GhostsHoldNoSlot
<1>1. CASE PoolStep
  <2>1. \A r \in Slots' \ Slots : Inserted(r)
    BY <1>1, SlotsComeFromInserts DEF PoolStep
  <2> QED BY <1>1, <2>1 DEF PoolStep, Consistent, Inserted
<1>2. CASE UNCHANGED vars
  <2>1. Slots' = Slots
    BY <1>2, SameSlots
  <2>2. Slots \subseteq ActiveRunners /\ ActiveRunners \subseteq Runners
    BY DEF Slots, ActiveRunners
  <2>3. CASE StartSweep
    BY <1>2, <2>1, <2>2, <2>3 DEF StartSweep, TypeOK, StoreTypeOK
  <2>4. CASE Recheck
    BY <2>1, <2>2, <2>4 DEF Recheck, NextRepo
  <2>5. ASSUME NEW p \in Repos, ListRunners(p)  PROVE (RegistryTypeOK /\ GhostsHoldNoSlot)'
    BY <2>1, <2>5 DEF ListRunners, ListAnswered, ListSkipped, NextRepo
  <2>6. ASSUME NEW r \in Runners, DeleteGhost(r)  PROVE (RegistryTypeOK /\ GhostsHoldNoSlot)'
    BY <2>1, <2>6 DEF DeleteGhost, NextRepo
  <2>7. ASSUME NEW r \in Runners, Register(r) \/ Deregister(r)
        PROVE  (RegistryTypeOK /\ GhostsHoldNoSlot)'
    BY <2>1, <2>7 DEF Register, Deregister
  <2>8. CASE UNCHANGED registryVars
    BY <2>1, <2>8
  <2>9. \/ PoolStep \/ SweepStep \/ UNCHANGED registryVars
        \/ \E r \in Runners : Register(r) \/ Deregister(r)
    BY DEF RegistryNext
  <2> QED BY <1>1, <2>3, <2>4, <2>5, <2>6, <2>7, <2>8, <2>9 DEF SweepStep
<1> QED BY <1>1, <1>2 DEF RegistryNext

(* No runner that listens for a job or works on one is taken off GitHub's  *)
(* file, although the rows were read some calls before the deletion and    *)
(* the scheduler inserts new ones all the while.                           *)
THEOREM SweepSparesRunners ==
  ASSUME "slowStart" \notin Env
  PROVE  RegistrySpec => []DeregisterSparesRunners
<1>1. RegistryInit => RegistryTypeOK /\ GhostsHoldNoSlot
  BY DEF RegistryInit, RegistryTypeOK, GhostsHoldNoSlot
<1>2. TypeOK /\ RegistryTypeOK /\ GhostsHoldNoSlot /\ [RegistryNext]_<<vars, registryVars>>
        => (RegistryTypeOK /\ GhostsHoldNoSlot)'
  BY GhostsStep
<1>3. RunnersHoldSlots /\ GhostsHoldNoSlot => DeregisterSparesRunners
  BY DEF RunnersHoldSlots, GhostsHoldNoSlot, DeregisterSparesRunners
<1> QED BY PoolBehaviour, TypeCorrect, RunnersKeepSlots, <1>1, <1>2, <1>3, PTL DEF RegistrySpec

=============================================================================
