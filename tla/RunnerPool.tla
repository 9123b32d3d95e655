----------------------------- MODULE RunnerPool -----------------------------
(***************************************************************************)
(* The whole pool engine: store, scheduler, webhook and admin handlers and *)
(* reconciler running against GitHub and docker, with process crashes and  *)
(* restarts (cmd/gharp/main.go).                                           *)
(***************************************************************************)
EXTENDS Reconciler

processVars == <<schedulerVars, handlerVars, reconcilerVars>>
vars == <<storeVars, worldVars, processVars>>

Init ==
  /\ StoreInit /\ WorldInit
  /\ SchedulerInit /\ WebhooksInit /\ ReconcilerInit

----------------------------------------------------------------------------
(* Whatever the process held in memory is gone; docker run clients that    *)
(* were its children die with or without having created their container.   *)
ProcessGone ==
  /\ phase' = "down"
  /\ jobCh' = <<>> /\ timers' = [j \in Jobs |-> 0] /\ Idle
  /\ inserting' = {} /\ enqueueing' = {} /\ cancelling' = {} /\ adding' = {}
  /\ busyWrites' = {} /\ finishWrites' = {}
  /\ tick' = "idle" /\ rows' = {} /\ alive' = {} /\ orphans' = {} /\ staleReads' = {}
  /\ spawned' \in SUBSET spawned
  /\ UNCHANGED <<storeVars, jobWorld, installed, containers, settled>>

Crash == "crash" \in Env /\ Alive /\ ProcessGone

(* main returns once RunWithDrain has: ListenAndServe does not wait for    *)
(* srv.Shutdown, so neither does the process for the handlers in flight.   *)
Exit ==
  /\ phase \in {"stopping", "draining"} /\ pc = "idle"
  /\ ProcessGone

(* RunWithDrain replays before it selects; a failed query is logged.       *)
Restart ==
  /\ phase = "down"
  /\ phase' = "up"
  /\ ReplayInto(<<>>) \/ ("storeError" \in Env /\ jobCh' = <<>>)
  /\ UNCHANGED <<storeVars, worldVars, timers, workerVars, handlerVars, reconcilerVars>>

----------------------------------------------------------------------------
(* A name the tick still mentions is not taken back either.                *)
Forgotten(r) == r \notin rows \cup alive \cup orphans

SchedulerStep ==
  \/ Replay \/ Receive \/ CheckCap \/ CheckInstallation \/ CheckTruth \/ Confirm404
  \/ \E r \in Runners : Forgotten(r) /\ InsertRow(r)
  \/ StartContainer \/ ObserveLaunch \/ GiveUp \/ MarkDispatched \/ StoreFails
  \/ \E j \in Jobs : TimerFires(j)
  \/ Stop \/ DrainExpires

HandlerStep ==
  \/ \E j \in Jobs : \/ QueuedEvent(j) \/ InsertJob(j) \/ EnqueueJob(j)
                     \/ InProgressEvent(j) \/ CompletedEvent(j)
                     \/ RetryJob(j) \/ CancelJob(j)
  \/ \E r \in Runners : WriteBusy(r) \/ WriteFinished(r)
  \/ \E p \in Repos : \/ CreatedEvent(p) \/ AddRepo(p) \/ AddedEvent(p)
                     \/ RemovedEvent(p) \/ CancelForRepo(p)
  \/ WriteFails

ReconcilerStep ==
  \/ ListActive \/ ListContainers
  \/ \E r \in Runners : SweepRow(r) \/ RemoveOrphan(r) \/ PassGrace(r)
  \/ \E j \in Jobs : ReadStale(j) \/ \E c \in Outcomes : CompleteStale(j, c)

(* The rest of the world, which leaves the process alone.                  *)
WorldStep ==
  /\ \/ \E j \in Jobs : \/ AssignForeign(j)
                        \/ FinishOnGitHub(j) \/ CancelOnGitHub(j)
                        \/ \E r \in Runners : AssignOurs(j, r)
     \/ \E p \in Repos : Uninstall(p)
     \/ \E r \in Runners : ContainerUp(r) \/ SpawnFails(r) \/ ContainerExits(r)
  /\ UNCHANGED processVars

(* A launch is settled in seconds: no row outlives RUNNER_MAX_LIFETIME     *)
(* before it is.                                                           *)
ClockStep ==
  /\ \/ \E j \in Jobs : AgeJob(j) \/ MatureJob(j)
     \/ \E r \in Runners : AgeRunner(r) /\ ~(r = name /\ pc \in Launching)
  /\ UNCHANGED <<worldVars, processVars>>

Next ==
  \/ SchedulerStep /\ UNCHANGED <<handlerVars, reconcilerVars>>
  \/ HandlerStep /\ UNCHANGED reconcilerVars
  \/ ReconcilerStep
  \/ WorldStep
  \/ ClockStep
  \/ Crash \/ Exit \/ Restart

Spec == Init /\ [][Next]_vars

(* Fairness, as the code schedules it: the worker never parks inside a     *)
(* dispatch; the select picks at random among its ready cases, so neither  *)
(* the ticker nor the channel starves the other; every started goroutine   *)
(* and timer runs; the tick comes round every minute and the clock runs.   *)
(* Of the world: GitHub hands a queued job to a runner that listens, jobs  *)
(* end, docker run comes to something and does not fail for ever, and --rm *)
(* containers exit once their job is over.  No fairness on deliveries:     *)
(* every webhook may be lost.                                              *)
DispatchStep ==
  /\ \/ CheckCap \/ CheckInstallation \/ CheckTruth \/ Confirm404
     \/ \E r \in Runners : Forgotten(r) /\ InsertRow(r)
     \/ StartContainer \/ ObserveLaunch \/ GiveUp \/ MarkDispatched
  /\ UNCHANGED <<handlerVars, reconcilerVars>>

TickStep == \/ ListActive \/ ListContainers
            \/ \E r \in Runners : SweepRow(r) \/ RemoveOrphan(r)

SchedulerFairness ==
  /\ WF_vars(DispatchStep)
  /\ SF_vars(Receive /\ UNCHANGED <<handlerVars, reconcilerVars>>)
  /\ SF_vars(Replay /\ UNCHANGED <<handlerVars, reconcilerVars>>)

ReconcilerFairness ==
  /\ WF_vars(TickStep)
  /\ \A j \in Jobs : /\ WF_vars(ReadStale(j))
                     /\ \A c \in Outcomes : WF_vars(CompleteStale(j, c))

WorldFairness ==
  /\ SF_vars((\E r \in Runners : ContainerUp(r)) /\ UNCHANGED processVars)
  /\ \A j \in Jobs :
       /\ SF_vars(\E r \in Runners : AssignOurs(j, r) /\ UNCHANGED processVars)
       /\ WF_vars(FinishOnGitHub(j) /\ UNCHANGED processVars)
       /\ WF_vars(AgeJob(j) /\ UNCHANGED <<worldVars, processVars>>)
  /\ \A r \in Runners :
       /\ WF_vars((ContainerUp(r) \/ SpawnFails(r)) /\ UNCHANGED processVars)
       /\ WF_vars(Exiting(r) /\ ContainerExits(r) /\ UNCHANGED processVars)
       /\ WF_vars(AgeRunner(r) /\ ~(r = name /\ pc \in Launching)
                  /\ UNCHANGED <<worldVars, processVars>>)

FairSpec == Spec /\ SchedulerFairness /\ ReconcilerFairness /\ WorldFairness

----------------------------------------------------------------------------
(* Every variable holds a value of its kind, and the channel respects its  *)
(* capacity.                                                               *)
TypeOK == /\ StoreTypeOK /\ WorldTypeOK /\ SchedulerTypeOK
          /\ HandlersTypeOK /\ ReconcilerTypeOK

(* The jobs table keeps the promises of JobLifecycle: no late, duplicate   *)
(* or reordered webhook, sweep, cancel or dispatch write moves a claimed   *)
(* row back, replaces its runner or rewrites the conclusion it ended with. *)
Lifecycle == INSTANCE JobLifecycle WITH
  Jobs <- Jobs, NoRunner <- NoRunner,
  status <- status, conclusion <- conclusion, claimant <- claimant
LifecycleSpec == Lifecycle!Spec

(* Rows that were active ever since they were inserted: what is left of    *)
(* the active rows once the late 'busy' writes are set apart.              *)
Slots == ActiveRunners \ revived

(* The cap check, read some steps before the insert it allows, still       *)
(* bounds the rows the scheduler created: nothing between the two can use  *)
(* the slot up.                                                            *)
CapRespected == Cardinality(Slots) <= MaxConcurrentRunners

(* Seen from outside, the cap is a counting semaphore whose holders are    *)
(* the rows: the check, the insert some steps later and every write that   *)
(* retires a row come down to taking and giving back one place at a time.  *)
CapSlots == INSTANCE Semaphore WITH
  Holders <- Runners, Limit <- MaxConcurrentRunners, held <- Slots
CapSlotsSpec == CapSlots!Spec

(* ... and a dispatch past the check still has its slot to take.           *)
SlotReserved == pc \in Admitted => Cardinality(Slots) < MaxConcurrentRunners

(* No second runner for a job whose first one is still booting: neither a  *)
(* duplicate copy in the channel nor a replay gets as far as the insert    *)
(* unless the row is an aged rescue candidate, or was claimed or ended     *)
(* since the dispatch read it.                                             *)
NoDuplicateRunner ==
  pc = "insert" /\ (status[cur] = "pending" \/ (status[cur] = "dispatched" /\ cur \notin aged))
    => \A r \in ActiveRunners : rowJob[r] # cur

(* No more runners listen for or work on jobs than the cap allows: a row   *)
(* is never taken off the active ones while its runner still is.           *)
RunningWithinCap == Cardinality(Running) <= MaxConcurrentRunners

(* Why: whoever listens or works holds a slot.  It rests on what a launch  *)
(* may rely on - nothing but the end of its job retires a row that is      *)
(* being launched, and a name that is launched or given up has no          *)
(* container - and on finish writes coming only after the end.             *)
RunnersHoldSlots == Running \subseteq Slots

LaunchUndisturbed ==
  /\ spawned \cap containers = {}
  /\ pc \in {"launch", "giveup"} => name \notin spawned \cup containers
  /\ pc \in {"launch", "observe"} => name \in Slots \/ Exiting(name)
  /\ pc \in Launching => name \notin overdue
  /\ \A r \in finishWrites : Exiting(r)

(* The orphan sweep never removes the container of an active row that is   *)
(* in the middle of a job, though it works from a list taken before the    *)
(* ghost sweep and rows come and go meanwhile.                             *)
OrphanSweepSparesWorkers ==
  \A r \in orphans : ~(Working(r) /\ r \in ActiveRunners)

(* A finished runner is not resurrected: no row goes from finished to      *)
(* busy.                                                                   *)
FinishedStaysFinished ==
  [][\A r \in Runners : row[r] = "finished" => row'[r] # "busy"]_row

(* Once the mapping of an uninstalled repository is removed it stays       *)
(* removed, so that dispatch's missing-installation fallback ends every    *)
(* job that was inserted too late for the cancel.                          *)
RemovedMappingStaysRemoved ==
  [][\A p \in Repos : p \notin installed /\ p \notin mapped => p \notin mapped']_mapped

(* A row ends as GitHub says its job ended, though the answer it is ended  *)
(* with may be as old as the sweep or the dispatch that asked for it; a    *)
(* cancellation GitHub knows nothing of takes a repository the App was     *)
(* removed from, an admin, an API that denies the job twice or a missed    *)
(* installation.                                                           *)
Reported(j, c) ==
  \/ gh[j] = c
  \/ /\ c = "cancelled"
     /\ RepoOf[j] \notin installed \/ {"cancel", "apiError", "install"} \cap Env # {}

EndsAsReported ==
  \A j \in Jobs : status[j] = "completed" => Reported(j, conclusion[j])

(* A repository whose installation event was missed is mapped by the       *)
(* queued event itself, so that the missing-installation fallback of the   *)
(* dispatch ends only jobs of repositories the App was removed from.       *)
FallbackSparesInstalled ==
  [][pc = "install" /\ pc' = "idle" /\ status[cur] # "completed" /\ status'[cur] = "completed"
       => RepoOf[cur] \notin installed]_vars

(* A job that was recorded ends, even when the process crashes at any      *)
(* point (and then stays up) and every later webhook is lost: the replay,  *)
(* the rescue of stuck dispatches and the stale sweep make up for them.    *)
EventuallyCompleted ==
  \A j \in Jobs : (status[j] # "none" /\ [](phase = "up")) ~> (status[j] = "completed")

(* Every cap slot is given back: an active row, whether its container      *)
(* never came up, its launch crashed, its events were lost or a late busy  *)
(* write revived it, ends up finished.                                     *)
SlotsFreed ==
  \A r \in Runners : (r \in ActiveRunners /\ [](phase = "up")) ~> (row[r] = "finished")

(* No handler is between two of its statements.                            *)
HandlersDone ==
  /\ inserting = {} /\ enqueueing = {} /\ cancelling = {} /\ adding = {}
  /\ busyWrites = {} /\ finishWrites = {}

(* A graceful exit drains the HTTP server: the process does not go away    *)
(* under a handler that is between two of its statements.                  *)
ExitDrainsHandlers ==
  [][phase # "up" /\ phase' = "down" => HandlersDone]_vars
============================================================================
