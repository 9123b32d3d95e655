------------------------------ MODULE Webhooks ------------------------------
(***************************************************************************)
(* The handlers that write the store from outside the scheduler: the       *)
(* webhook endpoint (internal/httpapi/handlers/webhook.go) and the admin   *)
(* job endpoints (handlers/jobs.go).  Handlers run concurrently with each  *)
(* other and with everything else; each statement is one step, and the     *)
(* variables below hold the handlers that are between two statements.      *)
(*                                                                         *)
(* GitHub delivers an event at any time after the fact it reports, in any  *)
(* order, more than once, or never.                                        *)
(***************************************************************************)
EXTENDS Scheduler

VARIABLES
  inserting,    \* queued events past the lazy mapping upsert
  enqueueing,   \* rows inserted or retried, not yet sent to the channel
  busyWrites,   \* in_progress events that advanced the job row
  finishWrites, \* completed events that completed the job row
  cancelling,   \* removed repos whose pending jobs are not cancelled yet
  adding        \* repos of installation events past the installation's own row

handlerVars == <<inserting, enqueueing, busyWrites, finishWrites, cancelling, adding>>

WebhooksInit ==
  /\ inserting = {} /\ enqueueing = {} /\ cancelling = {} /\ adding = {}
  /\ busyWrites = {} /\ finishWrites = {}

Listening == phase = "up"

----------------------------------------------------------------------------
(* A mapping is written as a matter of course: a failure, of the statement *)
(* or of its foreign key, is logged and the handler goes on.               *)
TryUpsert(p) == \/ UpsertRepoInstallation(p)
                \/ "storeError" \in Env /\ UNCHANGED installVars

(* workflow_job: queued, for a job the label, visibility and owner filters *)
(* let through.                                                            *)
QueuedEvent(j) ==
  /\ Listening /\ j \notin inserting \cup enqueueing
  /\ status[j] = "none" \/ "redeliver" \in Env
  /\ TryUpsert(RepoOf[j])
  /\ inserting' = inserting \cup {j}
  /\ UNCHANGED <<jobVars, runnerVars, worldVars, schedulerVars,
                 enqueueing, busyWrites, finishWrites, cancelling, adding>>

InsertJob(j) ==
  /\ Alive /\ j \in inserting
  /\ inserting' = inserting \ {j}
  /\ InsertJobIfNew(j)
  /\ enqueueing' = IF status[j] = "none" THEN enqueueing \cup {j} ELSE enqueueing
  /\ UNCHANGED <<runnerVars, installVars, worldVars, schedulerVars,
                 busyWrites, finishWrites, cancelling, adding>>

EnqueueJob(j) ==
  /\ Alive /\ j \in enqueueing
  /\ enqueueing' = enqueueing \ {j}
  /\ jobCh' = Enqueue(jobCh, j)
  /\ UNCHANGED <<storeVars, worldVars, phase, timers, workerVars,
                 inserting, busyWrites, finishWrites, cancelling, adding>>

(* workflow_job: in_progress.  An event without a runner name is dropped.  *)
InProgressEvent(j) ==
  /\ Listening /\ ghRunner[j] # NoRunner
  /\ MarkJobInProgress(j, ghRunner[j])
  /\ busyWrites' = IF Dispatchable(j)
                   THEN busyWrites \cup ({ghRunner[j]} \cap Runners) ELSE busyWrites
  /\ UNCHANGED <<runnerVars, installVars, worldVars, schedulerVars,
                 inserting, enqueueing, finishWrites, cancelling, adding>>

WriteBusy(r) ==
  /\ Alive /\ r \in busyWrites
  /\ busyWrites' = busyWrites \ {r}
  /\ UpdateRunnerStatus(r, "busy")
  /\ UNCHANGED <<jobVars, installVars, worldVars, schedulerVars,
                 inserting, enqueueing, finishWrites, cancelling, adding>>

(* workflow_job: completed                                                 *)
CompletedEvent(j) ==
  /\ Listening /\ GitHubDone(j)
  /\ MarkJobCompleted(j, gh[j])
  /\ finishWrites' = IF Completable(j)
                     THEN finishWrites \cup ({ghRunner[j]} \cap Runners) ELSE finishWrites
  /\ UNCHANGED <<runnerVars, installVars, worldVars, schedulerVars,
                 inserting, enqueueing, busyWrites, cancelling, adding>>

WriteFinished(r) ==
  /\ Alive /\ r \in finishWrites
  /\ finishWrites' = finishWrites \ {r}
  /\ UpdateRunnerStatus(r, "finished")
  /\ UNCHANGED <<jobVars, installVars, worldVars, schedulerVars,
                 inserting, enqueueing, busyWrites, cancelling, adding>>

----------------------------------------------------------------------------
(* installation: created writes the row of the installation, then the      *)
(* mapping of each repository; installation_repositories: added writes     *)
(* mappings only.                                                          *)
CreatedEvent(p) ==
  /\ "install" \in Env /\ Listening /\ p \notin mapped \cup adding
  /\ \/ UpsertInstallation(p)
     \/ "storeError" \in Env /\ UNCHANGED installVars
  /\ adding' = adding \cup {p}
  /\ UNCHANGED <<jobVars, runnerVars, worldVars, schedulerVars,
                 inserting, enqueueing, busyWrites, finishWrites, cancelling>>

AddRepo(p) ==
  /\ Alive /\ p \in adding
  /\ adding' = adding \ {p}
  /\ TryUpsert(p)
  /\ UNCHANGED <<jobVars, runnerVars, worldVars, schedulerVars,
                 inserting, enqueueing, busyWrites, finishWrites, cancelling>>

AddedEvent(p) ==
  /\ "install" \in Env /\ Listening
  /\ TryUpsert(p)
  /\ UNCHANGED <<jobVars, runnerVars, worldVars, schedulerVars, handlerVars>>

(* installation: deleted, installation_repositories: removed.  The mapping *)
(* goes first, the pending rows are cancelled after it; a store failure    *)
(* before the second statement ends the handler.                           *)
RemovedEvent(p) ==
  /\ Listening /\ p \notin installed /\ p \notin cancelling
  /\ RemoveRepoInstallation(p)
  /\ cancelling' = cancelling \cup {p}
  /\ UNCHANGED <<jobVars, runnerVars, worldVars, schedulerVars,
                 inserting, enqueueing, busyWrites, finishWrites, adding>>

CancelForRepo(p) ==
  /\ Alive /\ p \in cancelling
  /\ cancelling' = cancelling \ {p}
  /\ CancelPendingJobsForRepo(p)
  /\ UNCHANGED <<runnerVars, installVars, worldVars, schedulerVars,
                 inserting, enqueueing, busyWrites, finishWrites, adding>>

----------------------------------------------------------------------------
(* POST /jobs/{id}/retry and /cancel: the status read of GetJob decides    *)
(* only the answer, the statement repeats it.                              *)
RetryJob(j) ==
  /\ "retry" \in Env /\ Listening
  /\ status[j] = "completed" /\ j \notin enqueueing
  /\ RetryJobIfCompleted(j)
  /\ enqueueing' = enqueueing \cup {j}
  /\ UNCHANGED <<runnerVars, installVars, worldVars, schedulerVars,
                 inserting, busyWrites, finishWrites, cancelling, adding>>

CancelJob(j) ==
  /\ "cancel" \in Env /\ Listening /\ Dispatchable(j)
  /\ CancelJobIfPending(j)
  /\ UNCHANGED <<runnerVars, installVars, worldVars, schedulerVars, handlerVars>>

(* The second statement of a handler fails, or its client is gone: logged. *)
WriteFails ==
  /\ "storeError" \in Env /\ Alive
  /\ \/ \E j \in inserting : inserting' = inserting \ {j}
                             /\ UNCHANGED <<busyWrites, finishWrites, cancelling>>
     \/ \E r \in busyWrites : busyWrites' = busyWrites \ {r}
                             /\ UNCHANGED <<inserting, finishWrites, cancelling>>
     \/ \E r \in finishWrites : finishWrites' = finishWrites \ {r}
                             /\ UNCHANGED <<inserting, busyWrites, cancelling>>
     \/ \E p \in cancelling : cancelling' = cancelling \ {p}
                             /\ UNCHANGED <<inserting, busyWrites, finishWrites>>
  /\ UNCHANGED <<storeVars, worldVars, schedulerVars, enqueueing, adding>>
----------------------------------------------------------------------------
HandlersTypeOK ==
  /\ inserting \subseteq Jobs /\ enqueueing \subseteq Jobs /\ cancelling \subseteq Repos
  /\ adding \subseteq Repos
  /\ busyWrites \subseteq Runners /\ finishWrites \subseteq Runners
============================================================================
