----------------------------- MODULE Scheduler -----------------------------
(***************************************************************************)
(* The scheduler (internal/scheduler/scheduler.go): a bounded channel of   *)
(* job ids, the re-enqueue timers of the cap backoff, and one worker that  *)
(* either replays the pending rows or carries one job through the dispatch *)
(* steps.  Every store or network call of dispatchWithContext is a step of *)
(* its own, so everything else may happen between two of them.             *)
(***************************************************************************)
EXTENDS GitHub, Sequences

CONSTANTS
  MaxConcurrentRunners,
  QueueCap,        \* capacity of jobCh (256 in New)
  LaunchRetryMax,  \* attempts of launchWithRetry (3 in New)
  TimerCap         \* bound of the model: armed timers told apart per job

ASSUME SchedulerAssumption ==
  /\ MaxConcurrentRunners \in Nat \ {0}
  /\ QueueCap \in Nat \ {0}
  /\ LaunchRetryMax \in Nat \ {0}
  /\ TimerCap \in Nat \ {0}

VARIABLES
  phase,   \* "up"; "stopping": runCtx is cancelled, the worker may take one
           \* more id; "draining": no more ids; "down": no process
  jobCh,   \* the channel
  timers,  \* re-enqueue timers armed, per job
  pc,      \* where the worker is in dispatchWithContext
  cur,     \* the job it dispatches
  name,    \* the row it inserted for it
  attempt  \* launch attempts so far

workerVars    == <<pc, cur, name, attempt>>
queueVars     == <<jobCh, timers>>
schedulerVars == <<phase, queueVars, workerVars>>

PCs == {"idle", "cap", "install", "truth", "confirm404", "insert",
        "launch", "observe", "mark", "giveup"}

(* Past the cap check: the worker is entitled to one more active row.      *)
Admitted == {"install", "truth", "confirm404", "insert"}
(* The row exists and the launch is not settled yet.                       *)
Launching == {"launch", "observe", "mark", "giveup"}

SchedulerInit ==
  /\ phase = "up"
  /\ jobCh = <<>> /\ timers = [j \in Jobs |-> 0]
  /\ pc = "idle" /\ cur = NoJob /\ name = NoRunner /\ attempt = 0

----------------------------------------------------------------------------
(* Mutant: the send does not look at the capacity.                         *)
EnqueueUnbounded(ch, j) == Append(ch, j)

(* Non-blocking send: a full channel drops the id, the row stays pending.  *)
Enqueue(ch, j) == IF Len(ch) < QueueCap THEN Append(ch, j) ELSE ch

(* Every order a replay may send the ids of S in (ORDER BY received_at).   *)
Orders(S) == {s \in [1..Cardinality(S) -> S] :
                \A i, k \in 1..Cardinality(S) : s[i] = s[k] => i = k}

ReplayInto(ch) ==
  \E s \in Orders(PendingJobs) :
    LET sent == ch \o s
    IN  jobCh' = IF Len(sent) <= QueueCap THEN sent ELSE SubSeq(sent, 1, QueueCap)

Idle == pc' = "idle" /\ cur' = NoJob /\ name' = NoRunner /\ attempt' = 0
Goto(label) == pc' = label /\ UNCHANGED <<cur, name, attempt>>

Alive == phase # "down"

----------------------------------------------------------------------------
(* The ticker case of the select.                                          *)
Replay ==
  /\ phase = "up" /\ pc = "idle"
  /\ ReplayInto(jobCh)
  /\ UNCHANGED <<storeVars, worldVars, phase, timers, workerVars>>

(* Mutant: every dispatched row is.                                        *)
RescuableAtAnyAge(j) == Dispatchable(j)

(* A dispatched row is a rescue candidate only once it is aged; a younger  *)
(* one is a duplicate copy of a job whose runner is booting.               *)
Rescuable(j) == \/ status[j] = "pending"
                \/ status[j] = "dispatched" /\ j \in aged

(* Pop, GetJob and the two guards on what it returned.  A failed GetJob    *)
(* loses the copy, not the row.  With runCtx cancelled the select may take *)
(* the channel all the same, for the last time.                            *)
Receive ==
  /\ phase \in {"up", "stopping"} /\ pc = "idle" /\ jobCh # <<>>
  /\ phase' = IF phase = "stopping" THEN "draining" ELSE phase
  /\ jobCh' = Tail(jobCh)
  /\ \/ /\ Rescuable(Head(jobCh))
        /\ pc' = "cap" /\ cur' = Head(jobCh)
        /\ UNCHANGED <<name, attempt>>
     \/ /\ ~Rescuable(Head(jobCh)) \/ "storeError" \in Env
        /\ UNCHANGED workerVars
  /\ UNCHANGED <<storeVars, worldVars, timers>>

(* Mutant: off by one.                                                     *)
PastCap == ActiveRunnerCount > MaxConcurrentRunners

AtCap == ActiveRunnerCount >= MaxConcurrentRunners

CheckCap ==
  /\ Alive /\ pc = "cap"
  /\ IF AtCap
     THEN /\ timers' = [timers EXCEPT ![cur] = IF @ < TimerCap THEN @ + 1 ELSE @]
          /\ Idle
     ELSE Goto("install") /\ UNCHANGED timers
  /\ UNCHANGED <<storeVars, worldVars, phase, jobCh>>

CheckInstallation ==
  /\ Alive /\ pc = "install"
  /\ \/ RepoOf[cur] \in mapped /\ Goto("truth") /\ UNCHANGED jobVars
     \/ RepoOf[cur] \notin mapped /\ cur \in young /\ Idle /\ UNCHANGED jobVars
     \/ RepoOf[cur] \notin mapped /\ cur \notin young /\ Idle /\ CancelJobIfPending(cur)
  /\ UNCHANGED <<runnerVars, installVars, worldVars, phase, queueVars>>

(* Tokens, then GitHub's own state of the job.  No token is to be had for  *)
(* a repository the App was removed from.  Whatever the row says by now is *)
(* left to the guards of the statements.                                   *)
CheckTruth ==
  /\ Alive /\ pc = "truth"
  /\ \/ /\ \/ RepoOf[cur] \notin installed
           \/ "apiError" \in Env
           \/ gh[cur] = "in_progress"
        /\ Idle /\ UNCHANGED jobVars
     \/ /\ RepoOf[cur] \in installed
        /\ gh[cur] = "queued" \/ "apiError" \in Env
        /\ Goto("insert") /\ UNCHANGED jobVars
     \/ /\ RepoOf[cur] \in installed /\ "apiError" \in Env
        /\ Goto("confirm404") /\ UNCHANGED jobVars
     \/ /\ RepoOf[cur] \in installed /\ GitHubDone(cur)
        /\ Idle /\ MarkJobCompleted(cur, gh[cur])
  /\ UNCHANGED <<runnerVars, installVars, worldVars, phase, queueVars>>

(* The second read after a 404: still not found cancels, anything else     *)
(* goes on.                                                                *)
Confirm404 ==
  /\ Alive /\ pc = "confirm404"
  /\ \/ Goto("insert") /\ UNCHANGED jobVars
     \/ Idle /\ CancelJobIfPending(cur)
  /\ UNCHANGED <<runnerVars, installVars, worldVars, phase, queueVars>>

(* Names carry random bytes and are never generated twice; the model takes *)
(* back those that nothing mentions any more.                              *)
Unmentioned(r) == r \notin spawned \cup containers /\ ~Assigned(r)

InsertRow(r) ==
  /\ Alive /\ pc = "insert"
  /\ row[r] \in {"none", "finished"} /\ Unmentioned(r)
  /\ InsertRunner(r, cur)
  /\ pc' = "launch" /\ name' = r /\ attempt' = 1 /\ UNCHANGED cur
  /\ UNCHANGED <<jobVars, installVars, worldVars, phase, queueVars>>

(* Launch starts docker run ...                                            *)
StartContainer ==
  /\ Alive /\ pc = "launch"
  /\ spawned' = spawned \cup {name}
  /\ Goto("observe")
  /\ UNCHANGED <<storeVars, jobWorld, installed, containers, settled, phase, queueVars>>

(* Mutant: giving up the watch counts as a failed attempt.                 *)
ObserveLaunchImpatient ==
  /\ Alive /\ pc = "observe"
  /\ \/ Goto("mark")
     \/ /\ attempt < LaunchRetryMax
        /\ pc' = "launch" /\ attempt' = attempt + 1 /\ UNCHANGED <<cur, name>>
     \/ attempt = LaunchRetryMax /\ Goto("giveup")
  /\ UNCHANGED <<storeVars, worldVars, phase, queueVars>>

(* ... and watches it for launchObserveWindow: only an exit seen within    *)
(* the window is an error, and only a non-zero one, which a runner that    *)
(* was given its job does not return.                                      *)
ObserveLaunch ==
  /\ Alive /\ pc = "observe"
  /\ \/ Goto("mark")
     \/ /\ Unmentioned(name)
        /\ IF attempt < LaunchRetryMax
           THEN pc' = "launch" /\ attempt' = attempt + 1 /\ UNCHANGED <<cur, name>>
           ELSE Goto("giveup")
  /\ UNCHANGED <<storeVars, worldVars, phase, queueVars>>

(* Every attempt failed: the job stays pending, the row is retired.        *)
GiveUp ==
  /\ Alive /\ pc = "giveup"
  /\ UpdateRunnerStatus(name, "finished")
  /\ Idle
  /\ UNCHANGED <<jobVars, installVars, worldVars, phase, queueVars>>

MarkDispatched ==
  /\ Alive /\ pc = "mark"
  /\ MarkJobDispatched(cur)
  /\ Idle
  /\ UNCHANGED <<runnerVars, installVars, worldVars, phase, queueVars>>

(* A store call of the dispatch fails: logged, and the dispatch is over    *)
(* with nothing written.                                                   *)
StoreFails ==
  /\ "storeError" \in Env /\ Alive
  /\ pc \notin {"idle", "launch", "observe"}
  /\ Idle
  /\ UNCHANGED <<storeVars, worldVars, phase, queueVars>>

(* A timer of the cap backoff.                                             *)
TimerFires(j) ==
  /\ Alive /\ timers[j] > 0
  /\ timers' = [timers EXCEPT ![j] = @ - 1]
  /\ jobCh' = IF phase = "up" THEN Enqueue(jobCh, j) ELSE jobCh
  /\ UNCHANGED <<storeVars, worldVars, phase, workerVars>>

----------------------------------------------------------------------------
(* Shutdown: the signal cancels runCtx and leaves the dispatch in flight   *)
(* its drain timeout; past it, drainCtx fails every call the dispatch has  *)
(* left, every docker run client is killed with or without a container to  *)
(* show for it, and a row the dispatch inserted stays 'starting'.          *)
Stop ==
  /\ "shutdown" \in Env /\ phase = "up"
  /\ phase' = IF pc = "idle" THEN "stopping" ELSE "draining"
  /\ UNCHANGED <<storeVars, worldVars, queueVars, workerVars>>

DrainExpires ==
  /\ phase = "draining" /\ pc # "idle"
  /\ Idle
  /\ spawned' \in SUBSET spawned
  /\ UNCHANGED <<storeVars, jobWorld, installed, containers, settled, phase, queueVars>>
----------------------------------------------------------------------------
SchedulerTypeOK ==
  /\ phase \in {"up", "stopping", "draining", "down"}
  /\ jobCh \in Seq(Jobs) /\ Len(jobCh) <= QueueCap
  /\ timers \in [Jobs -> 0..TimerCap]
  /\ pc \in PCs
  /\ cur \in Jobs \cup {NoJob} /\ (pc # "idle" => cur \in Jobs)
  /\ name \in Runners \cup {NoRunner} /\ (pc \in Launching => name \in Runners)
  /\ attempt \in 0..LaunchRetryMax
============================================================================
