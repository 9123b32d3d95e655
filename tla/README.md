# gharp and gharp-portal: TLA+ models, checks and proofs

This directory is the verification project kept beside two programs of the
repository:

- **gharp** (`cmd/gharp`, `internal/`): a daemon that receives GitHub
  `workflow_job` webhooks, keeps a queue of jobs in SQLite and launches one
  ephemeral runner container per job, at most `MAX_CONCURRENT_RUNNERS` at a time.
- **gharp-portal** (`gharp-portal/`): a multi-tenant front end that gives each
  invited GitHub user a slot of a host and starts and stops one gharp instance
  in it.

The models are translated from the Go and SQL sources. `PROJECT.json` maps every
definition to the lines it stands for, names for each run the properties it
checks, and for each property a *mutant*: a plausible bug in the code that makes
that property fail under the same configuration.

Contents: [1 inventory](#1-inventory), [2 modules](#2-modules-and-how-they-correspond-to-the-code),
[3 runs](#3-runs), [4 bounds and assumptions](#4-bounds-timing-assumptions-and-fairness),
[5 proofs](#5-proofs), [6 disagreements](#6-where-the-code-and-its-documentation-disagree),
[7 not modelled](#7-what-is-not-modelled), [8 plan](#8-plan).

## 1 Inventory

### gharp

| Component | Source | State | Operations | Makes it correct |
|---|---|---|---|---|
| Store | `internal/store/` | tables `jobs`, `runners`, `installations`, `installation_repos`, single-row settings | single SQL statements, most of them conditional (`UPDATE ... WHERE status ...`) | a job row is registered, claimed, ended once; a row's runner and conclusion are not rewritten |
| Scheduler | `internal/scheduler/scheduler.go` | bounded channel of job ids, cap-backoff timers, one worker | `Enqueue`, replay, `dispatchWithContext`, drain | the cap; one runner per job; no job is forgotten |
| Launcher | `internal/runner/docker.go` | `docker run` clients | `Launch` with an observe window; three attempts by the scheduler | no attempt meets the container of an earlier one |
| Webhooks | `internal/httpapi/handlers/webhook.go` | handlers in flight | `workflow_job` queued / in_progress / completed, `installation`, `installation_repositories`, `workflow_run` | late, repeated and reordered events are harmless |
| Admin endpoints | `internal/httpapi/handlers/jobs.go` | none | list, get, retry, cancel | only open rows are cancelled, only ended ones retried |
| Reconciler | `internal/reconciler/` | snapshots of a tick; working directories on the host | docker ghost/lifetime sweep, orphan sweep, GitHub ghost sweep, stale in_progress sweep, workdir and maintenance sweeps | every slot is given back, no worker is killed or deregistered, no container loses its directory and none is left behind |
| GitHub client | `internal/github/` | installation token cache | JWT, tokens, runner and job calls | a token is not used past its expiry, so a refused one means what the stale sweep takes it to mean |
| Notifications | `internal/notify/`, `handlers/notifications.go`, `handleWorkflowRun` | one settings row | token, connect, mode, switch, test, message of a run | overlapping edits may lose each other but leave a usable row; nothing is sent that was kept quiet |
| Configuration | `internal/config/config.go` | environment of the process | lists, numbers, flags | two pools told apart by their labels never take the same job |
| App settings | `handlers/callback.go`, `app_config.go`, `access.go`, `ownerAllowed` in `webhook.go` | the credentials row, the owner list | manifest callback, rotation, owner backfill, list edits, owner gate | rotations do not undo each other; answers are true; the gate fails closed |
| Process | `cmd/gharp/main.go` | phases up / stopping / draining / down | start with replay, signal, drain, exit | nothing is lost over a restart |
| Views | metrics, stats, dashboard, health | none | read only | |

The goroutines share the database (one connection, so a statement is atomic) and
the channel, nothing else: no lock is held from one statement to the next. Hard
behaviour comes from that: the cap is *checked* and the slot *taken* several
network calls apart; a webhook handler issues two statements with anything in
between; the channel does not dedupe; the tick works from a snapshot; containers
come up late, crash or outlive their rows; GitHub delivers late, twice, in
another order or never; the process may die between any two statements.

### gharp-portal

| Component | Source | State | Operations | Makes it correct |
|---|---|---|---|---|
| Store | `internal/store/` | `users`, `slots`, `assignments`, `sessions`, `audit_log` | transactions | slot statuses and assignments agree |
| Slots | `internal/slots/` | none | reload of `slots.yaml` | a reload does not lose assignments |
| Lifecycle | `internal/lifecycle/` | none (rows) | `Start`, `Stop`, health sweep, ticker | the shown state follows the instance |
| HTTP | `internal/httpapi/` | requests in flight | login, dashboard, admin endpoints, proxy | disabled users are out, one instance per user |
| Auth | `internal/auth/` | OAuth states (memory), sessions (rows), cookies | login, callback, middleware, logout, CSRF | a state is used once; what was disabled, deleted or expired before a request lets nothing through |
| Proxy | `internal/proxy/` | none | forward to the user's slot | a request reaches a slot its user held meanwhile |
| Wiring, scripts | `internal/wiring/`, `cmd/portal`, shell | none | | |

Requests run concurrently with each other and with the sweep; a start spans three
writes or commands and up to a minute of polling, and writes its result *by user
id*, whichever slot that row is about by then.

The hazards, each at its line, are listed in `PROJECT.json` under `hazards` with the properties
that would catch them, or the reason why none does yet.

## 2 Modules and how they correspond to the code

```
Store <- GitHub <- Scheduler <- Webhooks <- Reconciler <- RunnerPool <- RunnerRegistry
                     JobLifecycle, Semaphore (abstract) <-'  |  '------ Workdirs
                                 RunnerPool_proofs <---------'
                                 RunnerRegistry_proofs: RunnerRegistry and RunnerPool_proofs
                                 Workdirs_proofs: Workdirs and RunnerPool_proofs
Tenancy (abstract) <- PortalStore <- Portal
                          '-------- PortalAuth
                      PortalStore_proofs: the tables, whoever calls them
                      Portal_proofs: Portal and PortalStore_proofs; PortalAuth_proofs: PortalAuth and PortalStore_proofs
Settings <- Settings_proofs      TokenCache, Notifications, Admission
MCServices: Settings, TokenCache, Notifications, PortalAuth and Admission side by side
                      Services_proofs: MCServices, Settings_proofs and PortalAuth_proofs
MC<module>: the module with the constants of its runs
```

**Store** – the `jobs`, `runners`, `installations` and `installation_repos` tables; an upsert of a mapping
without its installation fails on the foreign key, and the removal of an installation cascades. One operator per
SQL statement, written as the statement is: `MarkJobInProgress`, for instance, is
`UPDATE ... WHERE status IN ('pending','dispatched')` and otherwise changes nothing. `updated_at`
and `received_at` are reduced to the questions asked of them: a row is in `aged`
when it is past the threshold of its status (`DispatchedReplayAge`,
`RUNNER_MAX_LIFETIME`), in `young` while it is within `noInstallationCancelAge`.
`revived` is a history variable: rows that left `finished` other than by an insert.

**GitHub** – the outside world, external to the repository: GitHub's own state of each
job, which runner it gave it to, where the App is installed, and docker's
containers. A container comes up some time after `docker run` or never,
may crash, and exits when its job is over.

**Scheduler** – `dispatchWithContext` with a program counter. Each
store or network call is a step: `Receive` (pop, `GetJob` and its guards), `CheckCap`, `CheckInstallation`,
`CheckTruth` (tokens and GitHub's view), `Confirm404`, `InsertRow`, `StartContainer`, `ObserveLaunch`,
`GiveUp`, `MarkDispatched`; `StoreFails` is the error return of any of them. `Replay` is the ticker case, `TimerFires`
the cap backoff, `Stop` and `DrainExpires` the two contexts of the shutdown.

**Webhooks** – handlers as sets of events that are between two statements: `busyWrites`
holds the runners whose job an in_progress handler has advanced and whose row it has
not yet marked. Any fact GitHub may report (`ghRunner[j]`, `GitHubDone(j)`) may be delivered
at any later time, any number of times. Events about installations and their repositories, and the admin's retry and cancel,
are here too.

**Reconciler** – the tick: `ListActive`, one `SweepRow` per row of the snapshot (inspect and
what follows), `ListContainers`, one `RemoveOrphan` per container; and the stale
sweep, `ReadStale` then `CompleteStale`.

**RunnerPool** – composition with `Crash`, `Exit`, `Restart`, fairness, and the properties.

**JobLifecycle** – what the jobs table promises, in six actions; `RunnerPool` implements it
(`LifecycleSpec`, `INSTANCE JobLifecycle` under the identity mapping of the three columns).

**Semaphore** – what `MAX_CONCURRENT_RUNNERS` promises: a place is taken before, and given back after.
`RunnerPool` implements it (`CapSlotsSpec`) with the places held by `Slots`: the active rows, those that
a late `busy` write revived set apart. The dispatch decides on a count several calls old, and still every insert is an
`Acquire` with a place free.

**Workdirs** – the working directories over the whole pool: docker creates one with its container, the tick
removes it after the rows it ended and the containers it removed (`TickClears` reads that off the pool's step), and the sweeper's list,
inspect and removal are three steps with anything in between. `oldDirs` is the question asked of a modification time.

**RunnerRegistry** – the GitHub-side sweep over the whole pool: GitHub's file of
registered runners, the two reads of the active rows, the listing and the
deletions.

**Settings** – the credentials row, the owner list and the handlers between their steps: a `PATCH` as a record with
its body, its snapshot and the fields it has left (`BeginPatch`, `WriteField` or `Refuse` per field, `Answer`), the owner
gate of a delivery (`BeginGate`, `ResolveOwner`, `PersistOwner`, `ReadAccess`), the callback's whole-row write (`SaveAppConfig`).

**PortalStore, Portal** – the portal's tables, transaction by transaction; requests as
records with a program counter (`mark`, `command`, `poll`, ...); the health sweep as
snapshot, probe, write; the hosts; restarts of the portal.

**Tenancy** – what the portal's tables promise, whatever requests, sweeps and restarts are about: an account is invited
before it joins, joins once, and is judged (`active`, `disabled`) afterwards; a slot is offered, and moves from whoever gives it
back. `PortalStore` maps its tables to it (`Promise`: `free` are the slots whose *status* is `free`, `tenants` come from the
*assignments*), and both systems over these tables implement it (`TenancySpec`): the lifecycle in `Portal`, the logins in `PortalAuth`.

**PortalAuth** – logins, sessions and proxied requests over `PortalStore`: the OAuth callback as a record with a program
counter (`exchange`, `upsert`, `invite`, `again`, `rotate`, `create`), a request likewise (`session`, `user`, `served`,
`forward`), browsers by the cookie they hold. `since` is a history of what held at some time while a request ran.

**TokenCache** – `InstallationToken` in its steps (`LoadToken`, `DropEntry`, `Mint`, `ReceiveToken`, `StoreToken`), without a lock as
in the code, and its callers, who use the token for a while. Times are what is left of a token; the cache margin is a constant.

**Notifications** – the settings row, edits between their read and their whole-row write, messages between the read of
the row and the send. `overtaken` and `heard` are histories.

**Admission** – the environment lists of several pools (text is a word and a way to write it, `Normal` undoes the latter), and
the filters of the queued and the later events, with restarts under another environment and repositories becoming public.

## 3 Runs
| Run | Module, configuration | Expect | Properties | What it shows |
|---|---|---|---|---|
| `duplicates` | `MCRunnerPool_duplicates.cfg` | pass | `NoDuplicateRunner`, `RunningWithinCap`, `OrphanSweepSparesWorkers` | One job, three runner names, a cap of two: whatever copies of the job the channel holds, however launches fail, containers crash and rows age, no second runner is inserted for a job whose runner is booting, never more runners listen or work than the cap allows, and the orphan sweep never picks the container of an active row that works on a job. |
| `two_jobs` | `MCRunnerPool_two_jobs.cfg` | pass | `CapRespected`, `CapSlotsSpec` | Two jobs racing for the one slot, with containers crashing and the tick giving slots back: the cap check is read several store and network calls before the insert it allows, and still the rows take and return slots as the holders of a semaphore do. |
| `restarts` | `MCRunnerPool_restarts.cfg` | pass | `TypeOK`, `RunnersHoldSlots`, `LaunchUndisturbed` | Store and docker calls fail at every step, the process crashes or shuts down with the drain expiring, jobs are cancelled, redelivered and claimed by foreign runners: the state stays well typed, the channel bounded, a runner that listens or works still holds an active row, and no launch loses its row or meets its own container. |
| `lifecycle` | `MCRunnerPool_lifecycle.cfg` | pass | `LifecycleSpec` | The jobs table implements JobLifecycle under late and reordered webhooks, GitHub errors, store errors, admin retries, uninstalls and the stale sweep. |
| `liveness` | `MCRunnerPool_liveness.cfg` | pass | `EndsAsReported`, `EventuallyCompleted`, `SlotsFreed` | Every recorded job ends and every active row ends up finished, with the process crashing, rows aging and every webhook after the first possibly lost; and a row ends as GitHub says its job did, however late the answer is written. |
| `late_busy` | `MCRunnerPool_late_busy.cfg` | violation | `FinishedStaysFinished` | An in_progress handler between its two statements marks a runner busy that a completed handler has finished meanwhile. |
| `missed_install` | `MCRunnerPool_missed_install.cfg` | violation | `FallbackSparesInstalled` | The lazy upsert of a queued event violates the foreign key when the installation's own event was missed, and the fallback cancels the job of a repository the App is installed on. |
| `registry` | `MCRunnerRegistry.cfg` | pass | `DeregisterSparesRunners`, `GhostsDeregistered` | The GitHub-side sweep against launches, exits and API errors: its list of ghosts, once rechecked, never names a runner that listens or works, although rows are inserted all the while, and a registration whose container is gone is eventually taken off GitHub's file, in a repository without any active row too. |
| `portal` | `MCPortal.cfg` | pass | `SlotsMatchAssignments`, `TenancySpec`, `StartsSettle`, `DeadInstanceNoticed` | Two slots, two concurrent lifecycle requests and everything the admins do: slot statuses and assignments agree and move like the tenancy, no instance stays 'starting' and none that is down stays 'running', whatever requests, commands, probes, statements and restarts do. |
| `portal_disable` | `MCPortal_disable.cfg` | violation | `DisabledIsStopped` | A start in flight brings the instance of a disabled account up after the stop. |
| `workdirs` | `MCWorkdirs.cfg` | pass | `WorkdirsTypeOK`, `ContainersKeepWorkdirs`, `ClearedIsOver`, `WorkdirsSwept` | The tick's removals and the sweeper's beside a launch with retries, crashes of containers and of the process: no container loses the directory it works in, and no directory is left behind for good. |
| `services` | `MCServices.cfg` | pass | `ServicesTypeOK`, `AnswersHeld`, `UsedBeforeExpiry`, `CancelsOnlyWhenGone`, `ChatThroughBot`, `QuietWhenOff`, `OneLoginPerState`, `OnlyActiveServed`, `ForwardedHome`, `SessionsAreBound`, `EventsReachRows`, `OnePoolPerJob`, `ColumnsKept`, `GateFailsClosed`, `OnlyOverlapsLose`, `TenancySpec` | What surrounds the pool engine, one module per behaviour: concurrent rotations, setups and the owner gate; the token cache against the clock and an uninstall; overlapping edits of the notification settings and messages; logins, sessions and proxied requests of the portal against admins, errors and restarts; the admission filters of two pools. |


## 4 Bounds, timing assumptions and fairness

`Env` and `PortalEnv` name the optional events a run explores; leaving one out makes
a run smaller and never a property easier to violate, except for the timing
assumptions below. Every disjunct of every next-state relation is taken in some passing run.

- `Jobs`, `Runners`: one job exercises every race of writers of a row, since jobs only
  meet in the cap and in the channel; `two_jobs` has two for that. A runner name is reused by
  the model once nothing mentions it (`Unmentioned`, `Forgotten`): the code's names
  carry random bytes and are never generated twice, so this recycles memory, not identities. Two
  names give a launch beside an older runner; `duplicates` has three with a cap of two, since with a cap of
  one `NoDuplicateRunner` would follow from the cap.
- `QueueCap = 1` (256 in the code): a full channel, and a dropped id, are one job away.
  The channel's behaviour depends on its capacity only through "full".
- `LaunchRetryMax = 2` (3 in the code): a first, a retried and a last attempt happen.
- `TimerCap = 1`: armed backoff timers told apart per job; one more timer resends the same id.
- Portal: one user, two slots, two concurrent requests. `Requests` is the
  number of lifecycle requests in flight; requests of the same user for different slots need two slots. Two
  users who contend for slots are in `services` (two users, one slot) and in the theorems `SlotsAgree` and `ImplementsTenancy`.
- Settings: two columns (the third is written like them), two values, two PATCH requests, one delivery in
  the gate, two Apps of two accounts: a request of the first App meets the row of the second.

Timing assumptions, each lifted by a flag:

- *A container exists by the time a sweep inspects its row* (`BootedInTime`, lifted by
  `"slowStart"`). The code waits two seconds for `docker run` and has no grace for `starting`
  rows; without the assumption `RunningWithinCap` fails (section 6).
- *A tick is shorter than the orphan grace* of 30 s (lifted by `"slowTick"`): a container
  that is past its grace was so when the tick began. No run lifts it yet.
- *A launch settles within `RUNNER_MAX_LIFETIME`* (`ClockStep`): seconds against hours.

- *A launch is over within `workdirGrace`* of its first container (`PassWorkdirGrace`): three attempts of seconds against ten minutes.
- *A token's user is done within the cache margin* (`TokenAssumption`, `Hold <= Margin`): five minutes. Nothing in the code
  bounds the stale sweep's loop over its jobs, so this is an assumption on their number.

Two assumptions on the deployment. `PartitionAssumption` (`Admission`): every pool has labels of its own besides `self-hosted`, and jobs name
such a capability, that is a label which no pool takes for a dynamic one by its prefix, as `docs/configuration.md` advises; `RUNNER_LABELS` is not a list of nothing but commas (section 6). Container names are not
generated twice (above).

`services` is a sum: a behaviour picks one of seven parts and the others stay as they start. What is cut that way shares no
state: rotations and the owner gate write different columns of one row, so they take turns (`rotations`, `owners`); a login looks at no slot and
at no session but the one it rotates, so `logins` runs two of them concurrently and without requests, and `proxy` has one login at a
time, sessions that a browser or a request names, and an admin who disables the invited user (`OneLogin`, `NoneLeftOver`, `BootstrapStays`).
Bounds: three callers of the token cache with a lifetime of 4 ticks and a margin of 2, one of them the stale sweep; two edits and one message; two callbacks,
two states, two tokens, one browser, one request, two users of whom one is the bootstrap admin; two pools with three environments each and two jobs.
`workdirs` has one runner name and one job, since directories meet only under one name: what it explores are attempts, crashes and
restarts of that launch against the tick's and the sweeper's removals.

Fairness of `RunnerPool` (`FairSpec`). The dispatch in flight is weakly fair: the worker
never parks inside it except in calls with deadlines. `Receive` and `Replay` are
strongly fair: a Go `select` picks at random among the ready cases, so a case that is
ready again and again is taken. The tick and the stale sweep run on tickers: weakly
fair. GitHub gives a queued job to a listening runner (strong, as several runners and
jobs compete), jobs end, containers of ended jobs exit, and `docker run` does not
fail for ever. Deliveries, admin requests, crashes and errors have no fairness: all of them
may stop. The two liveness properties assume that from some point on the process stays up
(`[](phase = "up")` in their antecedents).
`RegistryFairSpec` adds the sweep's own ticker; `WorkdirsFairSpec` has the ticker of the workdir sweeper and the clock; `PortalFairSpec` has the health ticker, and
strong fairness per user for its probes and writes, because a restart
or a store error may cut a round short but not always at the same row. Requests
and boots in the portal have no fairness at all.

## 5 Proofs

`tlapm` checks every proof; each theorem holds for all values of the constants that satisfy the
`ASSUME`s of `Store`, `Scheduler`, `PortalStore`, `Settings`, `TokenCache`, `Notifications`, `Admission` and `PortalAuth`, which TLC evaluates in the runs.

- **TypeCorrect** (`Spec => []TypeOK`): one lemma per SQL statement and one per component
  step, among them that a send and a replay keep the channel within its capacity.
- **CapSafe** (`Spec => []CapRespected`). The cap is not inductive: the insert happens long after
  the check. `CapInv == CapRespected /\ SlotReserved` is: a dispatch past the check still
  finds a free slot, because only the worker inserts rows, statuses otherwise only
  leave `starting`, and rows revived by a late `busy` write are set apart (`Slots`).
- **RunnersKeepSlots**, **LaunchesKept**, **RunningSafe**. `RunningWithinCap` speaks of containers, `CapSafe` of rows.
  `RunInv == RunnersHoldSlots /\ LaunchUndisturbed` connects them: whoever listens or
  works holds a row that was never given back. `LaunchUndisturbed` is what a launch relies on
  until it is settled, and that finish writes come only after the end of a job. These theorems
  assume `"slowStart" \notin Env`, the timing assumption above; all other failures are allowed.
- **ImplementsLifecycle** (`Spec => LifecycleSpec`): every statement on `jobs` is a step or a
  stutter of `JobLifecycle`, by cases on the writers.
- **EndsReported** (`Spec => []EndsAsReported`). A completed row carries what GitHub says of its job, or is cancelled and for a reason: the App is gone from
  its repository, or one of the events of `Env` that cancel (the admin, a wrong 404, a missed installation). A conclusion
  travels far from where it was true: in the stale sweep's list, in the dispatch, in a handler. `EndsInv` says of each carrier that what
  it holds was `Reported`, and `FactsStay` that what was once reported stays so: a done job stays done, an installation that was removed
  is not put back.
- **FallbackSafe** (`"install" \notin Env => (Spec => []FallbackSparesInstalled)`): an installation that gharp does not know of is then one that was
  removed. With `"install"` the property is false, which `missed_install` shows (section 6).
- **ImplementsSemaphore** (`Spec => CapSlotsSpec`): from `CapInv`. An insert acquires a place that is free, statuses that leave the
  active ones release it, one at a time, and the late `busy` write that revives a row does neither.
- **OrphanSweepSafe** (`Spec => []OrphanSweepSparesWorkers`). The tick works from two lists taken at different times, so the
  strengthening `OrphansInv` relates them: a settled container that is neither in the rows read nor in the list of live ones is
  exiting, and so is every orphan. It rests on `RunInv` and on `AssignedOnce`, GitHub's promise that a runner has one job. Assumes the timing
  of section 4 (`"slowStart"`, `"slowTick"` not in `Env`) and no failing list of rows (`"storeError"`); section 6 says what happens otherwise.
- **NoSecondRunner** (`Spec => []NoDuplicateRunner`). `DupInv` says whose the rows of a pending job may be: of the launch under way, or
  of a launch that was given up. The theorem excludes `"crash"`, `"shutdown"`, `"storeError"` and `"retry"`: after the first three the row of a launched job
  may still be pending and a replay launches it again (scheduler.go:408 says so), and the fourth asks for another runner.
- **WorkdirsStay**, **RemovedIsOver** (`WorkdirsSpec`). `WorkInv`: whatever the tick or the sweeper has marked for removal
  (`Doomed`) belongs to a runner that is over, also what is only half-marked, an entry of the directory listing that was old already.
  That a runner is over is stable because `InsertRow` takes a fresh name (`FreshLaunch`); `PoolBehaviour` carries the theorems of the pool over.
- **SweepSparesRunners** (`RegistrySpec => []DeregisterSparesRunners`): `RegistrySpec` implements
  `Spec`, so its invariants carry over; after the second read no ghost can get a slot again
  (`GhostsHoldNoSlot`), and runners hold slots.
- **RotationsKept**, **AnswersSound** (`SettingsSpec`). A write touches the column it names only, so the first
  needs no more than types; the second needs `HeldOf`: a request in flight has only fields left that differ from its snapshot,
  and everything it has seen, skipped or written was live since it began (`held` is a history field).
- **SlotsAgree** (`PortalSpec => []SlotsMatchAssignments`), with the inductive
  `TablesInv == TablesTypeOK /\ SlotsMatchAssignments` and the types of the request records.
- **ImplementsTenancy** (`PortalSpec => TenancySpec`), **LoginsImplementTenancy** (`AuthSpec => TenancySpec`) and **LoginsSeeOneTenant**
  (`AuthSpec => []SlotsMatchAssignments`). `PortalStore_proofs` knows nothing of requests: every step of `Portal` and of `PortalAuth` is
  shown to be a `TableStatement` or to leave the accounts and the tenants alone (`PortalStatements`, `AuthStatements`), each statement keeps
  `TablesInv` and is an action of `Tenancy` or a stutter (`StatementRefines`). `AssignSlot` is a `Move` only because statuses and
  assignments agree: it looks at the one and replaces the other, so the refinement rests on `TablesInv`.
- **StatesClaimedOnce**, **DisabledStayOut**, **SessionsFollowLogins**, **ProxiedHome** (`AuthSpec`), from one `AuthInv`. None of the four
  is inductive alone: a session is created several calls after the gate, so the login past the gate must be one of a bound
  account (`PastGate`), and a bound row never waits for a login again (`BoundStates`); what a request has seen of its session
  must survive until its account is read. The proof first says how callbacks, requests and sessions go on whatever step is taken
  (`CallbackMoves`, `VisitMoves`, `SessionMoves`), then derives each conjunct from that.
- **TokensLast**, **RefusalMeansGone** (`TokensSpec`). `Outlasts` is the strengthening: what a token has left and what its user has spent
  together exceed what a user may spend, from the cache check or the mint on.
- **PoolsPartition**, **RowsHeard** (`AdmissionSpec`). The filters are read again at every event under the environment of that time, so the
  invariant is about the environment that let a row in (`LetIn`): what it admitted, no other pool's environment can admit.
- **ChatsHaveBots**, **OffIsQuiet**, **LossesAreOverlaps** (`NotifySpec`), from `NotifyInv`. An edit writes a whole row it read earlier, so what the row must satisfy
  has to hold of every row in an editor's hands, and a message is sent by the row its handler read: quiet then, or heard by a switch that was on meanwhile.
- **GateClosed** (`SettingsSpec => GateFailsClosed`), from `OwnersSetUp`: whatever owner a delivery has resolved or the row holds is the owner of an App that was set up.
- **WorkdirsTyped** and **ServicesTyped**, the type invariants of `Workdirs` and of the sum. `SumOfServices` shows that a behaviour of `services` is one of the
  five specifications with the other four at rest, so what is proved of each holds in the sum.

Only model-checked: the liveness properties `EventuallyCompleted`, `SlotsFreed`, `GhostsDeregistered`, `StartsSettle`, `DeadInstanceNoticed` and
`WorkdirsSwept` (liveness under fairness is out of the prover's reach). Every other property of the passing runs is stated by a theorem. The three properties of
the runs that expect a violation are not theorems, of course; `FallbackSafe` says when one of them holds.

## 6 Where the code and its documentation disagree

Each of these is a run whose counterexample TLC finds; `PROJECT.json` quotes
the line of the documentation under `findings`.

- **`late_busy`, `FinishedStaysFinished`** (`src/internal/httpapi/handlers/webhook.go:350`). The in_progress handler advances the job row in one statement and writes the runner's 'busy' in a second one that looks at nothing (internal/store/sqlite.go:628-635). A completed event handled between the two finishes the row first, and the second statement turns finished into busy; the row then holds a cap slot until the ghost sweep. docs/architecture.md:244 says 'A late `in_progress` arriving after `completed` therefore can no longer resurrect a finished runner', and webhook.go:353 'we must not resurrect a finished runner'.
- **`missed_install`, `FallbackSparesInstalled`** (`src/internal/httpapi/handlers/webhook.go:303`). The queued handler upserts the repository's mapping for the case that the installation event was missed (webhook.go:301-302 'Lazy-write the repo->installation mapping in case we missed the installation event (resilience)'), but installation_repos references installations (internal/store/schema.sql:46) and foreign keys are enforced, so without the row that the missed event would have written the upsert fails; the error is logged, and dispatch cancels the job after noInstallationCancelAge although the App is installed. cmd/gharp/scheduler_e2e_test.go:914-922 expects a missed installation event to be recoverable.
- **`portal_disable`, `DisabledIsStopped`** (`src/gharp-portal/internal/httpapi/handlers_admin.go:180`). Disabling stops the instance once; a Start that read its assignment before and runs start-gharp after the stop brings it up again, and nothing stops it any more. gharp-portal/internal/httpapi/handlers_admin.go:175 says 'Disabling an account must also stop its gharp instance — otherwise the runner keeps processing work even though the user is locked out'; docs/specs/2026-06-27-gharp-multitenant-portal-spec.md:296 'Disabling a user → Stop their gharp.'

Nine more properties are stated in the modules and not kept by the code, or only under an assumption of section 4 or without a failure. They are not among the
recorded runs; adding the property to the configuration named here shows the counterexample.

- `RemovedMappingStaysRemoved` (`RunnerPool`; one job, two runners, `Env = {"uninstall"}`). The queued handler
  writes the repository's mapping back before it inserts the row (`webhook.go:303`), so a queued event
  handled after the removal leaves a pending job *with* a mapping. The removal handler's comment
  (`webhook.go:161-170`) expects the racing insert to be caught by dispatch's missing-installation fallback.
- `ExitDrainsHandlers` (`RunnerPool`; `Env = {"shutdown"}`). `srv.Shutdown` runs in a goroutine nobody waits
  for (`cmd/gharp/main.go:127`): the process ends with the scheduler, under handlers between two statements,
  although `internal/config/config.go:88-91` gives the HTTP server time to drain.
- `ActiveIsBound` (`Portal`; one user, slot and request, `PortalEnv = {}`). Invite, disable, enable: the
  account is active with the sentinel `github_id`, and every login of that user is refused from then on.
- `OneInstancePerUser` (`Portal`; two slots). `AssignSlot` gives the old slot back with its instance
  running; after the next start the user has two.
- `AllowedTransitions` (`Portal`; one user, slot and request). A start, or the health sweep on its snapshot, writes after a Stop and takes
  `stopped` to `running` or `error`, against `lifecycle/doc.go:6`.
- `RejectedWritesNothing` (`Settings`). A PATCH takes its fields one after the other, each validated just before its
  own write: `{"webhook_secret": <new>, "client_secret": ""}` answers 400 with the webhook secret rotated.
  `app_config_test.go` fails a refused request with "write was applied on a 400", and only tries bodies with one field.
- `OwnerIsOfApp` (`Settings`). The owner backfill of a delivery that read the row before a new setup writes the
  old App's owner into the new App's row, and from then on the gate trusts the wrong account
  (`access.go:12-14`: "The App owner is always allowed").

- `RunningWithinCap` with `"slowStart"` added to `Env` of `duplicates`: the ghost sweep gives back the slot of a row whose container takes longer
  to come up than the launch's observe window (`reconciler.go:313`), and the container comes up beside the next one, although
  `docs/configuration.md:36` calls `MAX_CONCURRENT_RUNNERS` a cap.
- `OrphanSweepSparesWorkers` with `"storeError"` added to `Env` of `duplicates`: when `ListActiveRunners` fails, the tick goes on with an empty set of
  rows (`reconciler.go:300`), and the container of a working runner counts as an orphan, although `docs/architecture.md:277` lets the
  sweep remove only names that are not in the active runners table.

Four smaller ones have no property of their own:

- `RUNNER_LABELS` with nothing but commas gives the empty set, and then `labelsMatch` takes every job (`config.go:317`, `webhook.go`), although
  the comment above it says that empty input defaults to `self-hosted` "so we never accept jobs targeting GitHub-hosted runners". `PartitionAssumption` excludes it.
- An invited user whom `BOOTSTRAP_ADMIN_LOGIN` names keeps the role of the invitation: only the not-invited path promotes
  (`oauth.go:69-75`), against step 5 of the handler's comment and
  `docs/specs/2026-06-27-gharp-multitenant-portal-spec.md:232-233`.
- Disabling an account refuses its requests but keeps its session rows: they work again once it is enabled, until they expire.
- Of two overlapping edits of the notification settings the later write undoes the earlier one. `OnlyOverlapsLose` is what holds.

The fingerprints of a rotation's answer need not belong to one state of the row
(`docs/app-config-rotation.md:62-65` speaks of "each currently-stored field"): `AnswersHeld` is what holds.

One comment is stale without harm: `reconciler.go` (above the stale sweep's write) worries that a late sweep
overwrites the conclusion a webhook has written meanwhile. The `WHERE` clause of
`MarkJobCompleted` prevents that, and `ImplementsLifecycle` proves it.

## 7 What is not modelled

- Argument templating, the numbers and flags of the environment, HTML, logging, metrics, listings, the audit log: no state, or written only.
- The filters of the queued webhook are a precondition of `QueuedEvent` in the pool engine; `Admission` and `Settings` model them and are
  not composed with it. They decide on values of their own and on no table of the pool's.
- The maintenance sweeper runs an operator's command on a ticker.
- Reading and verifying webhook signatures; CSRF tokens and the role check of the portal, which are decided within one request; the bytes
  the proxy forwards; provisioning scripts.
- JWTs, the manifest exchange and the Telegram client are calls whose answers are chosen.

## 8 Plan

Order chosen so that the pool engine comes first, then what surrounds it.

1. *Done*: the pool engine (`Store` ... `RunnerPool`), its refinements of `JobLifecycle` and `Semaphore`, its
   safety and liveness runs; type, cap, running-cap and refinement theorems.
2. *Done*: `RunnerRegistry` and its theorem; the portal's tables and lifecycle and their theorem;
   `Settings` and its theorems.
3. *Done*: installations and their foreign key, `Workdirs`, `TokenCache`, `Notifications`, `Admission`, `PortalAuth`.
4. *Done*: the theorems of `PortalAuth`, `TokenCache` and `Admission`; `OrphanSweepSafe`, `NoSecondRunner` and the theorems of `Workdirs`.
5. *Done*: `Tenancy` and its two refinements, the theorems of `Notifications`, `GateClosed`, `EndsReported`, `FallbackSafe`, and the type invariants of
   `Workdirs` and of the sum: no safety property of a passing run is without a theorem.
6. Theorems for the properties of section 6 under the conditions that make them true, as `FallbackSafe` does for one of them: a running cap with
   slow starts counted in, owners under one App, `AllowedTransitions` without a Stop between the command and its result.
