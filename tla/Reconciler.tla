----------------------------- MODULE Reconciler -----------------------------
(***************************************************************************)
(* The reconciler (internal/reconciler/reconciler.go): the minutely        *)
(* docker-side tick - ghost/lifetime sweep over the active rows, then      *)
(* orphan sweep over the containers - and the sweep of in_progress rows    *)
(* whose completed event never came.  One docker or store call is one      *)
(* step; the tick works from the snapshot its first statement took.        *)
(***************************************************************************)
EXTENDS Webhooks

VARIABLES
  tick,      \* "idle", "rows" in the ghost sweep, "orphans" in the orphan sweep
  rows,      \* rows of the snapshot still to inspect
  alive,     \* rows the ghost sweep left alive
  orphans,   \* containers the orphan sweep will remove
  staleReads \* what GitHub answered for a stale in_progress row

reconcilerVars == <<tick, rows, alive, orphans, staleReads>>
tickVars       == <<tick, rows, alive, orphans>>

ReconcilerInit ==
  /\ tick = "idle" /\ rows = {} /\ alive = {} /\ orphans = {}
  /\ staleReads = {}

(* Timing assumptions, lifted by Env: the container of a row exists by the *)
(* time a sweep inspects it ("slowStart" lifts), and a tick is shorter     *)
(* than the orphan grace ("slowTick" lifts).                               *)
BootedInTime(r) == \/ "slowStart" \in Env
                   \/ r \notin spawned /\ ~(r = name /\ pc \in Launching)

----------------------------------------------------------------------------
(* ListActiveRunners; when it fails the tick goes on with an empty set.    *)
ListActive ==
  /\ "tick" \in Env /\ Listening /\ tick = "idle"
  /\ tick' = "rows" /\ alive' = {}
  /\ \/ rows' = ActiveRunners
     \/ "storeError" \in Env /\ rows' = {}
  /\ UNCHANGED <<storeVars, worldVars, schedulerVars, handlerVars, orphans, staleReads>>

KeepRow(r) ==
  /\ alive' = alive \cup {r}
  /\ UNCHANGED <<row, overdue, revived, rowJob, containers, settled, spawned>>

(* Mutant: a container docker does not know is taken for a docker error.   *)
SweepRowKeepsMissing(r) ==
  /\ Listening /\ tick = "rows" /\ r \in rows
  /\ rows' = rows \ {r}
  /\ \/ r \notin containers /\ KeepRow(r)
     \/ /\ r \in containers /\ r \in overdue
        /\ ForceRemove(r)
        /\ UpdateRunnerStatus(r, "finished")
        /\ UNCHANGED alive
     \/ /\ r \in containers /\ r \notin overdue
        /\ KeepRow(r)
  /\ UNCHANGED <<jobVars, installVars, jobWorld, installed, schedulerVars, handlerVars,
                 tick, orphans, staleReads>>

(* A failed UPDATE leaves the row active, and out of alive.                *)
RetireRow(r) == \/ UpdateRunnerStatus(r, "finished")
                \/ "storeError" \in Env /\ UNCHANGED runnerVars

(* Mutant: a docker error is taken for a missing container.                *)
SweepRowRetiresUnknown(r) ==
  /\ Listening /\ tick = "rows" /\ r \in rows
  /\ rows' = rows \ {r}
  /\ \/ "dockerError" \in Env /\ RetireRow(r) /\ UNCHANGED <<alive, docker>>
     \/ r \in containers /\ KeepRow(r)
  /\ UNCHANGED <<jobVars, installVars, jobWorld, installed, schedulerVars, handlerVars,
                 tick, orphans, staleReads>>

(* docker inspect of one row and what follows from it.                     *)
SweepRow(r) ==
  /\ Listening /\ tick = "rows" /\ r \in rows
  /\ rows' = rows \ {r}
  /\ \/ "dockerError" \in Env /\ KeepRow(r)
     \/ /\ r \notin containers /\ BootedInTime(r)
        /\ RetireRow(r)
        /\ UNCHANGED <<alive, docker>>
     \/ /\ r \in containers /\ r \in overdue
        /\ ForceRemove(r)
        /\ RetireRow(r)
        /\ UNCHANGED alive
     \/ /\ r \in containers /\ r \notin overdue
        /\ KeepRow(r)
  /\ UNCHANGED <<jobVars, installVars, jobWorld, installed, schedulerVars, handlerVars,
                 tick, orphans, staleReads>>

(* Mutant: the grace is forgotten.                                         *)
ListContainersOfAnyAge ==
  /\ Listening /\ tick = "rows" /\ rows = {}
  /\ orphans' = containers \ alive
  /\ tick' = IF orphans' = {} THEN "idle" ELSE "orphans"
  /\ alive' = {}
  /\ UNCHANGED <<storeVars, worldVars, schedulerVars, handlerVars, rows, staleReads>>

(* docker ps: whatever the ghost sweep did not leave alive and is past the *)
(* grace.                                                                  *)
ListContainers ==
  /\ Listening /\ tick = "rows" /\ rows = {}
  /\ \/ orphans' = settled \ alive
     \/ "dockerError" \in Env /\ orphans' = {}
  /\ tick' = IF orphans' = {} THEN "idle" ELSE "orphans"
  /\ alive' = {}
  /\ UNCHANGED <<storeVars, worldVars, schedulerVars, handlerVars, rows, staleReads>>

RemoveOrphan(r) ==
  /\ Listening /\ tick = "orphans" /\ r \in orphans
  /\ orphans' = orphans \ {r}
  /\ tick' = IF orphans' = {} THEN "idle" ELSE "orphans"
  /\ \/ ForceRemove(r)
     \/ "dockerError" \in Env /\ UNCHANGED docker
  /\ UNCHANGED <<storeVars, jobWorld, installed, schedulerVars, handlerVars,
                 rows, alive, staleReads>>

(* The grace clock.  A container older than the snapshot may as well have  *)
(* settled before the tick began.                                          *)
PassGrace(r) ==
  /\ "tick" \in Env
  /\ tick = "idle" \/ "slowTick" \in Env
  /\ Settle(r)
  /\ UNCHANGED <<schedulerVars, handlerVars, reconcilerVars>>

----------------------------------------------------------------------------
(* Mutant: a job GitHub still runs is given up.                            *)
ReadStaleImpatient(j) ==
  /\ "staleSweep" \in Env
  /\ Listening /\ status[j] = "in_progress" /\ j \in aged
  /\ RepoOf[j] \in mapped
  /\ staleReads' = staleReads \cup {<<j, IF GitHubDone(j) THEN gh[j] ELSE "cancelled">>}
  /\ UNCHANGED <<storeVars, worldVars, schedulerVars, handlerVars, tickVars>>

(* sweepStaleInProgressJobs: GitHub is asked about an aged in_progress row *)
(* and the answer, if terminal, is written afterwards; 'cancelled' stands  *)
(* for a job that is not found or no longer accessible.                    *)
ReadStale(j) ==
  /\ "staleSweep" \in Env
  /\ Listening /\ status[j] = "in_progress" /\ j \in aged
  /\ RepoOf[j] \in mapped
  /\ \E c \in Outcomes :
       /\ \/ gh[j] = c
          \/ c = "cancelled" /\ ("apiError" \in Env \/ RepoOf[j] \notin installed)
       /\ staleReads' = staleReads \cup {<<j, c>>}
  /\ UNCHANGED <<storeVars, worldVars, schedulerVars, handlerVars, tickVars>>

CompleteStale(j, c) ==
  /\ Listening /\ <<j, c>> \in staleReads
  /\ staleReads' = staleReads \ {<<j, c>>}
  /\ MarkJobCompleted(j, c)
  /\ UNCHANGED <<runnerVars, installVars, worldVars, schedulerVars, handlerVars, tickVars>>
----------------------------------------------------------------------------
ReconcilerTypeOK ==
  /\ tick \in {"idle", "rows", "orphans"}
  /\ rows \subseteq Runners /\ alive \subseteq Runners /\ orphans \subseteq Runners
  /\ staleReads \subseteq Jobs \X Outcomes
============================================================================
