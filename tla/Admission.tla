----------------------------- MODULE Admission ------------------------------
(***************************************************************************)
(* Which jobs a pool takes: the lists of the environment (config.go) and   *)
(* the filters of the webhook (handleWorkflowJob in webhook.go), for       *)
(* several pools that hear of the same jobs, while pools are restarted     *)
(* with another environment and repositories become public or private.     *)
(*                                                                         *)
(* Text is a word and how it is written, in other case or with blanks      *)
(* around it; only its comparison matters.                                 *)
(***************************************************************************)
EXTENDS Naturals

CONSTANTS
  Words,          \* labels and repository names in lower case, trimmed
  Spellings,      \* ways to write a word
  Within,         \* <<p, w>>: the word w begins with the word p
  SelfHosted,     \* the word "self-hosted"
  DefaultPrefix,  \* the word "gharp-"
  Unset,          \* an environment variable that is not set, or empty
  Blank,          \* what is between two commas of a list
  Pools,
  Jobs,
  LabelsOf,       \* runs-on of a job
  RepoNameOf,     \* the repository of a job
  EnvironmentsOf  \* what a pool may be started with

Written == [word : Words, spelling : Spellings]
Lists   == SUBSET (Written \cup {Blank})
Environments == [labels : {Unset} \cup Lists, prefixes : {Unset} \cup Lists,
                 allowPublic : BOOLEAN, allowlist : Lists]
Configs == [labels : SUBSET Words, prefixes : SUBSET Words,
            allowPublic : BOOLEAN, allowlist : SUBSET Words]

VARIABLES
  environment, \* what each pool was started with
  public,      \* the jobs whose repository is public
  recorded,    \* the jobs each pool has a row for
  missed,      \* history: those of them it has ignored an event of
  relabelled   \* history: those recorded before it was started with other labels

admissionVars == <<environment, public, recorded, missed, relabelled>>

----------------------------------------------------------------------------
(* config.go                                                               *)

(* strings.ToLower(strings.TrimSpace(l))                                   *)
Normal(l) == l.word

ParseList(list) == {Normal(l) : l \in list \ {Blank}}

ParseOr(list, default) == IF list = Unset THEN default ELSE ParseList(list)

Load(e) ==
  [labels |-> ParseOr(e.labels, {SelfHosted}), prefixes |-> ParseOr(e.prefixes, {DefaultPrefix}),
   allowPublic |-> e.allowPublic, allowlist |-> ParseList(e.allowlist)]

Config(p) == Load(environment[p])

Dynamic(w, c) == \E prefix \in c.prefixes : <<prefix, w>> \in Within

----------------------------------------------------------------------------
(* webhook.go                                                              *)

(* The advice of docs/configuration.md: each pool has labels of its own    *)
(* besides "self-hosted", and jobs name one, which no pool's prefix covers *)
(* ("these prefixes are not capability labels").  RUNNER_LABELS with       *)
(* nothing but commas, which takes every job, is left out.                 *)
Capabilities(e) == Load(e).labels \ {SelfHosted}

ASSUME AdmissionAssumption ==
  /\ {SelfHosted, DefaultPrefix} \subseteq Words /\ Within \subseteq Words \X Words
  /\ LabelsOf \in [Jobs -> SUBSET Written] /\ RepoNameOf \in [Jobs -> Written]
  /\ \A p \in Pools : EnvironmentsOf[p] \subseteq Environments

ASSUME PartitionAssumption ==
  /\ \A p, q \in Pools : p # q =>
       \A e \in EnvironmentsOf[p], f \in EnvironmentsOf[q] : Capabilities(e) \cap Capabilities(f) = {}
  /\ \A p \in Pools : \A e \in EnvironmentsOf[p] : Load(e).labels # {}
  /\ \A j \in Jobs : \E l \in LabelsOf[j] :
       Normal(l) # SelfHosted /\ \A p \in Pools : \A e \in EnvironmentsOf[p] : ~Dynamic(Normal(l), Load(e))

(* Mutant: one label in common is enough.                                  *)
LabelsOverlap(runsOn, c) ==
  c.labels = {} \/ \E l \in runsOn : Normal(l) \in c.labels \/ Dynamic(Normal(l), c)

LabelsMatch(runsOn, c) ==
  c.labels = {} \/ \A l \in runsOn :
    Normal(l) = SelfHosted \/ Normal(l) \in c.labels \/ Dynamic(Normal(l), c)

(* repository.visibility, which older payloads do not have, and .private   *)
Payloads(j) ==
  [visibility : {"unsaid", IF j \in public THEN "public" ELSE "private"}, private : {j \notin public}]

RepoIsPublic(repo) ==
  repo.visibility = "public" \/ (repo.visibility = "unsaid" /\ ~repo.private)

PublicRepoAllowed(j, repo, c) ==
  ~RepoIsPublic(repo) \/ c.allowPublic \/ Normal(RepoNameOf[j]) \in c.allowlist

(* Mutant: the repository is looked at whatever the action is.             *)
AdmitsStrictly(action, j, repo, c) ==
  LabelsMatch(LabelsOf[j], c) /\ PublicRepoAllowed(j, repo, c)

(* The owner gate comes after this (Settings).                             *)
Admits(action, j, repo, c) ==
  /\ LabelsMatch(LabelsOf[j], c)
  /\ action = "queued" => PublicRepoAllowed(j, repo, c)

Queued(p, j) ==
  /\ \E repo \in Payloads(j) : Admits("queued", j, repo, Config(p))
  /\ recorded' = [recorded EXCEPT ![p] = @ \cup {j}]
  /\ UNCHANGED <<environment, public, missed, relabelled>>

(* in_progress or completed: without effect for want of a row, or ignored. *)
Lifecycle(p, j) ==
  /\ j \in recorded[p]
  /\ \E repo \in Payloads(j) : ~Admits("completed", j, repo, Config(p))
  /\ missed' = [missed EXCEPT ![p] = @ \cup {j}]
  /\ UNCHANGED <<environment, public, recorded, relabelled>>

(* The process is started again, with another environment perhaps.         *)
Reload(p, e) ==
  /\ environment' = [environment EXCEPT ![p] = e]
  /\ relabelled' = IF Config(p)'.labels = Config(p).labels /\ Config(p)'.prefixes = Config(p).prefixes
                   THEN relabelled
                   ELSE [relabelled EXCEPT ![p] = recorded[p]]
  /\ UNCHANGED <<public, recorded, missed>>

Publish(j) ==
  /\ public' \in {public \cup {j}, public \ {j}}
  /\ UNCHANGED <<environment, recorded, missed, relabelled>>

AdmissionInit ==
  /\ environment \in {f \in [Pools -> UNION {EnvironmentsOf[p] : p \in Pools}] :
                        \A p \in Pools : f[p] \in EnvironmentsOf[p]}
  /\ public \in SUBSET Jobs
  /\ recorded = [p \in Pools |-> {}] /\ missed = recorded /\ relabelled = recorded

AdmissionNext ==
  \/ \E p \in Pools : \/ \E j \in Jobs : Queued(p, j) \/ Lifecycle(p, j)
                      \/ \E e \in EnvironmentsOf[p] : Reload(p, e)
  \/ \E j \in Jobs : Publish(j)

AdmissionSpec == AdmissionInit /\ [][AdmissionNext]_admissionVars
----------------------------------------------------------------------------
(* What the pools hold are jobs; an event is ignored for a row only.       *)
AdmissionTypeOK ==
  /\ environment \in [Pools -> Environments] /\ public \subseteq Jobs
  /\ recorded \in [Pools -> SUBSET Jobs]
  /\ \A p \in Pools : missed[p] \cup relabelled[p] \subseteq recorded[p]

(* A job that was let in is not lost sight of: its later events pass the   *)
(* filters, whatever becomes of the repository, of ALLOW_PUBLIC_REPOS and  *)
(* of the allowlist - unless the labels of the pool have changed.          *)
EventsReachRows == \A p \in Pools : missed[p] \subseteq relabelled[p]

(* Two pools that are told apart by their labels never both take a job,    *)
(* and so launch no runner that nothing will bind to, however the lists    *)
(* and the labels are written and whatever is left to a default.           *)
OnePoolPerJob ==
  \A p, q \in Pools : p # q => recorded[p] \cap recorded[q] = {}
=============================================================================
