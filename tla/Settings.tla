------------------------------ MODULE Settings ------------------------------
(***************************************************************************)
(* The single-row settings tables and the handlers that share them: the    *)
(* App's credentials (app_config), written by the manifest callback, by    *)
(* PATCH /admin/app-config column by column and by the owner backfill of   *)
(* the webhook's owner gate, and the owner list (access_settings).         *)
(*                                                                         *)
(* A PATCH reads the row once and then works from that snapshot, a write   *)
(* per field; everything else may happen between two of its steps.         *)
(***************************************************************************)
EXTENDS Naturals, Sequences

CONSTANTS
  Rotatable,   \* the columns a PATCH may name, in the order it takes them
  Values,      \* secrets that pass validation
  Absent,      \* a field the body does not have
  Rejected,    \* a field that fails validation
  Patches,     \* PATCH requests in flight at a time
  Deliveries,  \* queued events in the owner gate at a time
  NoCall,      \* no such request
  Owners,      \* account logins
  NoOwner,     \* the empty owner_login
  AppMax,      \* bound of the model: how many Apps the setup creates
  OwnerOf,     \* the account that owns each App
  SettingsEnv  \* which failures a run explores

ASSUME SettingsAssumption ==
  /\ Rotatable \in Seq(STRING)
  /\ \A i, k \in 1..Len(Rotatable) : Rotatable[i] = Rotatable[k] => i = k
  /\ Absent \notin Values /\ Rejected \notin Values /\ Absent # Rejected
  /\ NoOwner \notin Owners
  /\ AppMax \in Nat \ {0} /\ OwnerOf \in [1..AppMax -> Owners]

VARIABLES
  app,      \* app_config.app_id, 0 while there is no row
  secret,   \* the rotatable columns
  owner,    \* app_config.owner_login
  allowed,  \* access_settings.allowed_owners
  patch,    \* what a PATCH holds between its steps
  gate      \* what the owner gate of a queued event holds

rowVars      == <<app, secret, owner>>
settingsVars == <<rowVars, allowed, patch, gate>>

Columns == {Rotatable[i] : i \in 1..Len(Rotatable)}
Secrets == [Columns -> Values]
Bodies  == [Columns -> Values \cup {Absent, Rejected}]

(* seen: the snapshot; todo: the fields it has left to take; held:         *)
(* history, what each column held since the snapshot.                      *)
PatchCalls == [asked : Bodies, seen : Secrets, todo : SUBSET Columns,
               held : [Columns -> SUBSET Values]]

ASSUME NoCallAssumption == NoCall \notin PatchCalls

(* repo: the account of the repository; login: whom GitHub names as the    *)
(* owner when asked with the credentials of the snapshot.                  *)
GateCalls == [at : {"resolve", "persist", "access", "admitted"},
              repo : Owners, login : Owners]

(* A row of an older release has no owner yet (migrateAddColumns).         *)
SettingsInit ==
  /\ \/ app = 0
     \/ app = 1
  /\ secret \in Secrets
  /\ owner = NoOwner /\ allowed = {}
  /\ patch = [h \in Patches |-> NoCall]
  /\ gate = [d \in Deliveries |-> NoCall]

StoreMayFail == "storeError" \in SettingsEnv

----------------------------------------------------------------------------
(* GET /github/app/callback: SaveAppConfig writes the whole row of the App *)
(* that was just created.  Another base URL, or a setup page opened before *)
(* the first callback, leads here again.                                   *)
Witness(calls, s) ==
  [h \in Patches |->
     IF calls[h] = NoCall THEN NoCall
     ELSE [calls[h] EXCEPT !.held = [c \in Columns |-> @[c] \cup {s[c]}]]]

SaveAppConfig ==
  /\ app < AppMax
  /\ app' = app + 1
  /\ secret' \in Secrets
  /\ owner' = OwnerOf[app']
  /\ patch' = Witness(patch, secret')
  /\ UNCHANGED <<allowed, gate>>

----------------------------------------------------------------------------
(* Not in the body, or equal to the snapshot: nothing to write.            *)
Needed(body, snapshot) == {c \in Columns : body[c] \notin {Absent, snapshot[c]}}

(* PATCH /admin/app-config: 409 without a row, 400 without a field.        *)
BeginPatch(h, body) ==
  /\ patch[h] = NoCall /\ app # 0
  /\ \E c \in Columns : body[c] # Absent
  /\ patch' = [patch EXCEPT ![h] =
                 [asked |-> body, seen |-> secret, todo |-> Needed(body, secret),
                  held |-> [c \in Columns |-> {secret[c]}]]]
  /\ UNCHANGED <<rowVars, allowed, gate>>

(* The field the request takes next.                                       *)
Takes(h, c) ==
  /\ patch[h] # NoCall /\ c \in patch[h].todo
  /\ \A i, k \in 1..Len(Rotatable) :
       i < k /\ Rotatable[k] = c => Rotatable[i] \notin patch[h].todo

(* Mutant: read-modify-write of the whole row.                             *)
UpdateFieldWholeRow(h, c) ==
  secret' = [patch[h].seen EXCEPT ![c] = patch[h].asked[c]]

(* One column, whatever the snapshot says of the others.                   *)
UpdateField(h, c) == secret' = [secret EXCEPT ![c] = patch[h].asked[c]]

WriteField(h, c) ==
  /\ Takes(h, c) /\ patch[h].asked[c] # Rejected
  /\ UpdateField(h, c)
  /\ patch' = [Witness(patch, secret') EXCEPT ![h].todo = @ \ {c}]
  /\ UNCHANGED <<app, owner, allowed, gate>>

(* Mutant: a failed write is logged and the handler goes on to its 200.    *)
RefuseWrongly(h, c) ==
  /\ Takes(h, c)
  /\ \/ patch[h].asked[c] = Rejected /\ patch' = [patch EXCEPT ![h] = NoCall]
     \/ patch[h].asked[c] # Rejected /\ StoreMayFail
        /\ patch' = [patch EXCEPT ![h].todo = @ \ {c}]
  /\ UNCHANGED <<rowVars, allowed, gate>>

(* 400 for a value that does not pass, 500 for a write that fails: what    *)
(* earlier fields wrote stays written.                                     *)
Refuse(h, c) ==
  /\ Takes(h, c) /\ (patch[h].asked[c] = Rejected \/ StoreMayFail)
  /\ patch' = [patch EXCEPT ![h] = NoCall]
  /\ UNCHANGED <<rowVars, allowed, gate>>

Answering(h) == patch[h] # NoCall /\ patch[h].todo = {}

(* 200 with 'rotated' and a fingerprint per column.                        *)
Answer(h) ==
  /\ Answering(h)
  /\ patch' = [patch EXCEPT ![h] = NoCall]
  /\ UNCHANGED <<rowVars, allowed, gate>>

Fingerprint(h, c) ==
  IF c \in Needed(patch[h].asked, patch[h].seen) THEN patch[h].asked[c] ELSE patch[h].seen[c]

----------------------------------------------------------------------------
(* ownerAllowed, in the queued branch of a delivery whose signature and    *)
(* filters passed: the row was read at the start of the handler.           *)
Compare(repo, login) == IF repo = login THEN "admitted" ELSE "access"

BeginGate(d, repo) ==
  /\ gate[d] = NoCall /\ app # 0
  /\ gate' = [gate EXCEPT ![d] =
                [at |-> IF owner = NoOwner THEN "resolve" ELSE Compare(repo, owner),
                 repo |-> repo, login |-> OwnerOf[app]]]
  /\ UNCHANGED <<rowVars, allowed, patch>>

At(d, label) == gate[d] # NoCall /\ gate[d].at = label

(* GET /app with the credentials of the snapshot, or an error.             *)
ResolveOwner(d) ==
  /\ At(d, "resolve")
  /\ \/ gate' = [gate EXCEPT ![d].at = "persist"]
     \/ "apiError" \in SettingsEnv /\ gate' = [gate EXCEPT ![d].at = "access"]
  /\ UNCHANGED <<rowVars, allowed, patch>>

(* UpdateAppOwnerLogin; a failure is logged.                               *)
PersistOwner(d) ==
  /\ At(d, "persist")
  /\ owner' = gate[d].login \/ (StoreMayFail /\ UNCHANGED owner)
  /\ gate' = [gate EXCEPT ![d].at = Compare(gate[d].repo, gate[d].login)]
  /\ UNCHANGED <<app, secret, allowed, patch>>

(* Mutant: an error lets the job through.                                  *)
ReadAccessOpen(d) ==
  /\ At(d, "access")
  /\ gate' = [gate EXCEPT ![d] = IF StoreMayFail \/ @.repo \in allowed
                                 THEN [@ EXCEPT !.at = "admitted"] ELSE NoCall]
  /\ UNCHANGED <<rowVars, allowed, patch>>

(* The list decides; an error denies.                                      *)
ReadAccess(d) ==
  /\ At(d, "access")
  /\ \/ /\ gate[d].repo \in allowed
        /\ gate' = [gate EXCEPT ![d].at = "admitted"]
     \/ /\ gate[d].repo \notin allowed \/ StoreMayFail
        /\ gate' = [gate EXCEPT ![d] = NoCall]
  /\ UNCHANGED <<rowVars, allowed, patch>>

(* The handler goes on to the insert of the job.                           *)
LetThrough(d) ==
  /\ At(d, "admitted")
  /\ gate' = [gate EXCEPT ![d] = NoCall]
  /\ UNCHANGED <<rowVars, allowed, patch>>

(* SaveOwners replaces the list.                                           *)
SaveAccessSettings(list) ==
  /\ allowed' = list
  /\ UNCHANGED <<rowVars, patch, gate>>

----------------------------------------------------------------------------
PatchStep(h) ==
  \/ \E body \in Bodies : BeginPatch(h, body)
  \/ \E c \in Columns : WriteField(h, c) \/ Refuse(h, c)
  \/ Answer(h)

GateStep(d) ==
  \/ \E repo \in Owners : BeginGate(d, repo)
  \/ ResolveOwner(d) \/ PersistOwner(d) \/ ReadAccess(d) \/ LetThrough(d)

SettingsNext ==
  \/ SaveAppConfig
  \/ \E h \in Patches : PatchStep(h)
  \/ \E d \in Deliveries : GateStep(d)
  \/ \E list \in SUBSET Owners : SaveAccessSettings(list)

SettingsSpec == SettingsInit /\ [][SettingsNext]_settingsVars
----------------------------------------------------------------------------
(* The rows and the requests in flight have their types.                   *)
SettingsTypeOK ==
  /\ app \in 0..AppMax /\ secret \in Secrets
  /\ owner \in Owners \cup {NoOwner} /\ allowed \subseteq Owners
  /\ patch \in [Patches -> PatchCalls \cup {NoCall}]
  /\ gate \in [Deliveries -> GateCalls \cup {NoCall}]

(* Rotations of different fields do not undo each other: a column changes  *)
(* only to what a request in flight asks of that very column, or with a    *)
(* new App, however old the snapshots of the requests are.                 *)
ColumnsKept ==
  [][\A c \in Columns : secret'[c] # secret[c] =>
       \/ app' # app
       \/ \E h \in Patches : patch[h] # NoCall /\ patch[h].asked[c] = secret'[c]]_settingsVars

(* A 200 tells the truth about every column, though not about one moment:  *)
(* the value asked for was live at some time during the request, and so    *)
(* was every value fingerprinted, also when the no-op shortcut was decided *)
(* on a snapshot another request has overwritten since.                    *)
AnswersHeld ==
  \A h \in Patches : Answering(h) =>
    \A c \in Columns :
      /\ patch[h].asked[c] # Absent => patch[h].asked[c] \in patch[h].held[c]
      /\ Fingerprint(h, c) \in patch[h].held[c]

(* The gate fails closed: whoever is let through is on the list at the     *)
(* moment it is read, or owns an App that was set up here, whichever of    *)
(* the lookups, writes and reads of the gate fail or come late.            *)
GateFailsClosed ==
  [][\A d \in Deliveries :
       gate'[d] # gate[d] /\ gate'[d] # NoCall /\ gate'[d].at = "admitted" =>
         \/ gate'[d].repo \in allowed
         \/ \E a \in 1..app : gate'[d].repo = OwnerOf[a]]_settingsVars

(* A request that is refused wrote nothing.                                *)
RejectedWritesNothing ==
  \A h \in Patches, c \in Columns :
    Takes(h, c) /\ patch[h].asked[c] = Rejected =>
      patch[h].todo = Needed(patch[h].asked, patch[h].seen)

(* The recorded owner is the owner of the App the row is about.            *)
OwnerIsOfApp == app # 0 => owner \in {NoOwner, OwnerOf[app]}
=============================================================================
