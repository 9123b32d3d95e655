--------------------------- MODULE Settings_proofs ---------------------------
(***************************************************************************)
(* Concurrent rotations neither undo each other nor answer a value that    *)
(* was never live, for any number of columns, values, requests and Apps.   *)
(***************************************************************************)
EXTENDS Settings, TLAPS

(* What a PATCH in flight may rely on: it only has fields left that differ *)
(* from its snapshot; the snapshot and the row were live at some time      *)
(* since it began, and so was every value it is done with.                 *)
HeldOf(call, current) ==
  /\ call.todo \subseteq Needed(call.asked, call.seen)
  /\ \A c \in Columns :
       /\ current[c] \in call.held[c] /\ call.seen[c] \in call.held[c]
       /\ c \in Needed(call.asked, call.seen) \ call.todo => call.asked[c] \in call.held[c]

HeldInv == \A h \in Patches : patch[h] # NoCall => HeldOf(patch[h], secret)

SettingsInv == SettingsTypeOK /\ HeldInv

----------------------------------------------------------------------------
(* The state when nothing has happened yet.                                *)
LEMMA SettingsInitInv == SettingsInit => SettingsInv
  BY SettingsAssumption DEF SettingsInit, SettingsInv, SettingsTypeOK, HeldInv

(* A write of the row is witnessed by every PATCH in flight.               *)
LEMMA WitnessHeld ==
  ASSUME SettingsInv, NEW s \in Secrets
  PROVE  /\ Witness(patch, s) \in [Patches -> PatchCalls \cup {NoCall}]
         /\ \A h \in Patches : patch[h] # NoCall => Witness(patch, s)[h] # NoCall
         /\ \A h \in Patches : Witness(patch, s)[h] # NoCall =>
              /\ patch[h] # NoCall
              /\ Witness(patch, s)[h].asked = patch[h].asked
              /\ Witness(patch, s)[h].seen = patch[h].seen
              /\ Witness(patch, s)[h].todo = patch[h].todo
              /\ \A c \in Columns :
                   Witness(patch, s)[h].held[c] = patch[h].held[c] \cup {s[c]}
<1>1. ASSUME NEW h \in Patches, patch[h] # NoCall
      PROVE  /\ Witness(patch, s)[h] \in PatchCalls
             /\ Witness(patch, s)[h].asked = patch[h].asked
             /\ Witness(patch, s)[h].seen = patch[h].seen
             /\ Witness(patch, s)[h].todo = patch[h].todo
             /\ \A c \in Columns :
                  Witness(patch, s)[h].held[c] = patch[h].held[c] \cup {s[c]}
  <2> DEFINE held == [c \in Columns |-> patch[h].held[c] \cup {s[c]}]
  <2>1. patch[h] \in PatchCalls
    BY <1>1 DEF SettingsInv, SettingsTypeOK
  <2>2. held \in [Columns -> SUBSET Values]
    BY <2>1 DEF PatchCalls, Secrets
  <2>3. Witness(patch, s)[h] = [patch[h] EXCEPT !.held = held]
    BY <1>1 DEF Witness
  <2> HIDE DEF held
  <2>4. Witness(patch, s)[h] \in PatchCalls /\ Witness(patch, s)[h].held = held
    BY <2>1, <2>2, <2>3 DEF PatchCalls
  <2>5. /\ Witness(patch, s)[h].asked = patch[h].asked
        /\ Witness(patch, s)[h].seen = patch[h].seen
        /\ Witness(patch, s)[h].todo = patch[h].todo
    BY <2>1, <2>3 DEF PatchCalls
  <2> QED BY <2>4, <2>5 DEF held
<1>2. ASSUME NEW h \in Patches, patch[h] = NoCall
      PROVE  Witness(patch, s)[h] = NoCall
  BY <1>2 DEF Witness
<1> QED BY <1>1, <1>2, NoCallAssumption DEF Witness

(* The setup callback.                                                     *)
LEMMA SetupInv ==
  ASSUME SettingsInv, SaveAppConfig
  PROVE  SettingsInv'
<1>1. secret' \in Secrets /\ patch' = Witness(patch, secret')
  BY DEF SaveAppConfig
<1>2. patch' \in [Patches -> PatchCalls \cup {NoCall}]
  BY <1>1, WitnessHeld
<1>3. app' \in 0..AppMax /\ owner' \in Owners \cup {NoOwner}
  BY SettingsAssumption DEF SaveAppConfig, SettingsInv, SettingsTypeOK
<1>4. SettingsTypeOK'
  BY <1>1, <1>2, <1>3 DEF SaveAppConfig, SettingsInv, SettingsTypeOK
<1>5. HeldInv'
  BY <1>1, WitnessHeld DEF SettingsInv, HeldInv, HeldOf
<1> QED BY <1>4, <1>5 DEF SettingsInv

(* A PATCH reads its snapshot.                                             *)
LEMMA BeginPatchInv ==
  ASSUME SettingsInv, NEW h \in Patches, NEW body \in Bodies, BeginPatch(h, body)
  PROVE  SettingsInv'
<1> DEFINE call == [asked |-> body, seen |-> secret, todo |-> Needed(body, secret),
                    held |-> [c \in Columns |-> {secret[c]}]]
<1>1. call \in PatchCalls
  BY DEF PatchCalls, SettingsInv, SettingsTypeOK, Secrets, Needed
<1>2. patch' = [patch EXCEPT ![h] = call] /\ UNCHANGED <<app, secret, owner, allowed, gate>>
  BY DEF BeginPatch, rowVars
<1>3. SettingsTypeOK'
  BY <1>1, <1>2 DEF SettingsInv, SettingsTypeOK
<1>4. HeldOf(call, secret')
  BY <1>2 DEF HeldOf, Needed
<1>5. HeldInv'
  BY <1>2, <1>4 DEF SettingsInv, SettingsTypeOK, HeldInv, HeldOf
<1> QED BY <1>3, <1>5 DEF SettingsInv

(* A field is written: no other column changes, and the value is live.     *)
LEMMA WriteFieldInv ==
  ASSUME SettingsInv, NEW h \in Patches, NEW c \in Columns, WriteField(h, c)
  PROVE  SettingsInv'
<1> DEFINE s == [secret EXCEPT ![c] = patch[h].asked[c]]
           w == Witness(patch, s)
<1>1. patch[h] # NoCall /\ patch[h] \in PatchCalls /\ c \in patch[h].todo
  BY DEF WriteField, Takes, SettingsInv, SettingsTypeOK
<1>2. patch[h].asked[c] \in Values
  BY <1>1 DEF WriteField, SettingsInv, HeldInv, HeldOf, Needed, PatchCalls, Bodies
<1>3. s \in Secrets /\ s[c] = patch[h].asked[c]
  BY <1>2 DEF SettingsInv, SettingsTypeOK, Secrets
<1>4. secret' = s /\ patch' = [w EXCEPT ![h].todo = @ \ {c}]
      /\ UNCHANGED <<app, owner, allowed, gate>>
  BY DEF WriteField, UpdateField
<1> HIDE DEF s
<1>5. /\ w \in [Patches -> PatchCalls \cup {NoCall}]
      /\ \A k \in Patches : patch[k] # NoCall => w[k] # NoCall
      /\ \A k \in Patches : w[k] # NoCall =>
           /\ patch[k] # NoCall
           /\ w[k].asked = patch[k].asked /\ w[k].seen = patch[k].seen
           /\ w[k].todo = patch[k].todo
           /\ \A d \in Columns : w[k].held[d] = patch[k].held[d] \cup {s[d]}
  BY <1>3, WitnessHeld
<1> HIDE DEF w
<1>6. w[h] \in PatchCalls /\ w[h] # NoCall
  BY <1>1, <1>5
<1>7. /\ patch' \in [Patches -> PatchCalls \cup {NoCall}]
      /\ patch'[h] = [w[h] EXCEPT !.todo = w[h].todo \ {c}]
      /\ patch'[h] \in PatchCalls
      /\ \A k \in Patches \ {h} : patch'[k] = w[k]
  BY <1>4, <1>5, <1>6 DEF PatchCalls
<1>8. SettingsTypeOK'
  BY <1>3, <1>4, <1>7 DEF SettingsInv, SettingsTypeOK
<1>9. ASSUME NEW k \in Patches, patch'[k] # NoCall
      PROVE  HeldOf(patch'[k], secret')
  <2>1. CASE k = h
    <3>1. /\ patch'[h].asked = patch[h].asked /\ patch'[h].seen = patch[h].seen
          /\ patch'[h].todo = patch[h].todo \ {c} /\ patch'[h].held = w[h].held
      BY <1>5, <1>6, <1>7 DEF PatchCalls
    <3>2. HeldOf(patch[h], secret)
      BY <1>1 DEF SettingsInv, HeldInv
    <3> QED BY <2>1, <3>1, <3>2, <1>3, <1>4, <1>5, <1>6 DEF HeldOf, Needed
  <2>2. CASE k # h
    <3>1. patch'[k] = w[k] /\ HeldOf(patch[k], secret)
      BY <2>2, <1>5, <1>7, <1>9 DEF SettingsInv, HeldInv
    <3> QED BY <2>2, <3>1, <1>4, <1>5, <1>9 DEF HeldOf, Needed
  <2> QED BY <2>1, <2>2
<1> QED BY <1>8, <1>9 DEF SettingsInv, HeldInv

(* A PATCH ends, with its answer or without.                               *)
LEMMA EndPatchInv ==
  ASSUME SettingsInv, NEW h \in Patches, patch' = [patch EXCEPT ![h] = NoCall],
         UNCHANGED <<rowVars, allowed, gate>>
  PROVE  SettingsInv'
BY DEF SettingsInv, SettingsTypeOK, HeldInv, HeldOf, rowVars

(* The owner gate and the owner list leave the rotatable columns alone.    *)
LEMMA GateInv ==
  ASSUME SettingsInv, NEW d \in Deliveries, GateStep(d)
  PROVE  SettingsInv'
<1>1. HeldInv'
  BY DEF GateStep, BeginGate, ResolveOwner, PersistOwner, ReadAccess, LetThrough,
         SettingsInv, HeldInv, HeldOf, rowVars
<1>2. UNCHANGED <<app, secret, allowed, patch>>
  BY DEF GateStep, BeginGate, ResolveOwner, PersistOwner, ReadAccess, LetThrough, rowVars
<1>3. owner' \in Owners \cup {NoOwner} /\ gate' \in [Deliveries -> GateCalls \cup {NoCall}]
  <2>1. ASSUME NEW repo \in Owners, BeginGate(d, repo)
        PROVE  <1>3!1 /\ <1>3!2
    <3>1. [at |-> IF owner = NoOwner THEN "resolve" ELSE Compare(repo, owner),
           repo |-> repo, login |-> OwnerOf[app]] \in GateCalls
      BY <2>1, SettingsAssumption
         DEF BeginGate, Compare, GateCalls, SettingsInv, SettingsTypeOK
    <3> QED BY <2>1, <3>1 DEF BeginGate, rowVars, SettingsInv, SettingsTypeOK
  <2>2. CASE ResolveOwner(d)
    BY <2>2 DEF ResolveOwner, At, rowVars, GateCalls, SettingsInv, SettingsTypeOK
  <2>3. CASE PersistOwner(d)
    BY <2>3 DEF PersistOwner, At, Compare, GateCalls, SettingsInv, SettingsTypeOK
  <2>4. CASE ReadAccess(d) \/ LetThrough(d)
    BY <2>4 DEF ReadAccess, LetThrough, At, rowVars, GateCalls, SettingsInv, SettingsTypeOK
  <2> QED BY <2>1, <2>2, <2>3, <2>4 DEF GateStep
<1> QED BY <1>1, <1>2, <1>3 DEF SettingsInv, SettingsTypeOK

(* Every step keeps the invariant.                                         *)
LEMMA SettingsStepInv == SettingsInv /\ [SettingsNext]_settingsVars => SettingsInv'
<1> SUFFICES ASSUME SettingsInv, [SettingsNext]_settingsVars
             PROVE  SettingsInv'
  OBVIOUS
<1>1. CASE SaveAppConfig
  BY <1>1, SetupInv
<1>2. ASSUME NEW h \in Patches, PatchStep(h)
      PROVE  SettingsInv'
  <2>1. ASSUME NEW c \in Columns, Refuse(h, c)
        PROVE  SettingsInv'
    BY <2>1, EndPatchInv DEF Refuse
  <2>2. CASE Answer(h)
    BY <2>2, EndPatchInv DEF Answer
  <2> QED BY <1>2, <2>1, <2>2, BeginPatchInv, WriteFieldInv DEF PatchStep
<1>3. ASSUME NEW d \in Deliveries, GateStep(d)
      PROVE  SettingsInv'
  BY <1>3, GateInv
<1>4. ASSUME NEW list \in SUBSET Owners, SaveAccessSettings(list)
      PROVE  SettingsInv'
  BY <1>4 DEF SaveAccessSettings, rowVars, SettingsInv, SettingsTypeOK, HeldInv, HeldOf
<1>5. CASE UNCHANGED settingsVars
  BY <1>5 DEF settingsVars, rowVars, SettingsInv, SettingsTypeOK, HeldInv, HeldOf
<1> QED BY <1>1, <1>2, <1>3, <1>4, <1>5 DEF SettingsNext

LEMMA SettingsInvariant == SettingsSpec => []SettingsInv
  BY SettingsInitInv, SettingsStepInv, PTL DEF SettingsSpec

(* Every value a successful PATCH reports was live while it ran.           *)
THEOREM AnswersSound == SettingsSpec => []AnswersHeld
<1>1. SettingsInv => AnswersHeld
  BY DEF SettingsInv, SettingsTypeOK, HeldInv, HeldOf, AnswersHeld, Answering,
         Fingerprint, Needed, PatchCalls
<1> QED BY <1>1, SettingsInvariant, PTL

(* Rotations of different fields do not undo each other.                   *)
THEOREM RotationsKept == SettingsSpec => ColumnsKept
<1> DEFINE Kept(c) == \/ app' # app
                      \/ \E h \in Patches :
                           patch[h] # NoCall /\ patch[h].asked[c] = secret'[c]
<1>1. ASSUME SettingsInv, [SettingsNext]_settingsVars, NEW c \in Columns,
             secret'[c] # secret[c]
      PROVE  Kept(c)
  <2>1. CASE SaveAppConfig
    BY <2>1, SettingsAssumption DEF SaveAppConfig, SettingsInv, SettingsTypeOK
  <2>2. ASSUME NEW h \in Patches, NEW d \in Columns, WriteField(h, d)
        PROVE  Kept(c)
    <3>1. secret' = [secret EXCEPT ![d] = patch[h].asked[d]] /\ patch[h] # NoCall
      BY <2>2 DEF WriteField, UpdateField, Takes
    <3>2. c = d /\ secret'[c] = patch[h].asked[c]
      BY <1>1, <3>1 DEF SettingsInv, SettingsTypeOK, Secrets
    <3> QED BY <3>1, <3>2
  <2>3. CASE UNCHANGED secret
    BY <1>1, <2>3
  <2> QED
    BY <1>1, <2>1, <2>2, <2>3
       DEF SettingsNext, PatchStep, BeginPatch, Refuse, Answer, GateStep, BeginGate,
           ResolveOwner, PersistOwner, ReadAccess, LetThrough, SaveAccessSettings,
           settingsVars, rowVars
<1>2. SettingsInv /\ [SettingsNext]_settingsVars =>
        [\A c \in Columns : secret'[c] # secret[c] => Kept(c)]_settingsVars
  BY <1>1
<1> QED BY <1>2, SettingsInvariant, PTL DEF SettingsSpec, ColumnsKept
----------------------------------------------------------------------------
(* The owner gate knows the names of owners of Apps only: the row has one  *)
(* or none, and every gate in flight asks about one.                       *)
SetUp == {OwnerOf[a] : a \in 1..app}

OwnersSetUp ==
  /\ owner \in SetUp \cup {NoOwner}
  /\ \A d \in Deliveries : gate[d] # NoCall => gate[d].login \in SetUp

LEMMA OwnersStep ==
  SettingsInv /\ OwnersSetUp /\ [SettingsNext]_settingsVars => OwnersSetUp'
<1> SUFFICES ASSUME SettingsInv, OwnersSetUp, [SettingsNext]_settingsVars
             PROVE  OwnersSetUp'
  OBVIOUS
<1>0. app \in 0..AppMax /\ gate \in [Deliveries -> GateCalls \cup {NoCall}]
  BY DEF SettingsInv, SettingsTypeOK
<1>1. CASE SaveAppConfig
  <2>1. app' = app + 1 /\ owner' = OwnerOf[app + 1] /\ gate' = gate
    BY <1>1 DEF SaveAppConfig
  <2>2. SetUp \subseteq SetUp' /\ owner' \in SetUp'
    BY <1>0, <2>1, SettingsAssumption DEF SetUp
  <2> QED BY <2>1, <2>2 DEF OwnersSetUp
<1>2. ASSUME NEW d \in Deliveries, NEW repo \in Owners, BeginGate(d, repo)
      PROVE  OwnersSetUp'
  <2> DEFINE call == [at |-> IF owner = NoOwner THEN "resolve" ELSE Compare(repo, owner),
                      repo |-> repo, login |-> OwnerOf[app]]
  <2>1. UNCHANGED <<app, owner>> /\ gate' = [gate EXCEPT ![d] = call] /\ OwnerOf[app] \in SetUp
    BY <1>0, <1>2, SettingsAssumption DEF BeginGate, SetUp, rowVars
  <2>2. call.login = OwnerOf[app]
    OBVIOUS
  <2> HIDE DEF call
  <2> QED BY <1>0, <2>1, <2>2 DEF OwnersSetUp, SetUp
<1>3. ASSUME NEW d \in Deliveries,
             ResolveOwner(d) \/ PersistOwner(d) \/ ReadAccess(d) \/ LetThrough(d)
      PROVE  OwnersSetUp'
  <2>1. gate[d] # NoCall /\ gate[d] \in GateCalls
    BY <1>0, <1>3 DEF ResolveOwner, PersistOwner, ReadAccess, LetThrough, At
  <2>2. app' = app /\ owner' \in SetUp \cup {NoOwner}
    BY <1>3, <2>1
    DEF ResolveOwner, PersistOwner, ReadAccess, LetThrough, rowVars, OwnersSetUp
  <2>3. \/ gate' = [gate EXCEPT ![d] = NoCall]
        \/ \E label : gate' = [gate EXCEPT ![d].at = label]
    BY <1>3 DEF ResolveOwner, PersistOwner, ReadAccess, LetThrough
  <2>4. \A e \in Deliveries : gate'[e] # NoCall => gate[e] # NoCall /\ gate'[e].login = gate[e].login
    BY <1>0, <2>1, <2>3 DEF GateCalls
  <2> QED BY <2>2, <2>4 DEF OwnersSetUp, SetUp
<1>4. CASE UNCHANGED <<app, owner, gate>>
  BY <1>4 DEF OwnersSetUp, SetUp
<1> QED BY <1>1, <1>2, <1>3, <1>4
        DEF SettingsNext, PatchStep, GateStep, BeginPatch, WriteField, Refuse, Answer,
            SaveAccessSettings, settingsVars, rowVars

(* ownerAllowed fails closed: whatever fails and however late the answers  *)
(* and writes of a delivery come, the account it is let through for is on  *)
(* the list when that is read, or owns an App that was set up here.        *)
THEOREM GateClosed == SettingsSpec => GateFailsClosed
<1> DEFINE Lawful(d) ==
      gate'[d] # gate[d] /\ gate'[d] # NoCall /\ gate'[d].at = "admitted" =>
        \/ gate'[d].repo \in allowed
        \/ \E a \in 1..app : gate'[d].repo = OwnerOf[a]
<1>1. ASSUME SettingsInv, OwnersSetUp, [SettingsNext]_settingsVars, NEW d \in Deliveries
      PROVE  Lawful(d)
  <2>0. app \in 0..AppMax /\ gate \in [Deliveries -> GateCalls \cup {NoCall}]
    BY <1>1 DEF SettingsInv, SettingsTypeOK
  <2>1. ASSUME NEW repo \in Owners, BeginGate(d, repo)  PROVE Lawful(d)
    <3> DEFINE call == [at |-> IF owner = NoOwner THEN "resolve" ELSE Compare(repo, owner),
                        repo |-> repo, login |-> OwnerOf[app]]
    <3>1. gate'[d] = call
      BY <2>0, <2>1 DEF BeginGate
    <3>2. call.at = "admitted" => call.repo = owner /\ owner # NoOwner
      BY DEF Compare
    <3> HIDE DEF call
    <3> QED BY <1>1, <3>1, <3>2 DEF OwnersSetUp, SetUp
  <2>2. CASE At(d, "persist") /\ PersistOwner(d)
    <3>1. gate[d] \in GateCalls /\ gate[d].login \in SetUp
      BY <1>1, <2>0, <2>2 DEF At, OwnersSetUp
    <3>2. gate'[d] = [gate[d] EXCEPT !.at = Compare(gate[d].repo, gate[d].login)]
      BY <2>0, <2>2 DEF PersistOwner
    <3>3. gate'[d].repo = gate[d].repo /\ gate'[d].at = Compare(gate[d].repo, gate[d].login)
      BY <3>1, <3>2 DEF GateCalls
    <3> QED BY <3>1, <3>3 DEF Compare, SetUp
  <2>3. CASE ReadAccess(d)
    <3>1. gate[d] \in GateCalls
      BY <2>0, <2>3 DEF ReadAccess, At
    <3> QED BY <2>0, <2>3, <3>1 DEF ReadAccess, GateCalls
  <2>4. CASE ResolveOwner(d)
    <3>1. gate[d] \in GateCalls
      BY <2>0, <2>4 DEF ResolveOwner, At
    <3> QED BY <2>0, <2>4, <3>1 DEF ResolveOwner, GateCalls
  <2>5. CASE LetThrough(d)
    BY <2>0, <2>5 DEF LetThrough
  <2>6. CASE gate'[d] = gate[d]
    BY <2>6
  <2>7. ASSUME NEW e \in Deliveries, e # d, GateStep(e)  PROVE gate'[d] = gate[d]
    BY <2>0, <2>7 DEF GateStep, BeginGate, ResolveOwner, PersistOwner, ReadAccess, LetThrough
  <2> QED
    BY <1>1, <2>1, <2>2, <2>3, <2>4, <2>5, <2>6, <2>7
    DEF SettingsNext, PatchStep, GateStep, PersistOwner, SaveAppConfig, BeginPatch, WriteField,
        Refuse, Answer, SaveAccessSettings, settingsVars, rowVars
<1>2. SettingsInit => OwnersSetUp
  BY DEF SettingsInit, OwnersSetUp
<1>3. SettingsInv /\ OwnersSetUp /\ [SettingsNext]_settingsVars =>
        [\A d \in Deliveries : Lawful(d)]_settingsVars
  BY <1>1
<1> QED BY <1>2, <1>3, OwnersStep, SettingsInvariant, PTL DEF SettingsSpec, GateFailsClosed
=============================================================================
