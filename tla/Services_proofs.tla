--------------------------- MODULE Services_proofs ---------------------------
(***************************************************************************)
(* Proofs about what surrounds the pool engine: the cache of installation  *)
(* tokens, the filters that share jobs out among pools, the notification   *)
(* settings - and that the sum MCServices checks is made of nothing but    *)
(* their behaviours.                                                       *)
(***************************************************************************)
EXTENDS MCServices, Settings_proofs, PortalAuth_proofs

(* What a token has left and what its caller has spent exceed what a       *)
(* caller may spend: the margin of an entry, or a lifetime, is longer.     *)
Outlasts ==
  \A c \in Callers :
    /\ step[c] = "idle" => spent[c] = 0
    /\ step[c] \in {"receive", "store", "using"} => left[c] + spent[c] > Hold

TokenInv == TokensTypeOK /\ Outlasts /\ CancelsOnlyWhenGone

(* A token in use has not expired.                                         *)
LEMMA TokenInvUsed ==
  TokenInv => UsedBeforeExpiry /\ \A c \in Callers : step[c] \in {"receive", "store"} => left[c] > 0
  BY TokenAssumption, SMT DEF TokenInv, TokensTypeOK, Outlasts, UsedBeforeExpiry, Steps

LEMMA TokenInvInit == TokensInit => TokenInv
<1> SUFFICES ASSUME TokensInit PROVE TokenInv  OBVIOUS
<1>1. cached \in {NoEntry} \cup 0..Lifetime /\ step \in [Callers -> Steps]
  BY DEF TokensInit, Steps
<1>2. left \in [Callers -> 0..Lifetime] /\ spent \in [Callers -> 0..Hold]
  <2>1. 0 \in 0..Lifetime /\ 0 \in 0..Hold  BY TokenAssumption, SMT
  <2> QED  BY <2>1 DEF TokensInit
<1>3. Outlasts /\ CancelsOnlyWhenGone  BY DEF TokensInit, Outlasts, CancelsOnlyWhenGone
<1> QED  BY <1>1, <1>2, <1>3 DEF TokensInit, TokenInv, TokensTypeOK

(* The steps of a caller keep the invariant: what it takes from the cache  *)
(* has more than Margin left, what it mints has a whole lifetime.          *)
LEMMA CallerKeepsInv ==
  ASSUME TokenInv, NEW c \in Callers,
         LoadToken(c) \/ DropEntry(c) \/ Mint(c) \/ ReceiveToken(c) \/ StoreToken(c) \/ UseToken(c) \/ Done(c)
  PROVE  TokenInv'
<1>0. TokensTypeOK /\ Outlasts /\ CancelsOnlyWhenGone  BY DEF TokenInv
<1>1. CASE LoadToken(c)
  BY <1>0, <1>1, TokenAssumption, SMT
  DEF LoadToken, Fresh, StepsTo, NoEntry, TokenInv, TokensTypeOK, Outlasts, CancelsOnlyWhenGone, Steps
<1>2. CASE DropEntry(c)
  BY <1>0, <1>2, TokenAssumption, SMT
  DEF DropEntry, StepsTo, NoEntry, TokenInv, TokensTypeOK, Outlasts, CancelsOnlyWhenGone, Steps
<1>3. CASE Mint(c)
  BY <1>0, <1>3, TokenAssumption, SMT
  DEF Mint, StepsTo, Finished, NoEntry, TokenInv, TokensTypeOK, Outlasts, CancelsOnlyWhenGone, Steps
<1>4. CASE ReceiveToken(c)
  BY <1>0, <1>4, TokenAssumption, SMT
  DEF ReceiveToken, StepsTo, Finished, NoEntry, TokenInv, TokensTypeOK, Outlasts, CancelsOnlyWhenGone, Steps
<1>5. CASE StoreToken(c)
  BY <1>0, <1>5, TokenAssumption, SMT
  DEF StoreToken, StepsTo, NoEntry, TokenInv, TokensTypeOK, Outlasts, CancelsOnlyWhenGone, Steps
<1>6. CASE UseToken(c)
  <2>1. left[c] # 0  BY <1>6, TokenInvUsed, SMT DEF UseToken, UsedBeforeExpiry
  <2>2. cancelled' \in BOOLEAN /\ (cancelled' => revoked')
    BY <1>0, <1>6, <2>1, SMT DEF UseToken, Refused, TokensTypeOK, CancelsOnlyWhenGone
  <2> QED  BY <1>0, <1>6, <2>2, SMT
    DEF UseToken, TokenInv, TokensTypeOK, Outlasts, CancelsOnlyWhenGone
<1>7. CASE Done(c)
  BY <1>0, <1>7, TokenAssumption, SMT
  DEF Done, StepsTo, Finished, NoEntry, TokenInv, TokensTypeOK, Outlasts, CancelsOnlyWhenGone, Steps
<1> QED  BY <1>1, <1>2, <1>3, <1>4, <1>5, <1>6, <1>7

(* A tick takes from a token what it adds to its caller's time.            *)
LEMMA AgeKeepsInv == TokenInv /\ TokensAge => TokenInv'
<1> SUFFICES ASSUME TokenInv, TokensAge PROVE TokenInv'  OBVIOUS
<1>0. TokensTypeOK /\ Outlasts /\ CancelsOnlyWhenGone  BY DEF TokenInv
<1>1. TokensTypeOK'
  BY <1>0, TokenAssumption, SMT DEF TokensAge, Shorter, NoEntry, TokensTypeOK
<1>2. Outlasts'
  <2> SUFFICES ASSUME NEW c \in Callers
               PROVE  /\ step[c] = "idle" => spent'[c] = 0
                      /\ step[c] \in {"receive", "store", "using"} => left'[c] + spent'[c] > Hold
    BY DEF Outlasts, TokensAge
  <2>1. left[c] \in Nat /\ spent[c] \in Nat  BY <1>0, TokenAssumption, SMT DEF TokensTypeOK
  <2>2. CASE step[c] = "idle"
    BY <1>0, <2>2 DEF Outlasts, TokensAge
  <2>3. CASE step[c] # "idle"
    <3>1. spent'[c] = spent[c] + 1 /\ left'[c] = (IF left[c] > 0 THEN left[c] - 1 ELSE left[c]) /\ spent[c] < Hold
      BY <2>3 DEF TokensAge, Shorter
    <3> QED  BY <1>0, <2>1, <2>3, <3>1, TokenAssumption, SMT DEF Outlasts
  <2> QED  BY <2>2, <2>3
<1>3. CancelsOnlyWhenGone'  BY <1>0 DEF TokensAge, CancelsOnlyWhenGone
<1> QED  BY <1>1, <1>2, <1>3 DEF TokenInv

LEMMA TokenInvNext == TokenInv /\ [TokensNext]_tokenVars => TokenInv'
<1> SUFFICES ASSUME TokenInv, [TokensNext]_tokenVars PROVE TokenInv'  OBVIOUS
<1>1. CASE \E c \in Callers : \/ LoadToken(c) \/ DropEntry(c) \/ Mint(c) \/ ReceiveToken(c)
                              \/ StoreToken(c) \/ UseToken(c) \/ Done(c)
  BY <1>1, CallerKeepsInv
<1>2. CASE TokensAge  BY <1>2, AgeKeepsInv
<1>3. CASE Revoke
  BY <1>3, SMT DEF Revoke, TokenInv, TokensTypeOK, Outlasts, CancelsOnlyWhenGone
<1>4. CASE UNCHANGED tokenVars
  BY <1>4, SMT DEF tokenVars, TokenInv, TokensTypeOK, Outlasts, CancelsOnlyWhenGone
<1> QED  BY <1>1, <1>2, <1>3, <1>4 DEF TokensNext

LEMMA TokenInvHolds == TokensSpec => []TokenInv
  BY TokenInvInit, TokenInvNext, PTL DEF TokensSpec

(* However lookups, deletions, mints and stores of any number of callers   *)
(* interleave (InstallationToken), a caller's token has not expired.       *)
THEOREM TokensLast == TokensSpec => []UsedBeforeExpiry
  BY TokenInvHolds, TokenInvUsed, PTL

(* The stale sweep's reading of a refusal is right: it cancels a job only  *)
(* if the App is gone (sweepStaleInProgressJobs).                          *)
THEOREM RefusalMeansGone == TokensSpec => []CancelsOnlyWhenGone
<1>1. TokenInv => CancelsOnlyWhenGone  BY DEF TokenInv
<1> QED  BY <1>1, TokenInvHolds, PTL

----------------------------------------------------------------------------
(* A pool has a row for a job if an environment it was started with has    *)
(* let the job in by its labels - the one it has now, unless the job has   *)
(* been left behind by a change of labels.                                 *)
LetIn ==
  \A p \in Pools : \A j \in recorded[p] :
    /\ \E e \in EnvironmentsOf[p] : LabelsMatch(LabelsOf[j], Load(e))
    /\ j \notin relabelled[p] => LabelsMatch(LabelsOf[j], Config(p))

Started ==
  /\ DOMAIN environment = Pools /\ \A p \in Pools : environment[p] \in EnvironmentsOf[p]
  /\ recorded \in [Pools -> SUBSET Jobs]
  /\ missed \in [Pools -> SUBSET Jobs] /\ relabelled \in [Pools -> SUBSET Jobs]
  /\ \A p \in Pools : missed[p] \subseteq recorded[p]

AdmissionInv == Started /\ LetIn /\ EventsReachRows

(* Pools told apart by their labels share no job: it names a capability,   *)
(* which neither "self-hosted" nor a prefix covers.                        *)
LEMMA MatchIsExclusive ==
  ASSUME NEW p \in Pools, NEW q \in Pools, p # q, NEW j \in Jobs,
         NEW e \in EnvironmentsOf[p], NEW f \in EnvironmentsOf[q],
         LabelsMatch(LabelsOf[j], Load(e)), LabelsMatch(LabelsOf[j], Load(f))
  PROVE  FALSE
<1>1. PICK l \in LabelsOf[j] :
        Normal(l) # SelfHosted /\ ~Dynamic(Normal(l), Load(e)) /\ ~Dynamic(Normal(l), Load(f))
  BY PartitionAssumption
<1>2. Load(e).labels # {} /\ Load(f).labels # {}  BY PartitionAssumption
<1>3. Normal(l) \in Capabilities(e)  BY <1>1, <1>2 DEF LabelsMatch, Capabilities
<1>4. Normal(l) \in Capabilities(f)  BY <1>1, <1>2 DEF LabelsMatch, Capabilities
<1> QED  BY <1>3, <1>4, PartitionAssumption

LEMMA AdmissionExclusive == AdmissionInv => OnePoolPerJob
<1> SUFFICES ASSUME AdmissionInv, NEW p \in Pools, NEW q \in Pools, p # q,
                    NEW j \in recorded[p], j \in recorded[q]
             PROVE  FALSE
  BY DEF OnePoolPerJob
<1>1. j \in Jobs  BY DEF AdmissionInv, Started
<1>2. PICK e \in EnvironmentsOf[p] : LabelsMatch(LabelsOf[j], Load(e))  BY DEF AdmissionInv, LetIn
<1>3. PICK f \in EnvironmentsOf[q] : LabelsMatch(LabelsOf[j], Load(f))  BY DEF AdmissionInv, LetIn
<1> QED  BY <1>1, <1>2, <1>3, MatchIsExclusive

LEMMA AdmissionInvInit == AdmissionInit => AdmissionInv
<1> SUFFICES ASSUME AdmissionInit PROVE AdmissionInv  OBVIOUS
<1>1. Started  BY DEF AdmissionInit, Started
<1>2. LetIn  BY DEF AdmissionInit, LetIn
<1>3. EventsReachRows  BY DEF AdmissionInit, EventsReachRows
<1> QED  BY <1>1, <1>2, <1>3 DEF AdmissionInv

LEMMA QueuedStep ==
  ASSUME AdmissionInv, NEW p \in Pools, NEW j \in Jobs, Queued(p, j)
  PROVE  AdmissionInv'
<1>0. Started /\ LetIn /\ EventsReachRows  BY DEF AdmissionInv
<1>1. LabelsMatch(LabelsOf[j], Config(p))  BY DEF Queued, Admits
<1>2. recorded' = [recorded EXCEPT ![p] = @ \cup {j}] /\ UNCHANGED <<environment, missed, relabelled>>
  BY DEF Queued
<1>3. Started'  BY <1>0, <1>2 DEF Started
<1>4. LetIn'
  <2> SUFFICES ASSUME NEW q \in Pools, NEW k \in recorded'[q]
               PROVE  /\ \E e \in EnvironmentsOf[q] : LabelsMatch(LabelsOf[k], Load(e))
                      /\ k \notin relabelled[q] => LabelsMatch(LabelsOf[k], Load(environment[q]))
    BY <1>2 DEF LetIn, Config
  <2>1. CASE k \in recorded[q]  BY <2>1, <1>0 DEF LetIn, Config
  <2>2. CASE k \notin recorded[q]
    <3>1. q = p /\ k = j  BY <2>2, <1>0, <1>2 DEF Started
    <3> QED  BY <3>1, <1>0, <1>1 DEF Config, Started
  <2> QED  BY <2>1, <2>2
<1>5. EventsReachRows'  BY <1>0, <1>2 DEF EventsReachRows
<1> QED  BY <1>3, <1>4, <1>5 DEF AdmissionInv

(* Only labels can turn a later event away.                                *)
LEMMA LifecycleStep ==
  ASSUME AdmissionInv, NEW p \in Pools, NEW j \in Jobs, Lifecycle(p, j)
  PROVE  AdmissionInv'
<1>0. Started /\ LetIn /\ EventsReachRows  BY DEF AdmissionInv
<1>1. j \in recorded[p] /\ ~LabelsMatch(LabelsOf[j], Config(p))  BY DEF Lifecycle, Admits
<1>2. missed' = [missed EXCEPT ![p] = @ \cup {j}] /\ UNCHANGED <<environment, recorded, relabelled>>
  BY DEF Lifecycle
<1>3. Started'  BY <1>0, <1>1, <1>2 DEF Started
<1>4. LetIn'  BY <1>0, <1>2 DEF LetIn, Config
<1>5. j \in relabelled[p]  BY <1>0, <1>1 DEF LetIn
<1>6. EventsReachRows'  BY <1>0, <1>2, <1>5 DEF EventsReachRows, Started
<1> QED  BY <1>3, <1>4, <1>6 DEF AdmissionInv

LEMMA ReloadStep ==
  ASSUME AdmissionInv, NEW p \in Pools, NEW e \in EnvironmentsOf[p], Reload(p, e)
  PROVE  AdmissionInv'
<1>0. Started /\ LetIn /\ EventsReachRows  BY DEF AdmissionInv
<1>1. environment' = [environment EXCEPT ![p] = e] /\ UNCHANGED <<recorded, missed>>  BY DEF Reload
<1>2. CASE Config(p)'.labels = Config(p).labels /\ Config(p)'.prefixes = Config(p).prefixes
  <2>1. relabelled' = relabelled  BY <1>2 DEF Reload
  <2>2. Started'  BY <1>0, <1>1, <2>1 DEF Started
  <2>3. LetIn'
    <3> SUFFICES ASSUME NEW q \in Pools, NEW k \in recorded[q]
                 PROVE  /\ \E f \in EnvironmentsOf[q] : LabelsMatch(LabelsOf[k], Load(f))
                        /\ k \notin relabelled[q] => LabelsMatch(LabelsOf[k], Config(q)')
      BY <1>1, <2>1 DEF LetIn, Config
    <3>1. Config(q)'.labels = Config(q).labels /\ Config(q)'.prefixes = Config(q).prefixes
      BY <1>0, <1>1, <1>2 DEF Config, Started
    <3>2. LabelsMatch(LabelsOf[k], Config(q)') <=> LabelsMatch(LabelsOf[k], Config(q))
      BY <3>1 DEF LabelsMatch, Dynamic
    <3> QED  BY <1>0, <3>2 DEF LetIn
  <2>4. EventsReachRows'  BY <1>0, <1>1, <2>1 DEF EventsReachRows
  <2> QED  BY <2>2, <2>3, <2>4 DEF AdmissionInv
<1>3. CASE ~(Config(p)'.labels = Config(p).labels /\ Config(p)'.prefixes = Config(p).prefixes)
  <2>1. relabelled' = [relabelled EXCEPT ![p] = recorded[p]]  BY <1>3 DEF Reload
  <2>2. Started'  BY <1>0, <1>1, <2>1 DEF Started
  <2>3. LetIn'
    <3> SUFFICES ASSUME NEW q \in Pools, NEW k \in recorded[q]
                 PROVE  /\ \E f \in EnvironmentsOf[q] : LabelsMatch(LabelsOf[k], Load(f))
                        /\ k \notin relabelled'[q] => LabelsMatch(LabelsOf[k], Load(environment'[q]))
      BY <1>1 DEF LetIn, Config
    <3>1. CASE q = p  BY <3>1, <1>0, <2>1 DEF LetIn, Started
    <3>2. CASE q # p
      <4>1. environment'[q] = environment[q] /\ relabelled'[q] = relabelled[q]
        BY <3>2, <1>0, <1>1, <2>1 DEF Started
      <4> QED  BY <4>1, <1>0 DEF LetIn, Config
    <3> QED  BY <3>1, <3>2
  <2>4. EventsReachRows'
    <3>1. \A q \in Pools : relabelled'[q] = IF q = p THEN recorded[q] ELSE relabelled[q]
      BY <1>0, <2>1 DEF Started
    <3> QED  BY <3>1, <1>0, <1>1 DEF EventsReachRows, Started
  <2> QED  BY <2>2, <2>3, <2>4 DEF AdmissionInv
<1> QED  BY <1>2, <1>3

LEMMA AdmissionInvNext == AdmissionInv /\ [AdmissionNext]_admissionVars => AdmissionInv'
<1> SUFFICES ASSUME AdmissionInv, [AdmissionNext]_admissionVars PROVE AdmissionInv'  OBVIOUS
<1>1. CASE \E p \in Pools, j \in Jobs : Queued(p, j)     BY <1>1, QueuedStep
<1>2. CASE \E p \in Pools, j \in Jobs : Lifecycle(p, j)  BY <1>2, LifecycleStep
<1>3. CASE \E p \in Pools : \E e \in EnvironmentsOf[p] : Reload(p, e)  BY <1>3, ReloadStep
<1>4. CASE UNCHANGED <<environment, recorded, missed, relabelled>>
  BY <1>4 DEF AdmissionInv, Started, LetIn, Config, EventsReachRows
<1>5. CASE \E j \in Jobs : Publish(j)      BY <1>4, <1>5 DEF Publish
<1>6. CASE UNCHANGED admissionVars         BY <1>4, <1>6 DEF admissionVars
<1> QED  BY <1>1, <1>2, <1>3, <1>5, <1>6 DEF AdmissionNext

LEMMA AdmissionInvHolds == AdmissionSpec => []AdmissionInv
  BY AdmissionInvInit, AdmissionInvNext, PTL DEF AdmissionSpec

LEMMA AdmissionTypesHold == AdmissionSpec => []AdmissionTypeOK
<1> USE DEF AdmissionTypeOK
<1>1. AdmissionInit => AdmissionTypeOK
  BY AdmissionAssumption DEF AdmissionInit
<1>2. AdmissionInv /\ AdmissionTypeOK /\ [AdmissionNext]_admissionVars => AdmissionTypeOK'
  <2> SUFFICES ASSUME AdmissionInv, AdmissionTypeOK, [AdmissionNext]_admissionVars
               PROVE  AdmissionTypeOK'
    OBVIOUS
  <2>0. Started
    BY DEF AdmissionInv
  <2>1. ASSUME NEW p \in Pools, NEW j \in Jobs, Queued(p, j) \/ Lifecycle(p, j)
        PROVE  AdmissionTypeOK'
    BY <2>0, <2>1 DEF Queued, Lifecycle, Started
  <2>2. ASSUME NEW p \in Pools, NEW e \in EnvironmentsOf[p], Reload(p, e)
        PROVE  AdmissionTypeOK'
    <3>1. environment' \in [Pools -> Environments] /\ UNCHANGED <<public, recorded, missed>>
      BY <2>2, AdmissionAssumption DEF Reload
    <3>2. \A q \in Pools : relabelled'[q] \in {relabelled[q], recorded[q]}
      BY <2>0, <2>2 DEF Reload, Started
    <3> QED BY <3>1, <3>2
  <2>3. ASSUME NEW j \in Jobs, Publish(j)  PROVE AdmissionTypeOK'
    BY <2>3 DEF Publish
  <2>4. CASE UNCHANGED admissionVars
    BY <2>4 DEF admissionVars
  <2> QED BY <2>1, <2>2, <2>3, <2>4 DEF AdmissionNext
<1> QED BY <1>1, <1>2, AdmissionInvHolds, PTL DEF AdmissionSpec

(* Pools whose labels tell them apart never both record a job, restarted   *)
(* with whatever environments and however the lists are written            *)
(* (labelsMatch, parseLabels).                                             *)
THEOREM PoolsPartition == AdmissionSpec => []OnePoolPerJob
  BY AdmissionInvHolds, AdmissionExclusive, PTL

(* A recorded job's later events pass the filters (handleWorkflowJob),     *)
(* unless the pool came back with other labels.                            *)
THEOREM RowsHeard == AdmissionSpec => []EventsReachRows
<1>1. AdmissionInv => EventsReachRows  BY DEF AdmissionInv
<1> QED  BY <1>1, AdmissionInvHolds, PTL

----------------------------------------------------------------------------
(* Notifications.  A row that an edit holds is as good as the saved one,   *)
(* and an edit that connects a chat has seen a bot in it.                  *)
Connected(settings) == settings.chat # Nobody => settings.bot # Nobody

EditsConnected ==
  \A e \in Edits : edit[e] # Nobody =>
    Connected(edit[e].row) /\ (edit[e].field = "chat" => edit[e].row.bot # Nobody)

(* An edit that no other has overtaken holds the row as it is.             *)
EditsCurrent == \A e \in Edits : edit[e] # Nobody /\ ~edit[e].overtaken => edit[e].row = saved

(* A message is heard of before it is sent: when the row wants it.         *)
SendsHeard ==
  \A d \in Sends : send[d] # Nobody =>
    /\ send[d].to # Nobody => heard[d]
    /\ Sought(send[d].what, saved) => heard[d]

NotifyInv == NotifyTypeOK /\ ChatThroughBot /\ EditsConnected /\ EditsCurrent /\ SendsHeard

LEMMA NotifyInvInit == NotifyInit => NotifyInv
  BY NotifyAssumption
  DEF NotifyInit, NotifyInv, NotifyTypeOK, ChatThroughBot, EditsConnected, EditsCurrent, SendsHeard,
      DefaultRow, Rows, Modes

(* What is wanted is sought: Wanted and Sought read the same columns.      *)
LEMMA WantedIsSought ==
  ASSUME NEW what \in Events, NEW settings \in Rows, Wanted(what, settings)
  PROVE  Sought(what, settings)
  BY DEF Events, Rows, Modes, Wanted, Sought

(* A write puts one column of its own into the row that the edit has read: *)
(* other edits in flight are overtaken by it, messages hear of it.         *)
LEMMA SaveKeepsInv ==
  ASSUME NotifyInv, NEW e \in Edits, SaveEdit(e)
  PROVE  NotifyInv'
<1> DEFINE f == edit[e].field
<1>0. NotifyTypeOK /\ ChatThroughBot /\ EditsConnected /\ EditsCurrent /\ SendsHeard
  BY DEF NotifyInv
<1>1. edit[e] # Nobody /\ edit[e] \in EditCalls
  BY <1>0 DEF SaveEdit, NotifyTypeOK
<1>2. PICK x \in Choices[f] : saved' = [edit[e].row EXCEPT ![f] = x]
  BY DEF SaveEdit, Changed
<1>3. edit[e].row \in Rows /\ f \in {"enabled", "bot", "chat", "mode"}
  BY <1>1 DEF EditCalls
<1>4. saved' \in Rows /\ Connected(saved')
  <2>1. Connected(edit[e].row) /\ (f = "chat" => edit[e].row.bot # Nobody)
    BY <1>0, <1>1 DEF EditsConnected
  <2>2. CASE f = "enabled"
    BY <1>2, <1>3, <2>1, <2>2 DEF Choices, Rows, Connected
  <2>3. CASE f = "bot"
    BY <1>2, <1>3, <2>1, <2>3, NotifyAssumption DEF Choices, Rows, Connected
  <2>4. CASE f = "chat"
    BY <1>2, <1>3, <2>1, <2>4 DEF Choices, Rows, Connected
  <2>5. CASE f = "mode"
    BY <1>2, <1>3, <2>1, <2>5 DEF Choices, Rows, Connected
  <2> QED BY <1>3, <2>2, <2>3, <2>4, <2>5
<1>5. ASSUME NEW i \in Edits
      PROVE  \/ edit'[i] = Nobody
             \/ /\ edit[i] # Nobody /\ edit'[i] \in EditCalls /\ edit'[i].overtaken
                /\ edit'[i].row = edit[i].row /\ edit'[i].field = edit[i].field
  <2>1. edit'[i] = IF i = e \/ edit[i] = Nobody THEN Nobody ELSE [edit[i] EXCEPT !.overtaken = TRUE]
    BY DEF SaveEdit
  <2>2. edit[i] = Nobody \/ edit[i] \in EditCalls
    BY <1>0 DEF NotifyTypeOK
  <2> QED BY <2>1, <2>2 DEF EditCalls
<1>6. ASSUME NEW d \in Sends
      PROVE  heard'[d] = (heard[d] \/ (send[d] # Nobody /\ Sought(send[d].what, saved')))
  BY DEF SaveEdit
<1>7. NotifyTypeOK'
  <2>1. edit' \in [Edits -> EditCalls \cup {Nobody}]
    <3>1. edit' = [i \in Edits |-> edit'[i]]
      BY DEF SaveEdit
    <3> QED BY <1>5, <3>1
  <2>2. heard' \in [Sends -> BOOLEAN]
    BY Zenon DEF SaveEdit
  <2> QED BY <1>0, <1>4, <2>1, <2>2 DEF NotifyTypeOK, SaveEdit
<1>8. EditsConnected' /\ EditsCurrent'
  BY <1>0, <1>5 DEF EditsConnected, EditsCurrent
<1>9. SendsHeard'
  BY <1>0, <1>6 DEF SendsHeard, SaveEdit
<1> QED BY <1>4, <1>7, <1>8, <1>9 DEF NotifyInv, ChatThroughBot, Connected

LEMMA PanelKeepsInv ==
  ASSUME NotifyInv, NEW e \in Edits,
         RefuseEdit(e) \/ \E f \in DOMAIN Choices : BeginEdit(e, f)
  PROVE  NotifyInv'
<1>0. NotifyTypeOK /\ ChatThroughBot /\ EditsConnected /\ EditsCurrent /\ SendsHeard
  BY DEF NotifyInv
<1>1. CASE RefuseEdit(e)
  BY <1>0, <1>1
  DEF RefuseEdit, NotifyInv, NotifyTypeOK, ChatThroughBot, EditsConnected, EditsCurrent, SendsHeard
<1>2. ASSUME NEW f \in DOMAIN Choices, BeginEdit(e, f)  PROVE NotifyInv'
  <2> DEFINE call == [field |-> f, row |-> saved, overtaken |-> FALSE]
  <2>1. call \in EditCalls /\ edit' = [edit EXCEPT ![e] = call]
    BY <1>0, <1>2 DEF BeginEdit, NotifyTypeOK, EditCalls, Choices
  <2>2. call.row = saved /\ Connected(call.row) /\ (call.field = "chat" => call.row.bot # Nobody)
    BY <1>0, <1>2 DEF ChatThroughBot, Connected, BeginEdit
  <2> HIDE DEF call
  <2>3. \A i \in Edits : edit'[i] = IF i = e THEN call ELSE edit[i]
    BY <1>0, <2>1 DEF NotifyTypeOK
  <2> QED BY <1>0, <1>2, <2>1, <2>2, <2>3
          DEF BeginEdit, NotifyInv, NotifyTypeOK, ChatThroughBot, EditsConnected, EditsCurrent, SendsHeard
<1> QED BY <1>1, <1>2

LEMMA MessageKeepsInv ==
  ASSUME NotifyInv, NEW d \in Sends,
         LoadSettings(d) \/ SendMessage(d) \/ \E what \in Events : Arrive(d, what)
  PROVE  NotifyInv'
<1>0. NotifyTypeOK /\ ChatThroughBot /\ EditsConnected /\ EditsCurrent /\ SendsHeard
  BY DEF NotifyInv
<1>1. ASSUME send' \in [Sends -> SendCalls \cup {Nobody}], heard' \in [Sends -> BOOLEAN],
             UNCHANGED <<saved, edit>>, SendsHeard'
      PROVE  NotifyInv'
  BY <1>0, <1>1 DEF NotifyInv, NotifyTypeOK, ChatThroughBot, EditsConnected, EditsCurrent
<1>2. CASE Over(d) /\ UNCHANGED <<saved, edit>>
  BY <1>0, <1>1, <1>2 DEF Over, NotifyTypeOK, SendsHeard
<1>3. ASSUME NEW what \in Events, Arrive(d, what)  PROVE NotifyInv'
  <2>1. send' \in [Sends -> SendCalls \cup {Nobody}]
    BY <1>0, <1>3 DEF Arrive, NotifyTypeOK, SendCalls
  <2>2. heard' \in [Sends -> BOOLEAN]
    <3>1. Sought(what, saved) \in BOOLEAN
      BY Zenon DEF Sought
    <3> QED BY <1>0, <1>3, <3>1 DEF Arrive, NotifyTypeOK
  <2>3. SendsHeard'
    BY <1>0, <1>3 DEF Arrive, NotifyTypeOK, SendsHeard
  <2> QED BY <1>1, <1>3, <2>1, <2>2, <2>3 DEF Arrive
<1>4. CASE /\ LoadSettings(d) /\ Wanted(send[d].what, saved)
           /\ send' = [send EXCEPT ![d].to = <<saved.bot, saved.chat>>] /\ UNCHANGED heard
  <2>1. send[d] \in SendCalls /\ saved \in Rows
    BY <1>0, <1>4 DEF LoadSettings, NotifyTypeOK
  <2>2. <<saved.bot, saved.chat>> \in Bots \X Chats
    BY <1>4, <2>1 DEF Wanted, Rows
  <2>3. send' \in [Sends -> SendCalls \cup {Nobody}]
    BY <1>0, <1>4, <2>1, <2>2 DEF NotifyTypeOK, SendCalls
  <2>4. heard[d]
    <3>1. send[d].what \in Events
      BY <2>1 DEF SendCalls
    <3> QED BY <1>0, <1>4, <2>1, <3>1, WantedIsSought DEF SendsHeard, LoadSettings
  <2>5. SendsHeard'
    <3>1. \A i \in Sends : send'[i] = IF i = d THEN [send[d] EXCEPT !.to = <<saved.bot, saved.chat>>] ELSE send[i]
      BY <1>0, <1>4 DEF NotifyTypeOK
    <3> QED BY <1>0, <1>4, <2>4, <3>1 DEF SendsHeard, LoadSettings
  <2> QED BY <1>0, <1>1, <1>4, <2>3, <2>5 DEF LoadSettings, NotifyTypeOK
<1> QED BY <1>2, <1>3, <1>4 DEF LoadSettings, SendMessage

LEMMA NotifyInvNext == NotifyInv /\ [NotifyNext]_notifyVars => NotifyInv'
<1> SUFFICES ASSUME NotifyInv, [NotifyNext]_notifyVars PROVE NotifyInv'  OBVIOUS
<1>1. CASE UNCHANGED notifyVars
  BY <1>1
  DEF notifyVars, NotifyInv, NotifyTypeOK, ChatThroughBot, EditsConnected, EditsCurrent, SendsHeard
<1> QED BY <1>1, SaveKeepsInv, PanelKeepsInv, MessageKeepsInv DEF NotifyNext

LEMMA NotifyInvHolds == NotifySpec => []NotifyInv
  BY NotifyInvInit, NotifyInvNext, PTL DEF NotifySpec

(* However edits of the panel overlap, though each of them writes back the *)
(* whole row it has read, no row has a chat without a bot (notifications.go*)
(* beginMutation, SaveNotifySettings).                                     *)
THEOREM ChatsHaveBots == NotifySpec => []ChatThroughBot
<1>1. NotifyInv => ChatThroughBot  BY DEF NotifyInv
<1> QED  BY <1>1, NotifyInvHolds, PTL

(* A message is sent only if the switch and the mode asked for it at some  *)
(* time since its delivery came in (handleWorkflowRun).                    *)
THEOREM OffIsQuiet == NotifySpec => []QuietWhenOff
<1>1. NotifyInv => QuietWhenOff  BY DEF NotifyInv, SendsHeard, QuietWhenOff
<1> QED  BY <1>1, NotifyInvHolds, PTL

(* What an edit loses of another, it loses to an overlap: one that no      *)
(* write came between leaves every column but its own alone.               *)
THEOREM LossesAreOverlaps == NotifySpec => OnlyOverlapsLose
<1> DEFINE Kept(e) == edit[e] # Nobody /\ edit'[e] = Nobody /\ ~edit[e].overtaken =>
                        \A f \in DOMAIN Choices \ {edit[e].field} : saved'[f] = saved[f]
<1>1. ASSUME NotifyInv, [NotifyNext]_notifyVars, NEW e \in Edits  PROVE Kept(e)
  <2>1. CASE SaveEdit(e)
    <3>1. ASSUME edit[e] # Nobody, ~edit[e].overtaken
          PROVE  edit[e].row = saved /\ saved \in Rows
      BY <1>1, <3>1 DEF NotifyInv, EditsCurrent, NotifyTypeOK
    <3>2. PICK x : saved' = [edit[e].row EXCEPT ![edit[e].field] = x]
      BY <2>1 DEF SaveEdit, Changed
    <3> QED BY <3>1, <3>2 DEF Rows
  <2>2. ASSUME NEW i \in Edits, i # e, SaveEdit(i)  PROVE Kept(e)
    <3>1. edit[e] # Nobody => edit'[e] = [edit[e] EXCEPT !.overtaken = TRUE] /\ edit[e] \in EditCalls
      BY <1>1, <2>2 DEF SaveEdit, NotifyInv, NotifyTypeOK
    <3>2. edit[e] # Nobody => edit'[e] \in EditCalls
      BY <3>1 DEF EditCalls
    <3> QED BY <3>2, NotifyAssumption
  <2>3. CASE UNCHANGED saved
    BY <2>3
  <2> QED BY <1>1, <2>1, <2>2, <2>3
          DEF NotifyNext, RefuseEdit, BeginEdit, LoadSettings, SendMessage, Arrive, notifyVars
<1>2. NotifyInv /\ [NotifyNext]_notifyVars => [\A e \in Edits : Kept(e)]_notifyVars
  BY <1>1
<1> QED BY <1>2, NotifyInvHolds, PTL DEF NotifySpec, OnlyOverlapsLose
----------------------------------------------------------------------------
(* The sum.  What its Init and Next add only cuts behaviours away: each of *)
(* the five takes its own steps or none, so what is proved of each of them *)
(* holds of the sum.                                                       *)
LEMMA SumOfServices ==
  Spec => SettingsSpec /\ TokensSpec /\ NotifySpec /\ AuthSpec /\ AdmissionSpec
<1>1. Init => SettingsInit /\ TokensInit /\ NotifyInit /\ AuthInit /\ AdmissionInit
  BY DEF Init
<1>2. [Next]_serviceVars =>
        /\ [SettingsNext]_settingsVars /\ [TokensNext]_tokenVars /\ [NotifyNext]_notifyVars
        /\ [AuthNext]_authVars /\ [AdmissionNext]_admissionVars
  BY DEF Next, serviceVars
<1> QED BY <1>1, <1>2, PTL DEF Spec, SettingsSpec, TokensSpec, NotifySpec, AuthSpec, AdmissionSpec

(* Every row, cache entry, request, session and message has its type.      *)
THEOREM ServicesTyped == Spec => []ServicesTypeOK
<1>1. SettingsInv => SettingsTypeOK
  BY DEF SettingsInv
<1>2. TokenInv => TokensTypeOK
  BY DEF TokenInv
<1>3. NotifyInv => NotifyTypeOK
  BY DEF NotifyInv
<1>4. AuthInv => AuthTypeOK
  BY DEF AuthInv, AuthTypes
<1>5. SettingsTypeOK /\ TokensTypeOK /\ NotifyTypeOK /\ AuthTypeOK /\ AdmissionTypeOK => ServicesTypeOK
  BY DEF ServicesTypeOK
<1> QED BY SumOfServices, SettingsInvariant, TokenInvHolds, NotifyInvHolds, AuthInvariant,
           AdmissionTypesHold, <1>1, <1>2, <1>3, <1>4, <1>5, PTL
=============================================================================
