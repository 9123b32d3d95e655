------------------------------ MODULE MCServices -----------------------------
(* Small instances of the modules about what surrounds the pool engine for *)
(* TLC.  They share nothing: a behaviour picks one of them, the others     *)
(* stay as they start.  Rotations and the owner gate share the row alone,  *)
(* no column of it, and take turns likewise; so do concurrent logins and   *)
(* the slots of the users, which no login looks at.                        *)
EXTENDS Settings, TokenCache, Notifications, PortalAuth, Admission, TLC

CONSTANTS v1, v2, alice, bob

VARIABLE part

TwoColumns == <<"webhook_secret", "client_secret">>
TwoValues  == {v1, v2}
TwoOwners  == {alice, bob}
Accounts   == <<alice, bob>>

(* Two pools and two jobs, of which one asks for a routing label, and what *)
(* the pools are started with: lists written in every way, defaults, and   *)
(* lists with nothing but commas.                                          *)
TheWords == {"self-hosted", "gharp-", "gharp-1", "gpu", "arm", "owner/repo"}
Prefixed == {<<"gharp-", "gharp-1">>, <<"gharp-", "gharp-">>}
Plain(w) == [word |-> w, spelling |-> "plain"]
Other(w) == [word |-> w, spelling |-> "other"]

RunsOn == [j \in {"train", "build"} |->
  IF j = "train" THEN {Other("self-hosted"), Other("gpu")} ELSE {Plain("arm"), Other("gharp-1")}]
InOneRepo == [j \in {"train", "build"} |-> Other("owner/repo")]

Env(labels, prefixes, allowPublic, allowlist) ==
  [labels |-> labels, prefixes |-> prefixes, allowPublic |-> allowPublic, allowlist |-> allowlist]
StartedWith == [p \in {"north", "south"} |->
  IF p = "north"
  THEN {Env({Other("gpu"), Blank}, Unset, FALSE, {}),
        Env({Plain("gpu"), Other("self-hosted")}, {Blank}, TRUE, {}),
        Env(Unset, {Other("gharp-")}, FALSE, {Other("owner/repo")})}
  ELSE {Env({Plain("arm")}, Unset, FALSE, {Plain("owner/repo")}),
        Env({Other("arm"), Plain("self-hosted")}, {Blank}, FALSE, {Blank}),
        Env(Unset, Unset, TRUE, {})}]

(* Edits and callbacks are the requests Patches are, tokens the values.    *)
Symmetry == Permutations(Patches) \cup Permutations(TwoValues)

serviceVars == <<part, settingsVars, tokenVars, notifyVars, authVars, admissionVars>>

(* For logins, which look at no other session than the one to rotate, none *)
(* expires and no request is behind one.  For the requests behind sessions *)
(* the logins come one by one, and the sessions are those that browsers or *)
(* requests still name, and the second user is not disabled.               *)
OneLogin ==
  /\ lapsed = {}
  /\ \A c \in Callbacks, x, y \in pending :
       x = y /\ callback[c] = NoOne
  /\ \A c, d \in Callbacks : c # d => NoOne \in {callback[c], callback[d]}
NoneLeftOver ==
  \A t \in Tokens : session[t] # NoOne =>
    \/ \E b \in Browsers : cookie[b] = t
    \/ \E v \in Visits : visit[v] # NoOne /\ visit[v].token = t

BootstrapStays == \A u \in Bootstrap : account[u] # "disabled"

Init ==
  /\ part \in {"rotations", "owners", "tokens", "notifications", "logins", "proxy", "admission"}
  /\ SettingsInit
  /\ part \notin {"rotations", "owners"} => app = 0
  /\ part # "rotations" => \A c, d \in Columns : secret[c] = secret[d]
  /\ TokensInit /\ NotifyInit /\ AuthInit /\ AdmissionInit
  /\ part # "admission" =>
       public = {} /\ environment = [p \in Pools |-> CHOOSE e \in EnvironmentsOf[p] : TRUE]

Next ==
  /\ UNCHANGED part
  /\ \/ /\ part \in {"rotations", "owners"} /\ SettingsNext
        /\ \/ part = "rotations" /\ UNCHANGED <<allowed, gate>>
           \/ part = "owners" /\ UNCHANGED patch
        /\ UNCHANGED <<tokenVars, notifyVars, authVars, admissionVars>>
     \/ /\ part = "tokens" /\ TokensNext
        /\ UNCHANGED <<settingsVars, notifyVars, authVars, admissionVars>>
     \/ /\ part = "notifications" /\ NotifyNext
        /\ UNCHANGED <<settingsVars, tokenVars, authVars, admissionVars>>
     \/ /\ part \in {"logins", "proxy"} /\ AuthNext
        /\ \/ part = "logins" /\ UNCHANGED <<assignVars, expired, visit>>
           \/ part = "proxy" /\ OneLogin' /\ NoneLeftOver' /\ BootstrapStays'
        /\ UNCHANGED <<settingsVars, tokenVars, notifyVars, admissionVars>>
     \/ /\ part = "admission" /\ AdmissionNext
        /\ UNCHANGED <<settingsVars, tokenVars, notifyVars, authVars>>

Spec == Init /\ [][Next]_serviceVars

(* Every row, entry, request and message of the five has its type.         *)
ServicesTypeOK ==
  SettingsTypeOK /\ TokensTypeOK /\ NotifyTypeOK /\ AuthTypeOK /\ AdmissionTypeOK
=============================================================================
