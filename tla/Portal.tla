------------------------------- MODULE Portal -------------------------------
(***************************************************************************)
(* The multi-tenant portal (gharp-portal): logins and the admin endpoints, *)
(* the lifecycle manager that starts and stops the gharp instance of a     *)
(* slot by an OS command, and the health sweep.  Requests run concurrently *)
(* with each other and with the sweep; every statement, command and probe  *)
(* is one step, and nothing locks a user or a slot in between.             *)
(***************************************************************************)
EXTENDS PortalStore

CONSTANTS
  Requests, \* request slots: how many lifecycle requests run at a time
  Idle,     \* no request
  PortalEnv \* which optional events of the environment a run explores

VARIABLES
  instance, \* of a slot: "down", "booting" or "up"
  ranFor,   \* history: the user whose request started the instance of a slot
  request,  \* where a lifecycle request is
  checks,   \* rows of its snapshot the health sweep has not probed yet
  verdict   \* the write the last probe calls for

hostVars   == <<instance, ranFor>>
portalVars == <<tableVars, hostVars, request, checks, verdict>>

PortalInit ==
  /\ TablesInit
  /\ instance = [s \in Slots |-> "down"] /\ ranFor = [s \in Slots |-> Idle]
  /\ request = [q \in Requests |-> Idle]
  /\ checks = {} /\ verdict = {}

----------------------------------------------------------------------------
(* Logins and admin endpoints that are one transaction.                    *)

TablesOnly == UNCHANGED <<hostVars, request, checks, verdict>>

Invite(u) == InviteUser(u) /\ UNCHANGED assignVars /\ TablesOnly
Login(u)  == UpsertUserOnLogin(u) /\ UNCHANGED assignVars /\ TablesOnly
Enable(u) == SetUserStatus(u, "active") /\ UNCHANGED assignVars /\ TablesOnly

AssignUser(u) ==
  /\ \E s \in Slots : AssignFreeSlot(u, s) \/ AssignSlot(u, s)
  /\ UNCHANGED userVars /\ TablesOnly

ReloadSlot(s) == UpsertSlot(s) /\ UNCHANGED userVars /\ TablesOnly

----------------------------------------------------------------------------
(* Lifecycle requests.                                                     *)

Proceed(q, at) == request' = [request EXCEPT ![q].at = at]
Done(q)        == request' = [request EXCEPT ![q] = Idle]

(* RequireUser lets active users in, and GetAssignmentByUser reads the     *)
(* slot the whole request works on.                                        *)
Begin(q, u, op, at) ==
  /\ request[q] = Idle
  /\ account[u] = "active" /\ u \in bound /\ slotOf[u] # NoSlot
  /\ request' = [request EXCEPT ![q] = [op |-> op, user |-> u, slot |-> slotOf[u], at |-> at]]
  /\ UNCHANGED <<tableVars, hostVars, checks, verdict>>

StartRequest(q, u) == Begin(q, u, "start", "mark")
StopRequest(q, u)  == Begin(q, u, "stop", "command")

(* The admin's POST /admin/users/{id}/status: the status first, then Stop. *)
Disable(q, u) ==
  /\ request[q] = Idle /\ account[u] # "none"
  /\ SetUserStatus(u, "disabled")
  /\ request' = [request EXCEPT
       ![q] = [op |-> "stop", user |-> u, slot |-> NoSlot, at |-> "lookup"]]
  /\ UNCHANGED <<assignVars, hostVars, checks, verdict>>

Lookup(q) ==
  /\ request[q] # Idle /\ request[q].at = "lookup"
  /\ LET u == request[q].user IN
       IF slotOf[u] = NoSlot THEN Done(q)
       ELSE request' = [request EXCEPT ![q].slot = slotOf[u], ![q].at = "command"]
  /\ UNCHANGED <<tableVars, hostVars, checks, verdict>>

MarkStarting(q) ==
  /\ request[q] # Idle /\ request[q].at = "mark"
  /\ SetGharpState(request[q].user, "starting")
  /\ Proceed(q, "command")
  /\ UNCHANGED <<userVars, hostVars, checks, verdict>>

(* start-gharp <slot>: the instance boots unless it is there already.      *)
RunStart(q) ==
  /\ request[q] # Idle /\ request[q].op = "start" /\ request[q].at = "command"
  /\ LET s == request[q].slot IN
     \/ /\ instance' = [instance EXCEPT ![s] = IF @ = "down" THEN "booting" ELSE @]
        /\ ranFor' = [ranFor EXCEPT ![s] = request[q].user]
        /\ Proceed(q, "poll")
     \/ /\ "commandFails" \in PortalEnv
        /\ Proceed(q, "failed") /\ UNCHANGED hostVars
  /\ UNCHANGED <<tableVars, checks, verdict>>

(* stop-gharp <slot>                                                       *)
RunStop(q) ==
  /\ request[q] # Idle /\ request[q].op = "stop" /\ request[q].at = "command"
  /\ LET s == request[q].slot IN
     \/ /\ instance' = [instance EXCEPT ![s] = "down"]
        /\ Proceed(q, "stopped") /\ UNCHANGED ranFor
     \/ /\ "commandFails" \in PortalEnv
        /\ Proceed(q, "failed") /\ UNCHANGED hostVars
  /\ UNCHANGED <<tableVars, checks, verdict>>

(* pollHealthz: until the instance answers, or the deadline.               *)
Poll(q) ==
  /\ request[q] # Idle /\ request[q].at = "poll"
  /\ Proceed(q, IF instance[request[q].slot] = "up" THEN "ready" ELSE "failed")
  /\ UNCHANGED <<tableVars, hostVars, checks, verdict>>

FinalState == [ready |-> "running", failed |-> "error", stopped |-> "stopped"]

Finish(q) ==
  /\ request[q] # Idle /\ request[q].at \in DOMAIN FinalState
  /\ SetGharpState(request[q].user, FinalState[request[q].at])
  /\ Done(q)
  /\ UNCHANGED <<userVars, hostVars, checks, verdict>>

----------------------------------------------------------------------------
(* The health sweep, every 30 s: ListAssignments, then one probe and at    *)
(* most one write per row.                                                 *)

(* Mutant: only what is marked running is looked at.                       *)
ProbedRunningOnly(u) == gharpState[u] = "running"

Probed(u) == gharpState[u] \in {"starting", "running"}

(* The rows that are neither running nor starting are only reported.       *)
ListAssignments ==
  /\ checks = {} /\ verdict = {}
  /\ checks' = {[user |-> u, slot |-> slotOf[u], seen |-> gharpState[u]] :
                  u \in {v \in Users : Probed(v)}}
  /\ UNCHANGED <<tableVars, hostVars, request, verdict>>

(* Mutant: a probe that fails is not held against a running instance.      *)
VerdictForgiving(c, answers) ==
  IF ~answers THEN IF c.seen = "running" THEN {} ELSE {"error"}
  ELSE IF c.seen = "starting" THEN {"running"} ELSE {}

(* A probe that fails means error; a starting row that answers is up.      *)
Verdict(c, answers) ==
  IF ~answers THEN {"error"} ELSE IF c.seen = "starting" THEN {"running"} ELSE {}

(* The sweep has 15 s for all its probes: past them even an instance that  *)
(* is up does not answer.                                                  *)
Probe(c) ==
  /\ c \in checks /\ verdict = {}
  /\ checks' = checks \ {c}
  /\ \E answers \in BOOLEAN :
       /\ answers => instance[c.slot] = "up"
       /\ ~answers => instance[c.slot] # "up" \/ "slowProbes" \in PortalEnv
       /\ verdict' = {[user |-> c.user, to |-> x] : x \in Verdict(c, answers)}
  /\ UNCHANGED <<tableVars, hostVars, request>>

WriteVerdict(v) ==
  /\ v \in verdict
  /\ verdict' = {}
  /\ SetGharpState(v.user, v.to)
  /\ UNCHANGED <<userVars, hostVars, request, checks>>

----------------------------------------------------------------------------
(* A statement fails: a request is over with nothing written, the sweep    *)
(* goes on to its next row.                                                *)
StoreFails ==
  /\ "storeError" \in PortalEnv
  /\ \/ /\ \E q \in Requests : /\ request[q] # Idle
                               /\ request[q].at \in {"lookup", "mark"} \cup DOMAIN FinalState
                               /\ Done(q)
        /\ UNCHANGED verdict
     \/ verdict # {} /\ verdict' = {} /\ UNCHANGED request
  /\ UNCHANGED <<tableVars, hostVars, checks>>

----------------------------------------------------------------------------
(* The hosts, and the portal process: its memory is gone, and the registry *)
(* is reloaded, as an admin may do at any time.                            *)

Boot(s) ==
  /\ instance[s] = "booting"
  /\ instance' = [instance EXCEPT ![s] = "up"]
  /\ UNCHANGED <<tableVars, ranFor, request, checks, verdict>>

Die(s) ==
  /\ "dies" \in PortalEnv /\ instance[s] # "down"
  /\ instance' = [instance EXCEPT ![s] = "down"]
  /\ UNCHANGED <<tableVars, ranFor, request, checks, verdict>>

RestartPortal ==
  /\ "restart" \in PortalEnv
  /\ request' = [q \in Requests |-> Idle] /\ checks' = {} /\ verdict' = {}
  /\ UNCHANGED <<tableVars, hostVars>>

----------------------------------------------------------------------------
RequestStep(q) ==
  Lookup(q) \/ MarkStarting(q) \/ RunStart(q) \/ RunStop(q) \/ Poll(q) \/ Finish(q)

PortalNext ==
  \/ \E u \in Users : Invite(u) \/ Login(u) \/ Enable(u) \/ AssignUser(u)
  \/ \E s \in Slots : ReloadSlot(s) \/ Boot(s) \/ Die(s)
  \/ \E q \in Requests : \/ RequestStep(q)
                         \/ \E u \in Users : StartRequest(q, u) \/ StopRequest(q, u)
                                             \/ Disable(q, u)
  \/ ListAssignments
  \/ \E c \in checks : Probe(c)
  \/ \E v \in verdict : WriteVerdict(v)
  \/ StoreFails \/ RestartPortal

PortalSpec == PortalInit /\ [][PortalNext]_portalVars

(* The sweep comes round every 30 s, and a row is not for ever the one at  *)
(* which a restart or a store error cuts the round short.                  *)
PortalFairSpec ==
  /\ PortalSpec
  /\ WF_portalVars(ListAssignments)
  /\ \A u \in Users :
       /\ SF_portalVars(\E c \in checks : c.user = u /\ Probe(c))
       /\ SF_portalVars(\E v \in verdict : v.user = u /\ WriteVerdict(v))

----------------------------------------------------------------------------
PortalTypeOK ==
  /\ TablesTypeOK
  /\ instance \in [Slots -> {"down", "booting", "up"}]
  /\ ranFor \in [Slots -> Users \cup {Idle}]
  /\ request \in [Requests -> {Idle} \cup
       [op : {"start", "stop"}, user : Users, slot : Slots \cup {NoSlot},
        at : {"lookup", "mark", "command", "poll"} \cup DOMAIN FinalState]]
  /\ checks \subseteq [user : Users, slot : Slots \cup {NoSlot}, seen : GharpStates]
  /\ verdict \subseteq [user : Users, to : GharpStates]

(* No instance stays 'starting': when the request that was to settle it    *)
(* died with the portal, the sweep does.                                   *)
StartsSettle ==
  \A u \in Users : (gharpState[u] = "starting") ~> (gharpState[u] # "starting")

(* An instance that stays down is not shown as running for ever, stale     *)
(* writes of requests about an earlier slot included.                      *)
DeadInstanceNoticed ==
  \A u \in Users : \A s \in Slots :
    (gharpState[u] = "running" /\ slotOf[u] = s /\ [](instance[s] # "up"))
      ~> (gharpState[u] # "running")

(* An account that may use the portal has its real github_id: the sentinel *)
(* of the invitation is gone.                                              *)
ActiveIsBound == \A u \in Users : account[u] = "active" => u \in bound

(* The instance of a disabled account is stopped, once the request that    *)
(* disabled it and those it overtook are over.                             *)
DisabledIsStopped ==
  \A u \in Users : account[u] = "disabled" /\ slotOf[u] # NoSlot
                   /\ (\A q \in Requests : request[q] = Idle)
    => instance[slotOf[u]] = "down"

(* No user has instances in two slots.                                     *)
OneInstancePerUser ==
  \A s, t \in Slots : s # t /\ instance[s] = "up" /\ instance[t] = "up"
                      => ranFor[s] # ranFor[t]

(* stopped -> starting -> running / error: a stopped instance leaves that  *)
(* state through a start only.                                             *)
AllowedTransitions ==
  [][\A u \in Users : gharpState[u] = "stopped" => gharpState'[u] \in {"stopped", "starting"}
    ]_gharpState
=============================================================================
