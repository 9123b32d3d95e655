---------------------------- MODULE PortalStore ----------------------------
(***************************************************************************)
(* The tables of the multi-tenant portal: users, slots and assignments     *)
(* (gharp-portal/internal/store/sqlite.go, schema.sql).  The database has  *)
(* one connection, so a transaction is one step; a UNIQUE or REFERENCES    *)
(* violation in the middle of one rolls the whole of it back.              *)
(***************************************************************************)
EXTENDS Naturals, FiniteSets

CONSTANTS
  Users,  \* GitHub logins
  Slots,  \* slots of slots.yaml
  NoSlot  \* no assignment

ASSUME PortalAssumption == IsFiniteSet(Users) /\ IsFiniteSet(Slots) /\ NoSlot \notin Slots

VARIABLES
  account,    \* users.status, "none" when the row does not exist
  bound,      \* users whose row has their real github_id, not the sentinel
  slotStatus, \* slots.status, "none" when the row does not exist
  slotOf,     \* assignments.slot_id of a user
  gharpState  \* assignments.gharp_state of a user, "none" without a row

userVars   == <<account, bound>>
assignVars == <<slotStatus, slotOf, gharpState>>
tableVars  == <<userVars, assignVars>>

AccountStates == {"none", "invited", "active", "disabled"}
SlotStates    == {"none", "free", "assigned"}
GharpStates   == {"stopped", "starting", "running", "error"}

TablesInit ==
  /\ account    = [u \in Users |-> "none"] /\ bound = {}
  /\ slotStatus = [s \in Slots |-> "none"]
  /\ slotOf     = [u \in Users |-> NoSlot]
  /\ gharpState = [u \in Users |-> "none"]

----------------------------------------------------------------------------
(* users                                                                   *)

SetUserStatus(u, s) ==
  /\ account' = IF account[u] = "none" THEN account ELSE [account EXCEPT ![u] = s]
  /\ UNCHANGED bound

(* Idempotent: a row of any status stays as it is.                         *)
InviteUser(u) ==
  /\ account' = IF account[u] = "none" THEN [account EXCEPT ![u] = "invited"] ELSE account
  /\ UNCHANGED bound

(* By github_id, then by the login of an invitation; anyone else is not    *)
(* allowed in.                                                             *)
UpsertUserOnLogin(u) ==
  IF u \notin bound /\ account[u] = "invited"
  THEN /\ account' = [account EXCEPT ![u] = "active"]
       /\ bound' = bound \cup {u}
  ELSE UNCHANGED userVars

----------------------------------------------------------------------------
(* slots and assignments                                                   *)

(* Mutant: a reload of slots.yaml writes the status too.                   *)
UpsertSlotResetting(s) ==
  /\ slotStatus' = [slotStatus EXCEPT ![s] = "free"]
  /\ UNCHANGED <<slotOf, gharpState>>

(* ON CONFLICT the status stays.                                           *)
UpsertSlot(s) ==
  /\ slotStatus' = IF slotStatus[s] = "none" THEN [slotStatus EXCEPT ![s] = "free"]
                   ELSE slotStatus
  /\ UNCHANGED <<slotOf, gharpState>>

Held(s) == \E u \in Users : slotOf[u] = s

(* doAssign, with the slots of "freed" returned before.                    *)
Bind(u, s, freed) ==
  /\ slotStatus' = [x \in Slots |-> IF x = s THEN "assigned"
                                    ELSE IF x \in freed THEN "free" ELSE slotStatus[x]]
  /\ slotOf'     = [slotOf EXCEPT ![u] = s]
  /\ gharpState' = [gharpState EXCEPT ![u] = "stopped"]

(* A second assignment violates UNIQUE(user_id).                           *)
AssignFreeSlot(u, s) ==
  /\ account[u] # "none" /\ slotOf[u] = NoSlot
  /\ slotStatus[s] = "free"
  /\ Bind(u, s, {})

(* Mutants: what UNIQUE(slot_id) refuses is done; the slot that is given   *)
(* up stays assigned.                                                      *)
AssignTakenSlot(u, s) ==
  account[u] # "none" /\ slotStatus[s] # "none" /\ Bind(u, s, {slotOf[u]})
AssignSecondSlot(u, s) ==
  account[u] # "none" /\ slotStatus[s] = "free" /\ Bind(u, s, {})

(* freeExistingAssignment, then doAssign: the user's own slot is given     *)
(* back first; one that someone else holds violates UNIQUE(slot_id).       *)
AssignSlot(u, s) ==
  /\ account[u] # "none" /\ slotStatus[s] # "none"
  /\ \A v \in Users \ {u} : slotOf[v] # s
  /\ Bind(u, s, {slotOf[u]})

(* The row of the user, whichever slot it is about by now.                 *)
SetGharpState(u, x) ==
  /\ gharpState' = IF slotOf[u] = NoSlot THEN gharpState ELSE [gharpState EXCEPT ![u] = x]
  /\ UNCHANGED <<slotStatus, slotOf>>
----------------------------------------------------------------------------
TablesTypeOK ==
  /\ account \in [Users -> AccountStates] /\ bound \subseteq Users
  /\ slotStatus \in [Slots -> SlotStates]
  /\ slotOf \in [Users -> Slots \cup {NoSlot}]
  /\ gharpState \in [Users -> GharpStates \cup {"none"}]

(* slots.status and assignments agree whatever sequence of assignments,    *)
(* reassignments that fail half way and reloads of the registry the admins *)
(* go through: no slot is lost, none is given twice.                       *)
SlotsMatchAssignments ==
  /\ \A s \in Slots : slotStatus[s] = "assigned" <=> Held(s)
  /\ \A u, v \in Users : slotOf[u] = slotOf[v] /\ slotOf[u] # NoSlot => u = v
  /\ \A u \in Users : gharpState[u] = "none" <=> slotOf[u] = NoSlot

(* What the tables promise to tenants and admins, whatever of the logins,  *)
(* the requests and the sweep issues their statements, and in whatever     *)
(* order: the status column of slots and the assignments, which different  *)
(* statements of a transaction write, are one record of who has which slot.*)
Tenants(s) == {u \in Users : slotOf[u] = s}

Promise == INSTANCE Tenancy WITH
  Users <- Users, Slots <- Slots, account <- account, bound <- bound,
  free <- {s \in Slots : slotStatus[s] = "free"}, tenants <- [s \in Slots |-> Tenants(s)]
TenancySpec == Promise!Spec
============================================================================
