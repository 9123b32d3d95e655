-------------------------- MODULE PortalStore_proofs -------------------------
(***************************************************************************)
(* Proofs about the tables of the portal: what each statement leaves true, *)
(* and how each is a move of the abstract Tenancy.  Portal and PortalAuth  *)
(* issue these statements in different orders and both cite this module.   *)
(***************************************************************************)
EXTENDS PortalStore, TLAPS

USE DEF tableVars, userVars, assignVars

(* The statements on assignments and slots, those on users, and everything *)
(* a step may do to the tables: one of them, or nothing.                   *)
AssignStatement ==
  \/ \E u \in Users, s \in Slots : AssignFreeSlot(u, s) \/ AssignSlot(u, s)
  \/ \E s \in Slots : UpsertSlot(s)
  \/ \E u \in Users, x \in GharpStates : SetGharpState(u, x)

UserStatement ==
  \E u \in Users : \/ InviteUser(u) \/ UpsertUserOnLogin(u)
                    \/ SetUserStatus(u, "active") \/ SetUserStatus(u, "disabled")

TableStatement ==
  \/ AssignStatement /\ UNCHANGED userVars
  \/ UserStatement /\ UNCHANGED assignVars
  \/ UNCHANGED tableVars

TablesInv == TablesTypeOK /\ SlotsMatchAssignments

LEMMA BindKeepsInv ==
  ASSUME TablesInv, NEW u \in Users, NEW s \in Slots, UNCHANGED userVars,
         \A v \in Users \ {u} : slotOf[v] # s,
         Bind(u, s, {slotOf[u]})
  PROVE  TablesInv'
<1> USE DEF TablesInv, TablesTypeOK, SlotsMatchAssignments, Bind
<1>1. TablesTypeOK'
  BY DEF SlotStates, GharpStates
<1>2. /\ \A v \in Users : slotOf'[v] = IF v = u THEN s ELSE slotOf[v]
      /\ \A x \in Slots : slotStatus'[x] = IF x = s THEN "assigned"
                                           ELSE IF x = slotOf[u] THEN "free" ELSE slotStatus[x]
  <2>1. \A v \in Users : slotOf'[v] = IF v = u THEN s ELSE slotOf[v]
    OBVIOUS
  <2>2. \A x \in Slots : slotStatus'[x] = IF x = s THEN "assigned"
                                          ELSE IF x = slotOf[u] THEN "free" ELSE slotStatus[x]
    OBVIOUS
  <2> QED BY <2>1, <2>2
<1>3. ASSUME NEW x \in Slots  PROVE (slotStatus[x] = "assigned" <=> Held(x))'
  <2>1. Held(x)' <=> \E v \in Users : slotOf'[v] = x
    BY DEF Held
  <2>2. CASE x = s
    BY <1>2, <2>1, <2>2
  <2>3. CASE x # s /\ x = slotOf[u]
    <3>1. \A v \in Users \ {u} : slotOf[v] # x
      BY <2>3, PortalAssumption
    <3> QED BY <1>2, <2>1, <2>3, <3>1
  <2>4. CASE x # s /\ x # slotOf[u]
    <3>1. Held(x)' <=> Held(x)
      BY <1>2, <2>1, <2>4 DEF Held
    <3> QED BY <1>2, <2>4, <3>1
  <2> QED BY <2>2, <2>3, <2>4
<1>4. \A v, w \in Users : slotOf'[v] = slotOf'[w] /\ slotOf'[v] # NoSlot => v = w
  BY <1>2
<1>5. \A v \in Users : gharpState'[v] = "none" <=> slotOf'[v] = NoSlot
  BY <1>2, PortalAssumption
<1> QED BY <1>1, <1>3, <1>4, <1>5

LEMMA StatementKeepsInv ==
  ASSUME TablesInv, AssignStatement, UNCHANGED userVars
  PROVE  TablesInv'
<1> USE DEF TablesInv
<1>1. ASSUME NEW u \in Users, NEW s \in Slots, AssignFreeSlot(u, s)  PROVE TablesInv'
  <2>1. \A v \in Users \ {u} : slotOf[v] # s
    BY <1>1 DEF AssignFreeSlot, SlotsMatchAssignments, Held
  <2>2. Bind(u, s, {slotOf[u]})
    BY <1>1, PortalAssumption DEF AssignFreeSlot, Bind
  <2> QED BY <2>1, <2>2, BindKeepsInv
<1>2. ASSUME NEW u \in Users, NEW s \in Slots, AssignSlot(u, s)  PROVE TablesInv'
  BY <1>2, BindKeepsInv DEF AssignSlot
<1>3. ASSUME NEW s \in Slots, UpsertSlot(s)  PROVE TablesInv'
  BY <1>3 DEF UpsertSlot, TablesTypeOK, SlotStates, SlotsMatchAssignments, Held
<1>4. ASSUME NEW u \in Users, NEW x \in GharpStates, SetGharpState(u, x)  PROVE TablesInv'
  BY <1>4 DEF SetGharpState, TablesTypeOK, GharpStates, SlotsMatchAssignments, Held
<1> QED BY <1>1, <1>2, <1>3, <1>4 DEF AssignStatement

LEMMA AccountsKeepInv ==
  ASSUME TablesInv, UNCHANGED assignVars, account' \in [Users -> AccountStates],
         bound' \subseteq Users
  PROVE  TablesInv'
BY DEF TablesInv, TablesTypeOK, SlotsMatchAssignments, Held

LEMMA TableStatementKeepsInv ==
  ASSUME TablesInv, TableStatement
  PROVE  TablesInv'
<1>1. CASE AssignStatement /\ UNCHANGED userVars
  BY <1>1, StatementKeepsInv
<1>2. CASE UserStatement /\ UNCHANGED assignVars
  <2>1. account' \in [Users -> AccountStates] /\ bound' \subseteq Users
    BY <1>2 DEF UserStatement, InviteUser, UpsertUserOnLogin, SetUserStatus, TablesInv, TablesTypeOK, AccountStates
  <2> QED BY <1>2, <2>1, AccountsKeepInv
<1>3. CASE UNCHANGED tableVars
  BY <1>3, AccountsKeepInv DEF TablesInv, TablesTypeOK
<1> QED BY <1>1, <1>2, <1>3 DEF TableStatement

(* A statement keeps every column in range whatever the rows say, and      *)
(* forgets no login.                                                       *)
LEMMA StatementTyped ==
  ASSUME TablesTypeOK, TableStatement
  PROVE  TablesTypeOK' /\ bound \subseteq bound'
<1> USE DEF TablesTypeOK
<1>1. ASSUME NEW u \in Users, NEW s \in Slots, NEW freed, Bind(u, s, freed), UNCHANGED userVars
      PROVE  TablesTypeOK' /\ bound \subseteq bound'
  <2>1. slotStatus' \in [Slots -> SlotStates]
    BY <1>1 DEF Bind, SlotStates
  <2>2. slotOf' \in [Users -> Slots \cup {NoSlot}] /\ gharpState' \in [Users -> GharpStates \cup {"none"}]
    BY <1>1 DEF Bind, GharpStates
  <2> QED BY <1>1, <2>1, <2>2
<1>2. CASE UserStatement /\ UNCHANGED assignVars
  BY <1>2 DEF UserStatement, InviteUser, UpsertUserOnLogin, SetUserStatus, AccountStates
<1>3. ASSUME NEW s \in Slots, UpsertSlot(s), UNCHANGED userVars
      PROVE  TablesTypeOK' /\ bound \subseteq bound'
  BY <1>3 DEF UpsertSlot, SlotStates
<1>4. ASSUME NEW u \in Users, NEW x \in GharpStates, SetGharpState(u, x), UNCHANGED userVars
      PROVE  TablesTypeOK' /\ bound \subseteq bound'
  BY <1>4 DEF SetGharpState, GharpStates
<1>5. CASE UNCHANGED tableVars
  BY <1>5
<1> QED BY <1>1, <1>2, <1>3, <1>4, <1>5 DEF TableStatement, AssignStatement, AssignFreeSlot, AssignSlot

LEMMA TablesInitInv == TablesInit => TablesInv
<1> SUFFICES ASSUME TablesInit PROVE TablesInv
  OBVIOUS
<1>1. TablesTypeOK
  BY DEF TablesInit, TablesTypeOK, AccountStates, SlotStates
<1>2. SlotsMatchAssignments
  BY PortalAssumption DEF TablesInit, SlotsMatchAssignments, Held
<1> QED BY <1>1, <1>2 DEF TablesInv

----------------------------------------------------------------------------
(* The statements as moves of the tenancy.                                 *)

Free == {s \in Slots : slotStatus[s] = "free"}

(* doAssign is the whole move: the slot has its new tenant, and the one    *)
(* the tenant had is free again.                                           *)
LEMMA BindMoves ==
  ASSUME TablesInv, NEW u \in Users, NEW s \in Slots, UNCHANGED userVars, account[u] # "none",
         slotStatus[s] # "none", \A v \in Users \ {u} : slotOf[v] # s,
         Bind(u, s, {slotOf[u]})
  PROVE  Promise!Move(u, s)
<1> USE DEF TablesInv, TablesTypeOK
<1>1. /\ \A v \in Users : slotOf'[v] = IF v = u THEN s ELSE slotOf[v]
      /\ \A x \in Slots : slotStatus'[x] = IF x = s THEN "assigned"
                                           ELSE IF x = slotOf[u] THEN "free" ELSE slotStatus[x]
  BY DEF Bind
<1>2. s \in Free \/ Tenants(s) = {u}
  <2>1. CASE slotStatus[s] = "free"
    BY <2>1 DEF Free
  <2>2. CASE slotStatus[s] = "assigned"
    <3>1. PICK v \in Users : slotOf[v] = s
      BY <2>2 DEF SlotsMatchAssignments, Held
    <3> QED BY <3>1 DEF Tenants
  <2> QED BY <2>1, <2>2 DEF SlotStates
<1>3. Free' = (Free \cup {x \in Slots : u \in Tenants(x)}) \ {s}
  BY <1>1 DEF Free, Tenants
<1>4. ASSUME NEW x \in Slots
      PROVE  Tenants(x)' = IF x = s THEN {u} ELSE Tenants(x) \ {u}
  BY <1>1 DEF Tenants
<1> QED BY <1>2, <1>3, <1>4 DEF Promise!Move, Free

(* Every statement is a move of the tenancy, or none at all: gharp_state,  *)
(* a reload that finds the slot and an invitation of a known user are not  *)
(* about it.                                                               *)
LEMMA StatementRefines ==
  ASSUME TablesInv, TableStatement
  PROVE  [Promise!Next]_(Promise!tenancy)
<1> USE DEF TablesInv, TablesTypeOK
<1>1. ASSUME NEW u \in Users, NEW s \in Slots, AssignFreeSlot(u, s), UNCHANGED userVars
      PROVE  Promise!Next
  <2>1. \A v \in Users \ {u} : slotOf[v] # s
    BY <1>1 DEF AssignFreeSlot, SlotsMatchAssignments, Held
  <2>2. Bind(u, s, {slotOf[u]})
    BY <1>1, PortalAssumption DEF AssignFreeSlot, Bind
  <2>3. Promise!Move(u, s)
    BY <1>1, <2>1, <2>2, BindMoves DEF AssignFreeSlot
  <2> QED BY <2>3 DEF Promise!Next
<1>2. ASSUME NEW u \in Users, NEW s \in Slots, AssignSlot(u, s), UNCHANGED userVars
      PROVE  Promise!Next
  <2>1. Promise!Move(u, s)
    BY <1>2, BindMoves DEF AssignSlot
  <2> QED BY <2>1 DEF Promise!Next
<1>3. ASSUME NEW s \in Slots, UpsertSlot(s), UNCHANGED userVars
      PROVE  [Promise!Next]_(Promise!tenancy)
  <2>1. \A x \in Slots : Tenants(x)' = Tenants(x)
    BY <1>3 DEF UpsertSlot, Tenants
  <2>2. CASE slotStatus[s] # "none"
    BY <1>3, <2>1, <2>2 DEF UpsertSlot, Promise!tenancy
  <2>3. CASE slotStatus[s] = "none"
    <3>1. Free' = Free \cup {s} /\ s \notin Free
      BY <1>3, <2>3 DEF UpsertSlot, Free
    <3>2. Tenants(s) = {}
      BY <2>3 DEF SlotsMatchAssignments, Held, Tenants
    <3>3. Promise!Offer(s)
      BY <1>3, <2>1, <3>1, <3>2 DEF Promise!Offer, Free
    <3> QED BY <3>3 DEF Promise!Next
  <2> QED BY <2>2, <2>3
<1>4. ASSUME NEW u \in Users, NEW x \in GharpStates, SetGharpState(u, x), UNCHANGED userVars
      PROVE  UNCHANGED Promise!tenancy
  BY <1>4 DEF SetGharpState, Tenants, Promise!tenancy
<1>5. ASSUME NEW u \in Users, UNCHANGED assignVars,
             \/ InviteUser(u) \/ UpsertUserOnLogin(u)
             \/ SetUserStatus(u, "active") \/ SetUserStatus(u, "disabled")
      PROVE  [Promise!Next]_(Promise!tenancy)
  <2>1. UNCHANGED <<{s \in Slots : slotStatus[s] = "free"}, [s \in Slots |-> Tenants(s)]>>
    BY <1>5 DEF Tenants
  <2>2. CASE UNCHANGED userVars
    BY <2>1, <2>2 DEF Promise!tenancy
  <2>3. CASE InviteUser(u) /\ account[u] = "none"
    <3>1. Promise!Invite(u)
      BY <2>1, <2>3 DEF InviteUser, Promise!Invite
    <3> QED BY <3>1 DEF Promise!Next
  <2>4. CASE UpsertUserOnLogin(u) /\ u \notin bound /\ account[u] = "invited"
    <3>1. Promise!Join(u)
      BY <2>1, <2>4 DEF UpsertUserOnLogin, Promise!Join
    <3> QED BY <3>1 DEF Promise!Next
  <2>5. ASSUME NEW status \in {"active", "disabled"}, SetUserStatus(u, status), account[u] # "none"
        PROVE  Promise!Next
    <3>1. Promise!Judge(u, status)
      BY <2>1, <2>5 DEF SetUserStatus, Promise!Judge
    <3> QED BY <3>1 DEF Promise!Next
  <2> QED BY <1>5, <2>2, <2>3, <2>4, <2>5 DEF InviteUser, UpsertUserOnLogin, SetUserStatus
<1>6. CASE UNCHANGED tableVars
  BY <1>6 DEF Tenants, Promise!tenancy
<1> QED BY <1>1, <1>2, <1>3, <1>4, <1>5, <1>6 DEF TableStatement, AssignStatement, UserStatement

LEMMA InitRefines == TablesInit => Promise!Init
BY PortalAssumption DEF TablesInit, Promise!Init, Tenants
=============================================================================
