---------------------------- MODULE Portal_proofs ----------------------------
(***************************************************************************)
(* Proofs about Portal, for every set of users, slots and requests.        *)
(***************************************************************************)
EXTENDS Portal, PortalStore_proofs

USE DEF portalVars, hostVars

(* Whatever step the portal takes, it issues one statement on the tables,  *)
(* or leaves them alone.                                                   *)
LEMMA PortalStatements ==
  ASSUME PortalTypeOK, [PortalNext]_portalVars
  PROVE  TableStatement
<1> USE DEF tableVars, userVars, assignVars
<1>1. CASE UNCHANGED tableVars
  BY <1>1 DEF TableStatement
<1>2. ASSUME NEW u \in Users,
             \/ Invite(u) \/ Login(u) \/ Enable(u)
             \/ \E q \in Requests : Disable(q, u)
      PROVE  TableStatement
  BY <1>2 DEF Invite, Login, Enable, Disable, TableStatement, UserStatement
<1>3. ASSUME NEW u \in Users, AssignUser(u)  PROVE TableStatement
  BY <1>3 DEF AssignUser, TableStatement, AssignStatement
<1>4. ASSUME NEW s \in Slots, ReloadSlot(s)  PROVE TableStatement
  BY <1>4 DEF ReloadSlot, TableStatement, AssignStatement
<1>5. ASSUME NEW q \in Requests, MarkStarting(q) \/ Finish(q)  PROVE TableStatement
  <2>1. /\ request[q] # Idle /\ request[q].user \in Users
        /\ Finish(q) => FinalState[request[q].at] \in GharpStates
    BY <1>5 DEF PortalTypeOK, MarkStarting, Finish, FinalState, GharpStates
  <2> QED BY <1>5, <2>1 DEF MarkStarting, Finish, TableStatement, AssignStatement, GharpStates
<1>6. ASSUME NEW v \in verdict, WriteVerdict(v)  PROVE TableStatement
  <2>1. v.user \in Users /\ v.to \in GharpStates
    BY DEF PortalTypeOK
  <2> QED BY <1>6, <2>1 DEF WriteVerdict, TableStatement, AssignStatement
<1> QED BY <1>1, <1>2, <1>3, <1>4, <1>5, <1>6
        DEF PortalNext, RequestStep, Begin, StartRequest, StopRequest, Lookup, RunStart, RunStop,
            Poll, ListAssignments, Probe, StoreFails, RestartPortal, Boot, Die

LEMMA TypeStep ==
  ASSUME PortalTypeOK, TablesTypeOK', [PortalNext]_portalVars
  PROVE  PortalTypeOK'
<1> USE DEF PortalTypeOK, TablesTypeOK, FinalState
<1>1. CASE UNCHANGED <<hostVars, request, checks, verdict>>
  BY <1>1
<1>2. ASSUME NEW q \in Requests, NEW u \in Users,
             StartRequest(q, u) \/ StopRequest(q, u) \/ Disable(q, u)
      PROVE  PortalTypeOK'
  BY <1>2 DEF StartRequest, StopRequest, Disable, Begin
<1>3. ASSUME NEW q \in Requests, RequestStep(q)  PROVE PortalTypeOK'
  <2>1. request[q] \in [op : {"start", "stop"}, user : Users, slot : Slots \cup {NoSlot},
                        at : {"lookup", "mark", "command", "poll"} \cup DOMAIN FinalState]
    BY <1>3 DEF RequestStep, Lookup, MarkStarting, RunStart, RunStop, Poll, Finish
  <2>2. CASE Lookup(q) \/ MarkStarting(q) \/ Poll(q) \/ Finish(q)
    BY <2>1, <2>2 DEF Lookup, MarkStarting, Poll, Finish, Proceed, Done
  <2>3. CASE RunStart(q)
    BY <2>1, <2>3 DEF RunStart, Proceed
  <2>4. CASE RunStop(q)
    BY <2>1, <2>4 DEF RunStop, Proceed
  <2> QED BY <1>3, <2>2, <2>3, <2>4 DEF RequestStep
<1>4. CASE ListAssignments
  BY <1>4 DEF ListAssignments, Probed, GharpStates
<1>5. ASSUME NEW c \in checks, Probe(c)  PROVE PortalTypeOK'
  BY <1>5 DEF Probe, Verdict, GharpStates
<1>6. CASE StoreFails \/ RestartPortal
  BY <1>6 DEF StoreFails, RestartPortal, Done
<1>7. ASSUME NEW s \in Slots, Boot(s) \/ Die(s)  PROVE PortalTypeOK'
  BY <1>7 DEF Boot, Die
<1>8. ASSUME NEW v \in verdict, WriteVerdict(v)  PROVE PortalTypeOK'
  BY <1>8 DEF WriteVerdict
<1> QED BY <1>1, <1>2, <1>3, <1>4, <1>5, <1>6, <1>7, <1>8
        DEF PortalNext, TablesOnly, Invite, Login, Enable, AssignUser, ReloadSlot

LEMMA PortalInvariant == PortalSpec => [](PortalTypeOK /\ TablesInv)
<1>1. PortalInit => PortalTypeOK /\ TablesInv
  <2> SUFFICES ASSUME PortalInit PROVE PortalTypeOK /\ TablesInv
    OBVIOUS
  <2>1. TablesInv
    BY TablesInitInv DEF PortalInit
  <2> QED BY <2>1 DEF PortalInit, PortalTypeOK, TablesInv
<1>2. PortalTypeOK /\ TablesInv /\ [PortalNext]_portalVars => (PortalTypeOK /\ TablesInv)'
  BY PortalStatements, TableStatementKeepsInv, TypeStep DEF TablesInv
<1> QED BY <1>1, <1>2, PTL DEF PortalSpec

(* Whatever admins, users, sweeps and restarts do, the status of a slot    *)
(* and the assignments agree and no slot is held twice: the statements     *)
(* keep that of the tables, and the portal writes them in no other way.    *)
THEOREM SlotsAgree == PortalSpec => []SlotsMatchAssignments
<1>1. TablesInv => SlotsMatchAssignments
  BY DEF TablesInv
<1> QED BY PortalInvariant, <1>1, PTL

(* The portal implements the tenancy: through any interleaving of admin    *)
(* endpoints, lifecycle requests, sweeps and restarts, each step is one    *)
(* move of it or none.  The mapping needs the agreement of the two tables: *)
(* without it a reassignment may take the slot of somebody else.           *)
THEOREM ImplementsTenancy == PortalSpec => TenancySpec
<1>1. PortalInit => Promise!Init
  BY InitRefines DEF PortalInit
<1>2. PortalTypeOK /\ TablesInv /\ [PortalNext]_portalVars => [Promise!Next]_(Promise!tenancy)
  BY PortalStatements, StatementRefines
<1> QED BY PortalInvariant, <1>1, <1>2, PTL DEF PortalSpec, TenancySpec, Promise!Spec
=============================================================================
