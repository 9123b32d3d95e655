------------------------------ MODULE Tenancy ------------------------------
(***************************************************************************)
(* What the portal's tables promise to its tenants and its admins: nobody  *)
(* gets in without an invitation, which is good for one GitHub account; a  *)
(* slot of slots.yaml is free or has one tenant; whoever is given a slot   *)
(* gives back the one they had in the same moment                          *)
(* (gharp-portal/README.md; the constraints of schema.sql).                *)
(***************************************************************************)
CONSTANTS Users, Slots

VARIABLES
  account, \* the status of an account
  bound,   \* accounts that have logged in at GitHub
  free,    \* slots that may be given away
  tenants  \* the tenants of a slot

tenancy == <<account, bound, free, tenants>>

Init ==
  /\ account = [u \in Users |-> "none"] /\ bound = {}
  /\ free = {} /\ tenants = [s \in Slots |-> {}]

Invite(u) ==
  /\ account[u] = "none"
  /\ account' = [account EXCEPT ![u] = "invited"]
  /\ UNCHANGED <<bound, free, tenants>>

Join(u) ==
  /\ account[u] = "invited" /\ u \notin bound
  /\ account' = [account EXCEPT ![u] = "active"]
  /\ bound' = bound \cup {u}
  /\ UNCHANGED <<free, tenants>>

Judge(u, status) ==
  /\ account[u] # "none"
  /\ account' = [account EXCEPT ![u] = status]
  /\ UNCHANGED <<bound, free, tenants>>

Offer(s) ==
  /\ s \notin free /\ tenants[s] = {}
  /\ free' = free \cup {s}
  /\ UNCHANGED <<account, bound, tenants>>

Move(u, s) ==
  /\ account[u] # "none"
  /\ s \in free \/ tenants[s] = {u}
  /\ free' = (free \cup {x \in Slots : u \in tenants[x]}) \ {s}
  /\ tenants' = [x \in Slots |-> IF x = s THEN {u} ELSE tenants[x] \ {u}]
  /\ UNCHANGED <<account, bound>>

Next ==
  \/ \E u \in Users : \/ Invite(u) \/ Join(u) \/ Judge(u, "active") \/ Judge(u, "disabled")
                      \/ \E s \in Slots : Move(u, s)
  \/ \E s \in Slots : Offer(s)

Spec == Init /\ [][Next]_tenancy
=============================================================================
