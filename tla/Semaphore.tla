----------------------------- MODULE Semaphore -----------------------------
(***************************************************************************)
(* What MAX_CONCURRENT_RUNNERS promises (docs/configuration.md): a runner  *)
(* takes one of Limit places before it starts and gives it back later.     *)
(***************************************************************************)
EXTENDS Naturals, FiniteSets

CONSTANTS Holders, Limit

VARIABLE held

Init == held = {}

Acquire(h) == /\ h \notin held /\ Cardinality(held) < Limit
              /\ held' = held \cup {h}

Release(h) == h \in held /\ held' = held \ {h}

Next == \E h \in Holders : Acquire(h) \/ Release(h)

Spec == Init /\ [][Next]_held
============================================================================
