------------------------------ MODULE LegSlots ------------------------------
(***************************************************************************)
(* What the dispatcher promises its callers, with no tick, no labels and   *)
(* no run listing: a slot is one run, work is identified by a concurrency  *)
(* key, no key ever fills two slots, and at most Cap slots are filled.     *)
(***************************************************************************)
EXTENDS Naturals, FiniteSets

CONSTANTS Slots, Keys, Cap, NoKey

VARIABLE leg     \* the key each slot runs, NoKey when it is empty

Filled == {s \in Slots : leg[s] # NoKey}

Init == leg = [s \in Slots |-> NoKey]

Dispatch(s, k) ==
    /\ leg[s] = NoKey
    /\ \A other \in Slots : leg[other] # k
    /\ Cardinality(Filled) < Cap
    /\ leg' = [leg EXCEPT ![s] = k]

\* The run ends, or has sat queued so long that it no longer counts.
Finish(s) == leg[s] # NoKey /\ leg' = [leg EXCEPT ![s] = NoKey]

Next == \E s \in Slots : Finish(s) \/ \E k \in Keys : Dispatch(s, k)

Spec == Init /\ [][Next]_leg
=============================================================================
