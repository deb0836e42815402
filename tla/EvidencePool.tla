---------------------------- MODULE EvidencePool ----------------------------
(***************************************************************************)
(* What the verifier promises of its stores: sets of items that anyone may *)
(* add to, that merge by union, and that lose nothing but the bare         *)
(* refreshes, which have no unit encoding and end with the process.        *)
(***************************************************************************)
EXTENDS Integers

CONSTANTS
    Replica,
    Item,
    Ephemeral   \* the items a restart may lose

VARIABLE pool   \* [replica -> held items]

Init == pool = [r \in Replica |-> {}]

Learn(r) ==
    /\ pool' \in [Replica -> SUBSET Item]
    /\ pool[r] \subseteq pool'[r]
    /\ \A q \in Replica \ {r} : pool'[q] = pool[q]

Lose(r) == pool' = [pool EXCEPT ![r] = @ \ Ephemeral]

Next == \E r \in Replica : Learn(r) \/ Lose(r)

Spec == Init /\ [][Next]_pool
=============================================================================
