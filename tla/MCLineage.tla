----------------------------- MODULE MCLineage ------------------------------
(***************************************************************************)
(* One document whose generation rotates, forks, merges, rewinds and       *)
(* cycles, bound at one hostname and reset from another.                   *)
(***************************************************************************)
EXTENDS VerifierSafety

Txt(gen, serial) == [doc |-> 1, gen |-> gen, serial |-> serial]

Chain(from, end, txt) ==
    [valid |-> TRUE, from |-> from, end |-> end, txt |-> txt]

Cert(chain, issued, path, lineage) ==
    [kind |-> "Record", host |-> "a", doc |-> 1, chain |-> chain,
     issued |-> issued, authorized |-> TRUE, path |-> path,
     lineage |-> lineage, predecessor |-> {}]

Refresh(chain) == [kind |-> "ChainRefresh", host |-> "a", chain |-> chain]

Rotates(replaced, successor) ==
    [kind |-> "Rotation", doc |-> 1, replaced |-> replaced,
     successor |-> successor, authorized |-> TRUE]

\* 1 attests generation 1; 2 attests its successor and carries the rotation
\* 6; 3 rewinds to 1, afresh; 4 refreshes to generation 2 and 5 to 3, the
\* other branch of the fork 7 opens; 8 merges the branches into 2; 9 retires
\* 2 in favour of 1 again, a cycle.
MCContent ==
    1 :> Cert(Chain(0, 2, <<Txt(1, 1)>>), 0, {1}, {}) @@
    2 :> Cert(Chain(1, 2, <<Txt(2, 2)>>), 1, {2, 3}, {6}) @@
    3 :> Cert(Chain(2, 4, <<Txt(1, 3)>>), 2, {1, 2}, {}) @@
    4 :> Refresh(Chain(1, 4, <<Txt(2, 2)>>)) @@
    5 :> Refresh(Chain(2, 3, <<Txt(3, 4)>>)) @@
    6 :> Rotates(1, 2) @@
    7 :> Rotates(1, 3) @@
    8 :> Rotates(3, 2) @@
    9 :> Rotates(2, 1)

MCResettable == {{}, {2}, {6, 7}}
=============================================================================
