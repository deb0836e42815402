----------------------------- MODULE MCPruning ------------------------------
(***************************************************************************)
(* Two documents of one hostname whose records dominate, tie with, and     *)
(* outlast each other, across a rewound lineage, two acceptances and a     *)
(* reset.                                                                  *)
(***************************************************************************)
EXTENDS Pruning

Txt(doc, gen, serial) == <<[doc |-> doc, gen |-> gen, serial |-> serial]>>

Chain(from, end, txt) ==
    [valid |-> TRUE, from |-> from, end |-> end, txt |-> txt]

Cert(doc, chain, issued, lineage) ==
    [kind |-> "Record", host |-> "a", doc |-> doc, chain |-> chain,
     issued |-> issued, authorized |-> TRUE, path |-> {1, 2},
     lineage |-> lineage, predecessor |-> {}]

\* 2 dominates 1; 3 is a refresh that beats 1 in every component; 4 is of a
\* generation that 5 retired and beats 1 and 2; 6 binds another document
\* before them; 7 beats 1 and 6 equals it but for the hash.
MCContent ==
    1 :> Cert(1, Chain(1, 3, Txt(1, 1, 1)), 0, {}) @@
    2 :> Cert(1, Chain(1, 4, Txt(1, 1, 2)), 1, {}) @@
    3 :> [kind |-> "ChainRefresh", host |-> "a", chain |-> Chain(1, 4, Txt(1, 1, 2))] @@
    4 :> Cert(1, Chain(0, 3, Txt(1, 2, 3)), 2, {}) @@
    5 :> [kind |-> "Rotation", doc |-> 1, replaced |-> 2, successor |-> 1,
          authorized |-> TRUE] @@
    6 :> Cert(2, Chain(0, 2, Txt(2, 1, 1)), 0, {}) @@
    7 :> Cert(2, Chain(0, 2, Txt(2, 1, 1)), 0, {})

\* A record whose serial ripens at 3 and dominates 1, and one that is more
\* than the horizon away and dominates 2.
RipeningContent ==
    MCContent @@
    8 :> Cert(1, Chain(0, 4, Txt(1, 1, 4)), 1, {}) @@
    9 :> Cert(1, Chain(0, 4, Txt(1, 1, 9)), 2, {})

MCAcceptance == {[doc |-> 1, cited |-> {1}], [doc |-> 2, cited |-> {6}]}
MCResettable == {{}, {2}}
=============================================================================
