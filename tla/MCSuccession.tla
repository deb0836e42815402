---------------------------- MODULE MCSuccession ----------------------------
(***************************************************************************)
(* Documents that succeed, fork and contest one another under one          *)
(* hostname, with a second hostname as a bystander. Every document has one *)
(* generation, numbered as the document.                                   *)
(***************************************************************************)
EXTENDS VerifierSafety

Txt(doc, serial) == [doc |-> doc, gen |-> doc, serial |-> serial]

Chain(from, end, txt) ==
    [valid |-> TRUE, from |-> from, end |-> end, txt |-> txt]

Cert(host, doc, chain, issued, predecessor) ==
    [kind |-> "Record", host |-> host, doc |-> doc, chain |-> chain,
     issued |-> issued, authorized |-> TRUE, path |-> {doc},
     lineage |-> {}, predecessor |-> predecessor]

Succeeds(host, pred, succ, path) ==
    [kind |-> "Successor", host |-> host, pred |-> pred, succ |-> succ,
     authorized |-> TRUE, path |-> path]

Refresh(host, chain) ==
    [kind |-> "ChainRefresh", host |-> host, chain |-> chain]

\* 1 is the first binding; 2 its successor, whose certificate carries the
\* proof 5; 3 ties with 1 but for the signer's issued; 4 refreshes 1, past
\* 2's window; 6 forks 5; 7 binds the other hostname; 8 serves 1's chain
\* again, bare.
MCContent ==
    1 :> Cert("a", 1, Chain(0, 2, <<Txt(1, 1)>>), 0, {}) @@
    2 :> Cert("a", 2, Chain(1, 3, <<Txt(1, 1), Txt(2, 2)>>), 1, {5}) @@
    3 :> Cert("a", 3, Chain(0, 2, <<Txt(3, 1)>>), 1, {}) @@
    4 :> Refresh("a", Chain(2, 4, <<Txt(1, 4), Txt(1, 1)>>)) @@
    5 :> Succeeds("a", 1, 2, {1}) @@
    6 :> Succeeds("a", 1, 3, {}) @@
    7 :> Cert("b", 1, Chain(0, 3, <<Txt(1, 2)>>), 0, {}) @@
    8 :> Refresh("a", Chain(0, 2, <<Txt(1, 1)>>))

\* All stale: 1 is accepted and succeeded by 2, whose key lies below 3's,
\* which lies below 1's.
CircleContent ==
    1 :> Cert("a", 1, Chain(0, 1, <<Txt(1, 3)>>), 0, {}) @@
    2 :> Cert("a", 2, Chain(0, 1, <<Txt(2, 1)>>), 0, {}) @@
    3 :> Cert("a", 3, Chain(0, 1, <<Txt(3, 2)>>), 0, {}) @@
    5 :> Succeeds("a", 1, 2, {1})

MCAcceptance == {[doc |-> 1, cited |-> {1}], [doc |-> 3, cited |-> {3}]}
MCResettable == {{}, {2}}
=============================================================================
