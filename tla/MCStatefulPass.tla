--------------------------- MODULE MCStatefulPass ---------------------------
(***************************************************************************)
(* Two users' resolves that offer a unit in common run beside a watch,     *)
(* which offers none; or one user's runs over time.                        *)
(***************************************************************************)
EXTENDS StatefulPass

Chain(from, end, doc, serial) ==
    [valid |-> TRUE, from |-> from, end |-> end,
     txt |-> <<[doc |-> doc, gen |-> 1, serial |-> serial]>>]

\* 1 binds a document until 2; 2 says that another one succeeds it; 3
\* refreshes 1.
MCContent ==
    1 :> [kind |-> "Record", host |-> "a", doc |-> 1, chain |-> Chain(0, 2, 1, 1),
          issued |-> 0, authorized |-> TRUE, path |-> {1}, lineage |-> {}, predecessor |-> {}] @@
    2 :> [kind |-> "Successor", host |-> "a", pred |-> 1, succ |-> 2, authorized |-> TRUE,
          path |-> {1}] @@
    3 :> [kind |-> "ChainRefresh", host |-> "a", chain |-> Chain(2, 3, 1, 2)]

CONSTANTS resolve, again, watch

MCOffered == resolve :> {<<2>>} @@ again :> {<<2>>} @@ watch :> {<<>>}

OneOffer == resolve :> {<<>>, <<1>>}
=============================================================================
