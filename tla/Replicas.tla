------------------------------ MODULE Replicas ------------------------------
(***************************************************************************)
(* The stores of several devices: each a list of items, in arrival order,  *)
(* with the set of content hashes it has seen. Items reach a store one by  *)
(* one, by the union of a whole peer store, or by loading the unit files   *)
(* of a directory, which lists them in no particular order.                *)
(*                                                                         *)
(* And stage 1 of derive as the code runs it: one pass over a store's      *)
(* items in the order the store happens to hold them, then a second pass   *)
(* over the refreshes the first one set aside.  Evidence.tla states the    *)
(* result over the SET of items; the two must agree for every order.       *)
(***************************************************************************)
EXTENDS Evidence, Sequences, SequencesExt

CONSTANTS
    Replica,
    Item      \* the items in circulation

ASSUME ReplicaAssumption == Item \subseteq Hash

-----------------------------------------------------------------------------
\* What the loop accumulates: binding rows, the carriages of validated
\* certificates as [host, doc, path], per statement where it was found, and
\* the refreshes deferred to the second pass.
NoEvidence ==
    [held |-> {}, rows |-> {}, carriages |-> {}, found |-> <<>>, refreshes |-> <<>>]

\* extract_rotation and extract_successor: an unauthorized statement is
\* dropped, a known one only gains provenance. carrier is the certificate it
\* came in, if any.
Note(found, s, carrier) ==
    LET known == IF s \in DOMAIN found THEN found[s]
                 ELSE [standalone |-> FALSE, carriers |-> {}]
    IN  IF ~Content[s].authorized THEN found
        ELSE [t \in DOMAIN found \cup {s} |->
                IF t = s THEN [standalone |-> known.standalone \/ carrier = {},
                               carriers   |-> known.carriers \cup carrier]
                ELSE found[t]]

NoteCarried(found, c) ==
    FoldLeft(LAMBDA f, s : Note(f, s, {c}), found,
             SetToSeq(Content[c].lineage \cup Content[c].predecessor))

\* A certificate: its statements first, whatever becomes of its own chain.
TakeRecord(ev, c) ==
    [ev EXCEPT
        !.found     = NoteCarried(ev.found, c),
        !.rows      = @ \cup CertificateRows({c}),
        !.carriages = @ \cup {[host |-> Content[c].host, doc |-> Content[c].doc,
                               path |-> Content[c].path] : x \in ValidRecords({c})}]

JudgeRefresh(ev, f) ==
    LET chain  == Content[f].chain
        named  == {chain.txt[n].doc : n \in DOMAIN chain.txt}
        onPath(word) == \E p \in ev.carriages :
                           /\ p.host = Content[f].host /\ p.doc = word.doc
                           /\ word.gen \in p.path
    IN  IF ~chain.valid THEN ev
        ELSE [ev EXCEPT !.rows = @ \cup
                {Row("ChainOnly", f, Content[f].host, chain, word, 0, onPath(word)) :
                    word \in UNION {Word(chain.txt, doc) : doc \in named}}]

\* Mutant: a refresh is judged as it comes, against the certificates so far.
TakeRefreshAtOnce(ev, f) == JudgeRefresh(ev, f)

TakeRefresh(ev, f) == [ev EXCEPT !.refreshes = Append(@, f)]

TakeStatement(ev, s) == [ev EXCEPT !.found = Note(@, s, {})]

TakeItem(ev, i) ==
    LET seen == [ev EXCEPT !.held = @ \cup {i}]
    IN  CASE Content[i].kind = "Record"      -> TakeRecord(seen, i)
          [] Content[i].kind = "ChainRefresh" -> TakeRefresh(seen, i)
          [] Content[i].kind \in {"Rotation", "Successor"} -> TakeStatement(seen, i)

FirstPass(items) == FoldLeft(TakeItem, NoEvidence, items)

\* validate_and_extract.
ValidateAndExtract(items) ==
    LET first == FirstPass(items)
    IN  FoldLeft(JudgeRefresh, first, first.refreshes)

-----------------------------------------------------------------------------
\* Provenance::excluded, on what the loop found.
FoundExcluded(found, s, X) ==
    \/ s \in X
    \/ /\ ~found[s].standalone
       /\ found[s].carriers # {} /\ found[s].carriers \subseteq X

\* The loop's evidence, and what stages 2 to 8 ask of it.
Agrees(items) ==
    LET ev == ValidateAndExtract(items)
        H  == ToSet(items)
    IN  /\ ev.held = H
        /\ ev.rows = Rows(H)
        /\ DOMAIN ev.found = Statements(H, "Rotation") \cup Statements(H, "Successor")
        /\ \A s \in DOMAIN ev.found, X \in SUBSET H :
              FoundExcluded(ev.found, s, X) <=> Excluded(H, s, X)

-----------------------------------------------------------------------------
VARIABLE store   \* [replica -> [items, seen]]

EmptyStore == [items |-> <<>>, seen |-> {}]

\* Mutant: pushing an item forgets to mark it seen.
InsertUnmarked(s, i) ==
    IF i \in s.seen THEN s ELSE [s EXCEPT !.items = Append(@, i)]

\* Store::insert: a held item is a no-op, nothing is ever refused.
Insert(s, i) ==
    IF i \in s.seen THEN s
    ELSE [items |-> Append(s.items, i), seen |-> s.seen \cup {i}]

\* Mutant: the peer's store is taken over instead of merged.
UnionTakeover(s, t) == t

\* Store::union.
Union(s, t) == FoldLeft(Insert, s, t.items)

\* FromIterator.
FromItems(items) == FoldLeft(Insert, EmptyStore, items)

Ephemeral == {i \in Item : Content[i].kind = "ChainRefresh"}

StoresInit == store = [r \in Replica |-> EmptyStore]

Receive(r, i) == store' = [store EXCEPT ![r] = Insert(@, i)]

Merge(r, q) == store' = [store EXCEPT ![r] = Union(@, store[q])]

\* The process restarts on its directory.
Reload(r) ==
    \E listing \in SetToSeqs(store[r].seen \ Ephemeral) :
        store' = [store EXCEPT ![r] = FromItems(listing)]

StoresNext ==
    \E r \in Replica :
        \/ \E i \in Item : Receive(r, i)
        \/ \E q \in Replica : Merge(r, q)
        \/ Reload(r)

StoresSpec == StoresInit /\ [][StoresNext]_store

-----------------------------------------------------------------------------
\* Every store holds each item once and has seen exactly what it holds: a
\* hash seen but not held would suppress its item for ever (store.rs).
StoreOK ==
    /\ store \in [Replica -> [items : Seq(Item), seen : SUBSET Item]]
    /\ \A r \in Replica :
          /\ store[r].seen = ToSet(store[r].items)
          /\ \A m, n \in DOMAIN store[r].items :
                store[r].items[m] = store[r].items[n] => m = n

\* Insertion order is unobservable: what stage 1 extracts from a store is
\* what its SET of items amounts to, so devices that hold the same items
\* derive the same bindings (state.rs compute: "including under any
\* permutation of the store").
OrderUnobservable ==
    \A r \in {q \in Replica : store[q].items # <<>>} : Agrees(store[r].items)

\* The stores implement grow-only sets that lose only refreshes on restart.
Pool == INSTANCE EvidencePool WITH
            pool <- [r \in Replica |-> ToSet(store[r].items)]

PoolSpec == Pool!Spec
=============================================================================
