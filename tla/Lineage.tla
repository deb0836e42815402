------------------------------ MODULE Lineage -------------------------------
(***************************************************************************)
(* Stage 3 of derive, for one document: what the replaced -> successor     *)
(* edges of its rotation statements say about its generations.             *)
(*                                                                         *)
(* E is a finite set of pairs <<replaced, successor>>; generations are     *)
(* naturals, in the byte order the code sorts keys by.                     *)
(***************************************************************************)
EXTENDS Integers, FiniteSets

Replaced(E)   == {e[1] : e \in E}
Successors(E) == {e[2] : e \in E}
After(E, K)   == {e[2] : e \in {x \in E : x[1] \in K}}

Keys(E)       == Replaced(E) \cup Successors(E)

\* LineageView::descends, forward_closure: the generations reachable from K,
\* K included: the least set that holds K and is closed under the edges.
Reach(E, K) ==
    {x \in K \cup Keys(E) :
        \A S \in SUBSET (K \cup Keys(E)) :
            K \subseteq S /\ After(E, S) \subseteq S => x \in S}

\* Signed descent: at least one edge leads from ancestor to descendant.
Descends(E, ancestor, descendant) ==
    descendant \in Reach(E, After(E, {ancestor}))

\* Successor keys that no statement replaces.
Heads(E) == Successors(E) \ Replaced(E)

-----------------------------------------------------------------------------
\* find_cycle. From each statement, in sorted order, the walk follows the
\* FIRST statement that replaces the current key (the one with the smallest
\* successor) for at most |E| steps, and stops early where none does. The
\* walk is greedy: it never tries a second branch.
NoKey == -1

FirstHop(E, key) ==
    IF key \in Replaced(E)
    THEN CHOOSE s \in After(E, {key}) : \A t \in After(E, {key}) : s <= t
    ELSE NoKey

ReturnsTo(E, start) ==
    LET walk[n \in 0..Cardinality(E)] ==
            IF n = 0 THEN start[2] ELSE FirstHop(E, walk[n - 1])
    IN  \E n \in 1..Cardinality(E) : walk[n] = start[1]

\* The keys find_cycle may answer with; it answers the smallest (the first
\* statement in (replaced, successor) order whose walk returns).
CycleKeys(E) == {e[1] : e \in {x \in E : ReturnsTo(E, x)}}

FindCycle(E) ==
    LET found == CycleKeys(E) IN {k \in found : \A l \in found : k <= l}

-----------------------------------------------------------------------------
\* A key replaced twice, and the key a cycle was found at.
DoublyReplaced(E) == {k \in Replaced(E) : Cardinality(After(E, {k})) > 1}

ForkPoints(E) == DoublyReplaced(E) \cup FindCycle(E)

\* Mutant: merging the branches does not settle a fork.
SettledUnforked(E) == ForkPoints(E) = {}

\* A single head settles the lineage, unless a cycle was found.
Settled(E) ==
    \/ Cardinality(Heads(E)) <= 1 /\ FindCycle(E) = {}
    \/ ForkPoints(E) = {}

\* Fork territory, where the rewind rule is suspended, and the prefix where
\* it stays armed.
Implicated(E) == IF Settled(E) THEN {} ELSE Reach(E, ForkPoints(E))

Protected(E) == Replaced(E) \ Implicated(E)

\* Everything a stage reads of one document's lineage; the pairs are those
\* where the second generation signedly descends from the first.
LineageView(E) ==
    [descents   |-> UNION {{k} \X Reach(E, After(E, {k})) : k \in Replaced(E)},
     forks      |-> ForkPoints(E),
     implicated |-> Implicated(E),
     protected  |-> Protected(E)]

-----------------------------------------------------------------------------
\* Reference definition: a generation on some cycle of the graph.
OnCycle(E, key) == Descends(E, key, key)
=============================================================================
