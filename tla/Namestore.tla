----------------------------- MODULE Namestore -----------------------------
(***************************************************************************)
(* The namestore read from a document's root map, and the walk along a     *)
(* path. A key is its parts between slashes, so a path is its own key. A   *)
(* value is a bare reference (a scalar string), or something else.         *)
(***************************************************************************)
EXTENDS Names, Substrate

\* Authority, weakest first.
Grades == <<"TrustedSubstrate", "CarriageVerified">>

\* parse_bare_reference.
Bare(value) == IF value.kind = "Reference" THEN {value.target} ELSE {}

\* is_path_key.
IsPathKey(key) == key # <<>> /\ \A n \in DOMAIN key : IsSegment(key[n])

Root(path) == Key(RootObject, path)

\* DocumentNamestore::reference: an exact lookup, of the conflict's winner.
Lookup(doc, path) == IF path = <<>> THEN {} ELSE UNION {Bare(v) : v \in Value(doc, Root(path))}

ReadWith(doc, Pick(_)) ==
    LET keys == {k \in Props(doc, RootObject) : IsPathKey(k)}
        losers(k) == At(doc, Root(k)) \ {Pick(At(doc, Root(k)))}
        edge(k) == Bare(Pick(At(doc, Root(k))).value)
    IN  [edges |-> UNION {{<<k, t>> : t \in edge(k)} : k \in keys},
         conflicts |-> UNION {{<<k, t>> : t \in UNION {Bare(w.value) : w \in losers(k)}}
                                : k \in keys},
         nonReferences |-> {k \in keys : edge(k) = {}},
         malformed |-> Props(doc, RootObject) \ keys]

\* Mutant: of conflicting values, the first is taken for the winner.
ReadFirst(doc) ==
    ReadWith(doc, LAMBDA writes : CHOOSE w \in writes : \A x \in writes : w.stamp <= x.stamp)

\* DocumentNamestore::read: every edge, and what was passed over and why.
Read(doc) ==
    ReadWith(doc, LAMBDA writes : CHOOSE w \in writes : \A x \in writes : x.stamp <= w.stamp)

Targets(edges) == {e[2] : e \in edges}

-----------------------------------------------------------------------------
Weaker(a, b) == IF \E m, n \in DOMAIN Grades : m <= n /\ Grades[m] = a /\ Grades[n] = b
                THEN a ELSE b

\* Mutant: an edge whose target is not held is passed over.
LongestHeld(held, doc, rest) ==
    {n \in 1..Len(rest) :
        /\ Lookup(doc, SubSeq(rest, 1, n)) \cap DOMAIN held # {}
        /\ \A m \in n + 1..Len(rest) : Lookup(doc, SubSeq(rest, 1, m)) \cap DOMAIN held = {}}

\* The longest prefix that is a key. held is every replica at hand.
Longest(held, doc, rest) ==
    {n \in 1..Len(rest) :
        /\ Lookup(doc, SubSeq(rest, 1, n)) # {}
        /\ \A m \in n + 1..Len(rest) : Lookup(doc, SubSeq(rest, 1, m)) = {}}

Resolved(target, grade) == [status |-> "Resolved", target |-> target, grade |-> grade]
Dangling(consumed) == [status |-> "Dangling", consumed |-> consumed]
Unsynced(consumed, target) == [status |-> "Unsynced", consumed |-> consumed, target |-> target]

\* The element of a set of one.
The(S) == CHOOSE x \in S : TRUE

\* Where a walk is: the segments consumed, the document reached, the weakest grade so far.
Cursor(consumed, at, grade) == [consumed |-> consumed, at |-> at, grade |-> grade]
Cursors(held, path) ==
    [consumed : 0..Len(path), at : DOMAIN held, grade : ToSet(Grades)]

\* A hop from where the walk is: it ends there, or goes on as onward says.
Hop(held, path, cursor, onward) ==
    LET doc == held[cursor.at].doc
        rest == SubSeq(path, cursor.consumed + 1, Len(path))
        match == Longest(held, doc, rest)
        key == The(match)
        consumed == cursor.consumed + key
        target == The(Lookup(doc, SubSeq(rest, 1, key)))
    IN  IF rest = <<>> THEN Resolved(cursor.at, cursor.grade)
        ELSE IF match = {} THEN Dangling(cursor.consumed)
        ELSE IF target \notin DOMAIN held THEN Unsynced(consumed, target)
        ELSE onward[Cursor(consumed, target, Weaker(cursor.grade, held[target].grade))]

\* resolve: greedy, a hop for each matched key, never back. held maps the replicas at hand
\* to their document and grade.
Walk(held, root, path) ==
    LET from[c \in Cursors(held, path)] == Hop(held, path, c, from)
    IN  from[Cursor(0, root, held[root].grade)]
=============================================================================
