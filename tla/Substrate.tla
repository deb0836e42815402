----------------------------- MODULE Substrate -----------------------------
(***************************************************************************)
(* External: what the code uses of Automerge. A document is the writes     *)
(* that are still in force and the stamps of all the writes it has seen. A *)
(* write replaces what its writer saw at a key, so concurrent writes stay  *)
(* side by side and the one with the greatest stamp wins. Stamps rise from *)
(* write to write: any order that Lamport clocks can give to concurrent    *)
(* writes is the order of some interleaving.                               *)
(*                                                                         *)
(* An object (a map or a list) is named by the stamp of the write that     *)
(* made it, an element of a list by the stamp that inserted it.            *)
(***************************************************************************)
EXTENDS Naturals, FiniteSetsExt, SequencesExt

RootObject == 0

Key(map, prop) == [object |-> map, prop |-> prop, element |-> 0]
Element(list, id) == [object |-> list, prop |-> <<>>, element |-> id]

Blank == [live |-> {}, seen |-> {}]

\* What every document is: each write in force is at a key of a map or at an element of a
\* list, and has been seen.
IsDocument(doc) ==
    /\ doc = [live |-> doc.live, seen |-> doc.seen]
    /\ \A w \in doc.live :
          /\ w = [key |-> w.key, value |-> w.value, stamp |-> w.stamp]
          /\ w.key = [object |-> w.key.object, prop |-> w.key.prop, element |-> w.key.element]
          /\ w.key.element = 0 \/ w.key.prop = <<>>
          /\ w.stamp \in doc.seen

At(doc, key) == {w \in doc.live : w.key = key}

Keys(doc) == {w.key : w \in doc.live}

Winner(doc, key) == CHOOSE w \in At(doc, key) : \A x \in At(doc, key) : x.stamp <= w.stamp

\* The winning value at a key, if there is any.
Value(doc, key) == IF At(doc, key) = {} THEN {} ELSE {Winner(doc, key).value}

\* The keys of a map, and the elements of a list in order.
Props(doc, map) == {k.prop : k \in {x \in Keys(doc) : x.object = map /\ x.element = 0}}
ElementsOf(doc, list) ==
    {k.element : k \in {x \in Keys(doc) : x.object = list /\ x.element # 0}}
InOrder(ids) ==
    [n \in 1..Cardinality(ids) |->
        CHOOSE id \in ids : Cardinality({x \in ids : x < id}) = n - 1]
Items(doc, list) == InOrder(ElementsOf(doc, list))

Put(doc, key, value, stamp) ==
    [live |-> (doc.live \ At(doc, key)) \cup {[key |-> key, value |-> value, stamp |-> stamp]},
     seen |-> doc.seen \cup {stamp}]

Delete(doc, key) == [doc EXCEPT !.live = @ \ At(doc, key)]

Push(doc, list, value, stamp) == Put(doc, Element(list, stamp), value, stamp)

\* A write that one side has seen and no longer has in force was replaced.
MergeDocs(a, b) ==
    [live |-> {w \in a.live \cup b.live : /\ w \in a.live \/ w.stamp \notin a.seen
                                          /\ w \in b.live \/ w.stamp \notin b.seen},
     seen |-> a.seen \cup b.seen]

\* Values: a bare reference (a scalar string), bytes, a number, an object, anything else.
Reference(target) == [kind |-> "Reference", target |-> target]
Bytes(unit) == [kind |-> "Bytes", unit |-> unit]
Number(n) == [kind |-> "Number", number |-> n]
Map == [kind |-> "Map"]
List == [kind |-> "List"]
Other == [kind |-> "Other"]

\* The object of a kind that a key holds.
ObjectAt(doc, key, kind) ==
    {w.stamp : w \in {x \in At(doc, key) : x = Winner(doc, key) /\ x.value.kind = kind}}
=============================================================================
