-------------------------- MODULE DocumentsProofs --------------------------
(***************************************************************************)
(* Proofs about the documents that devices hold: what is read from them,   *)
(* the decisions in them, petnames, and the walk across them.              *)
(***************************************************************************)
EXTENDS Documents, FiniteSetTheorems, WellFoundedInduction, TLAPS

-----------------------------------------------------------------------------
(* The substrate. *)

\* A key is what Key and Element make.
KeyShaped(k) ==
    /\ k = [object |-> k.object, prop |-> k.prop, element |-> k.element]
    /\ k.element = 0 \/ k.prop = <<>>

New(key, value, stamp) == [key |-> key, value |-> value, stamp |-> stamp]

\* What a write leaves at each key.
LEMMA PutFacts ==
    ASSUME NEW doc, NEW key, NEW value, NEW stamp
    PROVE  /\ Put(doc, key, value, stamp).live =
                 {w \in doc.live : w.key # key} \cup {New(key, value, stamp)}
           /\ Put(doc, key, value, stamp).seen = doc.seen \cup {stamp}
           /\ At(Put(doc, key, value, stamp), key) = {New(key, value, stamp)}
           /\ \A k : k # key => At(Put(doc, key, value, stamp), k) = At(doc, k)
BY DEF Put, At, New

LEMMA DeleteFacts ==
    ASSUME NEW doc, NEW key, doc = [live |-> doc.live, seen |-> doc.seen]
    PROVE  /\ Delete(doc, key) = [live |-> {w \in doc.live : w.key # key}, seen |-> doc.seen]
           /\ At(Delete(doc, key), key) = {}
           /\ \A k : k # key => At(Delete(doc, key), k) = At(doc, k)
<1>1. Delete(doc, key) = [live |-> doc.live \ At(doc, key), seen |-> doc.seen]
  BY DEF Delete
<1> QED  BY <1>1 DEF At

\* What a key with one write reads as.
LEMMA OneWrite ==
    ASSUME NEW doc, NEW key, NEW w, At(doc, key) = {w}, w.stamp \in Nat
    PROVE  Winner(doc, key) = w /\ Value(doc, key) = {w.value}
<1>1. \A x \in {w} : x.stamp <= w.stamp
  OBVIOUS
<1>2. Winner(doc, key) = w
  BY <1>1 DEF Winner
<1> QED  BY <1>2 DEF Value

LEMMA KeysAreShaped ==
    /\ \A map, prop : KeyShaped(Key(map, prop))
    /\ \A list, id : KeyShaped(Element(list, id))
    /\ \A path : KeyShaped(Root(path)) /\ Root(path).object = RootObject
                  /\ Root(path).prop = path /\ Root(path).element = 0
BY DEF KeyShaped, Key, Element, Root

\* Every operation of the substrate makes a document of documents.
LEMMA PutIsDocument ==
    ASSUME NEW doc, IsDocument(doc), NEW key, KeyShaped(key), NEW value, NEW stamp
    PROVE  IsDocument(Put(doc, key, value, stamp))
<1> DEFINE new == Put(doc, key, value, stamp)
<1>1. new = [live |-> new.live, seen |-> new.seen]
  BY DEF Put
<1>2. ASSUME NEW w \in new.live
      PROVE  /\ w = [key |-> w.key, value |-> w.value, stamp |-> w.stamp]
             /\ KeyShaped(w.key) /\ w.stamp \in new.seen
  <2>1. w \in doc.live \/ w = New(key, value, stamp)
    BY <1>2, PutFacts
  <2>2. CASE w \in doc.live
    BY <2>2, PutFacts DEF IsDocument, KeyShaped
  <2>3. CASE w = New(key, value, stamp)
    BY <2>3, PutFacts DEF New
  <2> QED  BY <2>1, <2>2, <2>3
<1> HIDE DEF new
<1>3. IsDocument(new)
  BY <1>1, <1>2 DEF IsDocument, KeyShaped
<1> QED  BY <1>3 DEF new

LEMMA DeleteIsDocument ==
    ASSUME NEW doc, IsDocument(doc), NEW key
    PROVE  IsDocument(Delete(doc, key))
<1>1. doc = [live |-> doc.live, seen |-> doc.seen]
  BY DEF IsDocument
<1>2. Delete(doc, key) = [live |-> {w \in doc.live : w.key # key}, seen |-> doc.seen]
  BY <1>1, DeleteFacts
<1> QED  BY <1>2 DEF IsDocument

LEMMA MergeIsDocument ==
    ASSUME NEW a, NEW b, IsDocument(a), IsDocument(b)
    PROVE  IsDocument(MergeDocs(a, b))
<1>1. /\ MergeDocs(a, b).seen = a.seen \cup b.seen
      /\ MergeDocs(a, b).live \subseteq a.live \cup b.live
      /\ MergeDocs(a, b) = [live |-> MergeDocs(a, b).live, seen |-> MergeDocs(a, b).seen]
  BY DEF MergeDocs
<1> QED  BY <1>1 DEF IsDocument

LEMMA BlankIsDocument == IsDocument(Blank)
BY DEF IsDocument, Blank

LEMMA LeastNat ==
    ASSUME NEW T \in SUBSET Nat, T # {}
    PROVE  \E m \in T : \A k \in T : ~(k < m)
<1>1. PICK m \in T : \A k \in T : ~(<<k, m>> \in OpToRel(<, Nat))
  BY NatLessThanWellFounded, WFMin
<1> QED  BY <1>1 DEF OpToRel

\* A list's elements in order are all of them.
LEMMA InOrderIs ==
    ASSUME NEW ids \in SUBSET Nat, IsFiniteSet(ids)
    PROVE  /\ Cardinality(ids) \in Nat /\ DOMAIN InOrder(ids) = 1..Cardinality(ids)
           /\ \A n \in 1..Cardinality(ids) : InOrder(ids)[n] \in ids
           /\ \A id \in ids : \E n \in 1..Cardinality(ids) : InOrder(ids)[n] = id
<1> DEFINE c == Cardinality(ids)
           below(id) == {x \in ids : x < id}
           rank == [id \in ids |-> Cardinality(below(id)) + 1]
<1>1. c \in Nat
  BY FS_CardinalityType
<1>2. ASSUME NEW id \in ids
      PROVE  IsFiniteSet(below(id)) /\ Cardinality(below(id)) \in Nat /\ Cardinality(below(id)) + 1 \in 1..c
  <2>1. below(id) \in SUBSET ids /\ id \in ids /\ id \notin below(id)
    OBVIOUS
  <2> HIDE DEF below
  <2>2. IsFiniteSet(below(id)) /\ Cardinality(below(id)) <= c /\ c # Cardinality(below(id))
    BY <2>1, FS_Subset
  <2>3. Cardinality(below(id)) \in Nat
    BY <2>2, FS_CardinalityType
  <2> HIDE DEF c
  <2> QED  BY <1>1, <2>2, <2>3
<1>3. ASSUME NEW x \in ids, NEW y \in ids, x < y
      PROVE  Cardinality(below(x)) < Cardinality(below(y))
  <2>1. below(x) \in SUBSET below(y) /\ x \in below(y) /\ x \notin below(x)
    <3>1. \A z \in ids : z \in Int
      OBVIOUS
    <3>2. \A z \in ids : z < x => z < y
      BY <1>3, <3>1
    <3>3. ~(x < x)
      BY <3>1
    <3> QED  BY <1>3, <3>2, <3>3
  <2> HIDE DEF below
  <2>2. IsFiniteSet(below(y)) /\ Cardinality(below(x)) \in Nat /\ Cardinality(below(y)) \in Nat
    BY <1>2
  <2>3. /\ Cardinality(below(x)) <= Cardinality(below(y))
        /\ Cardinality(below(y)) = Cardinality(below(x)) => below(y) = below(x)
    BY <2>1, <2>2, FS_Subset
  <2>4. below(y) # below(x)
    BY <2>1
  <2> QED  BY <2>2, <2>3, <2>4
<1> HIDE DEF below
<1>4. rank \in Surjection(ids, 1..c)
  <2>1. rank \in [ids -> 1..c]
    BY <1>2
  <2>2. ASSUME NEW x \in ids, NEW y \in ids, rank[x] = rank[y]
        PROVE  x = y
    <3>1. Cardinality(below(x)) = Cardinality(below(y))
      BY <1>2, <2>2
    <3>2. ~(x < y) /\ ~(y < x)
      BY <1>2, <1>3, <3>1
    <3> QED  BY <3>2
  <2>3. rank \in Injection(ids, 1..c)
    BY <2>1, <2>2 DEF Injection, IsInjective
  <2>4. IsFiniteSet(1..c) /\ Cardinality(1..c) = c
    BY <1>1, FS_Interval
  <2> HIDE DEF rank
  <2> QED  BY <2>3, <2>4, FS_Injection
<1>5. ASSUME NEW id \in ids  PROVE  InOrder(ids)[rank[id]] = id
  <2>1. rank[id] \in 1..c /\ Cardinality(below(id)) = rank[id] - 1
    BY <1>2
  <2>2. \A x \in ids : Cardinality(below(x)) = rank[id] - 1 => x = id
    <3> TAKE x \in ids
    <3>1. x < id \/ id < x \/ x = id
      OBVIOUS
    <3> QED  BY <1>2, <1>3, <2>1, <3>1
  <2> HIDE DEF rank
  <2>3. InOrder(ids)[rank[id]] = CHOOSE x \in ids : Cardinality(below(x)) = rank[id] - 1
    BY <2>1 DEF InOrder, below
  <2> QED  BY <2>1, <2>2, <2>3
<1>6. \A n \in 1..c : \E id \in ids : rank[id] = n
  BY <1>4 DEF Surjection
<1>7. \A id \in ids : rank[id] \in 1..c
  BY <1>2
<1>8. DOMAIN InOrder(ids) = 1..c
  BY DEF InOrder
<1> HIDE DEF rank
<1> QED  BY <1>1, <1>5, <1>6, <1>7, <1>8

-----------------------------------------------------------------------------
(* What any command makes of a document. *)

\* A write in the schema of the decisions, as it was laid out, has one of these keys. The
\* map 1 is the schema's and the map 4 holds the acceptances.
Laid ==
    {New(DecisionsKey, Map, 1), New(Key(1, <<"v">>), Number(SchemaVersion), 2),
     New(Key(1, <<"claims">>), List, 3), New(Key(1, <<"acceptances">>), Map, 4),
     New(Key(1, <<"resets">>), Map, 5)}

\* The keys that are neither the schema's own nor a hostname's register of acceptances.
Aside(k) ==
    /\ KeyShaped(k) /\ k.object \notin {1, 4}
    /\ k.prop # <<>> => k.object \in {RootObject, 5}

\* An element is there already, or is named by a new stamp.
Placed(doc, k) ==
    k.element \in {0, clock + 1, clock + 2} \/ \E w \in doc.live : w.key.element = k.element

\* One transaction, with a stamp that was not handed out before.
Edit(old, new) ==
    \/ new = old
    \/ \E k : /\ Aside(k) /\ Placed(old, k)
              /\ \/ new = Delete(old, k)
                 \/ \E v : \E s \in {clock + 1, clock + 2} : new = Put(old, k, v, s)

\* What commands, other than a decision for a document, make of one.
Edited(old, new) == \E mid : Edit(old, mid) /\ Edit(mid, new)

\* A replica of the user's own document: the schema is there whole or not at all, and no
\* one but the one who laid it out writes in its map.
OwnShape(doc, c) ==
    /\ IsDocument(doc)
    /\ doc.seen \subseteq 1..c
    /\ \A w \in doc.live :
          /\ w.stamp <= 5 \/ w.key.object = 1 => w \in Laid
          /\ w.key.prop # <<>> => w.key.object \in {RootObject, 1, 4, 5}
          /\ w.key.element \in 0..c
    /\ \A w \in Laid :
          1..5 \cap doc.seen # {} => w.stamp \in doc.seen /\ (w.stamp # 1 => w \in doc.live)

LEMMA LaidFacts ==
    /\ \A w \in Laid : w.stamp \in 1..5 /\ KeyShaped(w.key) /\ IsDocument([live |-> {w}, seen |-> {w.stamp}])
    /\ \A w \in Laid : w.stamp = 1 <=> w.key = DecisionsKey
    /\ \A w \in Laid : w.stamp # 1 => w.key.object = 1
    /\ \A w \in Laid : w.stamp \in {1, 4, 5} <=> w.value.kind = "Map"
    /\ \A w \in Laid : w.key = Key(1, <<"acceptances">>) <=> w.stamp = 4
    /\ \A w \in Laid : w.key = Key(1, <<"resets">>) <=> w.stamp = 5
    /\ \A w \in Laid : w.key.object \in {0, 1} /\ w.key.element = 0
    /\ \E w \in Laid : w.stamp = 4
BY DEF Laid, New, Map, List, Number, Key, DecisionsKey, RootObject, KeyShaped, IsDocument

LEMMA SkeletonIs == Skeleton = [live |-> Laid, seen |-> 1..5]
<1> DEFINE s1 == Put(Blank, DecisionsKey, Map, 1)
           s2 == Put(s1, Key(1, <<"v">>), Number(SchemaVersion), 2)
           s3 == Put(s2, Key(1, <<"claims">>), List, 3)
           s4 == Put(s3, Key(1, <<"acceptances">>), Map, 4)
           s5 == Put(s4, Key(1, <<"resets">>), Map, 5)
           w1 == New(DecisionsKey, Map, 1)
           w2 == New(Key(1, <<"v">>), Number(SchemaVersion), 2)
           w3 == New(Key(1, <<"claims">>), List, 3)
           w4 == New(Key(1, <<"acceptances">>), Map, 4)
           w5 == New(Key(1, <<"resets">>), Map, 5)
<1>0. /\ DecisionsKey # Key(1, <<"v">>) /\ DecisionsKey # Key(1, <<"claims">>)
      /\ DecisionsKey # Key(1, <<"acceptances">>) /\ DecisionsKey # Key(1, <<"resets">>)
      /\ Key(1, <<"v">>) # Key(1, <<"claims">>) /\ Key(1, <<"v">>) # Key(1, <<"acceptances">>)
      /\ Key(1, <<"v">>) # Key(1, <<"resets">>) /\ Key(1, <<"claims">>) # Key(1, <<"acceptances">>)
      /\ Key(1, <<"claims">>) # Key(1, <<"resets">>)
      /\ Key(1, <<"acceptances">>) # Key(1, <<"resets">>)
  BY DEF Key, DecisionsKey, RootObject
<1>1. s1.live = {w1} /\ s1.seen = {1}
  BY PutFacts DEF Blank
<1> HIDE DEF s1
<1>2. s2.live = {w1, w2} /\ s2.seen = {1, 2}
  BY <1>0, <1>1, PutFacts DEF New
<1> HIDE DEF s2
<1>3. s3.live = {w1, w2, w3} /\ s3.seen = {1, 2, 3}
  BY <1>0, <1>2, PutFacts DEF New
<1> HIDE DEF s3
<1>4. s4.live = {w1, w2, w3, w4} /\ s4.seen = {1, 2, 3, 4}
  BY <1>0, <1>3, PutFacts DEF New
<1> HIDE DEF s4
<1>5. s5.live = {w1, w2, w3, w4, w5} /\ s5.seen = {1, 2, 3, 4, 5}
  BY <1>0, <1>4, PutFacts DEF New
<1>6. s5 = [live |-> s5.live, seen |-> s5.seen]
  BY DEF Put
<1> HIDE DEF s5
<1>7. s5 = [live |-> Laid, seen |-> 1..5]
  <2>1. {1, 2, 3, 4, 5} = 1..5
    OBVIOUS
  <2>2. s5.live = Laid
    BY <1>5 DEF Laid
  <2> QED  BY <1>5, <1>6, <2>1, <2>2
<1> QED  BY <1>7 DEF s1, s2, s3, s4, s5, Skeleton

LEMMA SkeletonShape == OwnShape(Skeleton, 10)
<1>1. IsDocument(Skeleton)
  <2>1. \A w \in Laid : /\ w = [key |-> w.key, value |-> w.value, stamp |-> w.stamp]
                        /\ KeyShaped(w.key) /\ w.stamp \in 1..5
    BY LaidFacts DEF Laid, New
  <2> QED  BY <2>1, SkeletonIs DEF IsDocument, KeyShaped
<1>2. \A w \in Laid : /\ w.key.object \in {RootObject, 1, 4, 5} /\ w.stamp \in 1..5
                       /\ w.key.element \in 0..10
  <2>1. \A w \in Laid : w.key.element = 0 /\ w.key.object \in {0, 1} /\ w.stamp \in 1..5
    BY LaidFacts
  <2>2. 0 \in 0..10
    OBVIOUS
  <2> QED  BY <2>1, <2>2 DEF RootObject
<1> QED  BY <1>1, <1>2, SkeletonIs DEF OwnShape

LEMMA BlankShape == \A c \in Nat : OwnShape(Blank, c)
BY BlankIsDocument DEF OwnShape, Blank

LEMMA MergeShape ==
    ASSUME NEW a, NEW b, NEW c \in Nat, OwnShape(a, c), OwnShape(b, c)
    PROVE  OwnShape(MergeDocs(a, b), c)
<1> DEFINE m == MergeDocs(a, b)
<1>1. IsDocument(m)
  BY MergeIsDocument DEF OwnShape
<1>2. m.seen = a.seen \cup b.seen /\ m.live \subseteq a.live \cup b.live
  BY DEF MergeDocs
<1>3. ASSUME NEW w \in Laid, 1..5 \cap m.seen # {}
      PROVE  w.stamp \in m.seen /\ (w.stamp # 1 => w \in m.live)
  <2>1. 1..5 \cap a.seen # {} \/ 1..5 \cap b.seen # {}
    BY <1>2, <1>3
  <2>2. w.stamp \in 1..5
    BY LaidFacts
  <2>3. w.stamp \in m.seen
    BY <2>1, <1>2 DEF OwnShape
  <2>4. ASSUME w.stamp # 1  PROVE  w \in m.live
    <3>1. w \in a.live \/ w.stamp \notin a.seen
      BY <2>2, <2>4 DEF OwnShape
    <3>2. w \in b.live \/ w.stamp \notin b.seen
      BY <2>2, <2>4 DEF OwnShape
    <3>3. w \in a.live \cup b.live
      BY <3>1, <3>2, <2>3, <1>2
    <3> QED  BY <3>1, <3>2, <3>3 DEF MergeDocs
  <2> QED  BY <2>3, <2>4
<1>4. m.seen \subseteq 1..c
  BY <1>2 DEF OwnShape
<1>5. \A w \in m.live : /\ w.stamp <= 5 \/ w.key.object = 1 => w \in Laid
                        /\ w.key.prop # <<>> => w.key.object \in {RootObject, 1, 4, 5}
                        /\ w.key.element \in 0..c
  BY <1>2 DEF OwnShape
<1> HIDE DEF m
<1>6. OwnShape(m, c)
  BY <1>1, <1>3, <1>4, <1>5 DEF OwnShape
<1> QED  BY <1>6 DEF m

LEMMA EditIsDocument ==
    ASSUME NEW old, NEW new, IsDocument(old), Edited(old, new)
    PROVE  IsDocument(new)
<1>1. ASSUME NEW x, NEW y, IsDocument(x), Edit(x, y)
      PROVE  IsDocument(y)
  BY <1>1, PutIsDocument, DeleteIsDocument DEF Edit, Aside
<1> QED  BY <1>1 DEF Edited

LEMMA EditShape ==
    ASSUME NEW old, NEW new, clock \in Nat, clock >= 10, Edited(old, new),
           OwnShape(old, clock + 2)
    PROVE  OwnShape(new, clock + 2)
<1>1. ASSUME NEW x, NEW y, OwnShape(x, clock + 2), Edit(x, y)
      PROVE  OwnShape(y, clock + 2)
  <2>0. IsDocument(x)
    BY <1>1 DEF OwnShape
  <2>1. CASE x = y
    BY <2>1, <1>1
  <2>2. CASE \E k : Aside(k) /\ y = Delete(x, k)
    <3> PICK k : Aside(k) /\ y = Delete(x, k)
      BY <2>2
    <3>1. y = [live |-> {w \in x.live : w.key # k}, seen |-> x.seen]
      BY <2>0, DeleteFacts DEF IsDocument
    <3>2. ASSUME NEW w \in Laid, w.stamp # 1  PROVE  w.key # k
      BY <3>2, LaidFacts DEF Aside
    <3>3. IsDocument(y)
      BY <2>0, DeleteIsDocument
    <3>4. y.seen = x.seen /\ \A w : w \in y.live <=> w \in x.live /\ w.key # k
      BY <3>1
    <3> QED  BY <3>2, <3>3, <3>4, <1>1 DEF OwnShape
  <2>3. CASE \E k : /\ Aside(k) /\ Placed(x, k)
                    /\ \E v : \E s \in {clock + 1, clock + 2} : y = Put(x, k, v, s)
    <3>0. PICK k, v, s : /\ Aside(k) /\ Placed(x, k)
                         /\ s \in {clock + 1, clock + 2} /\ y = Put(x, k, v, s)
      BY <2>3
    <3>1. y.live = {w \in x.live : w.key # k} \cup {New(k, v, s)} /\ y.seen = x.seen \cup {s}
      BY <3>0, PutFacts
    <3>2. ASSUME NEW w \in Laid, w.stamp # 1  PROVE  w.key # k
      BY <3>0, <3>2, LaidFacts DEF Aside
    <3>3. IsDocument(y)
      BY <2>0, <3>0, PutIsDocument DEF Aside
    <3>4. s \in 1..clock + 2 /\ s > 5
      BY <3>0
    <3>5. \A w \in Laid : 1..5 \cap y.seen # {} => w.stamp \in y.seen /\ (w.stamp # 1 => w \in y.live)
      BY <1>1, <3>1, <3>2, <3>4 DEF OwnShape
    <3>6. ASSUME NEW w \in y.live
          PROVE  /\ w.stamp <= 5 \/ w.key.object = 1 => w \in Laid
                 /\ w.key.prop # <<>> => w.key.object \in {RootObject, 1, 4, 5}
                 /\ w.key.element \in 0..clock + 2
      <4>0. k.element \in 0..clock + 2
        BY <1>1, <3>0 DEF OwnShape, Placed
      <4>1. CASE w \in x.live
        BY <4>1, <1>1 DEF OwnShape
      <4>2. CASE w = New(k, v, s)
        BY <4>0, <4>2, <3>0, <3>4 DEF New, Aside
      <4> QED  BY <3>1, <4>1, <4>2
    <3>7. y.seen \subseteq 1..clock + 2
      BY <1>1, <3>1, <3>4 DEF OwnShape
    <3> QED  BY <3>3, <3>5, <3>6, <3>7 DEF OwnShape
  <2> QED  BY <1>1, <2>1, <2>2, <2>3 DEF Edit
<1> QED  BY <1>1 DEF Edited

\* The schema's fields are where they were laid.
LEMMA FieldFacts ==
    ASSUME NEW doc, NEW c \in Nat, OwnShape(doc, c)
    PROVE  /\ SchemaRoot(doc) \subseteq {1}
           /\ Field(doc, "acceptances", "Map") = IF SchemaRoot(doc) = {} THEN {} ELSE {4}
           /\ Field(doc, "resets", "Map") \subseteq {5}
<1>1. ASSUME NEW m \in SchemaRoot(doc)  PROVE  m = 1
  <2>1. PICK w \in At(doc, DecisionsKey) : w.stamp = m /\ w.value.kind = "Map"
    BY DEF SchemaRoot, ObjectAt
  <2>2. At(doc, Key(m, <<"v">>)) # {}
    BY DEF SchemaRoot, Value
  <2>3. PICK x \in doc.live : x.key = Key(m, <<"v">>)
    BY <2>2 DEF At
  <2>4. m \in {RootObject, 1, 4, 5}
    BY <2>3 DEF OwnShape, Key
  <2>5. w \in doc.live /\ w.key = DecisionsKey /\ w.stamp \in doc.seen
    BY <2>1 DEF At, OwnShape, IsDocument
  <2>6. m # RootObject
    BY <2>1, <2>5 DEF OwnShape, RootObject
  <2>7. w \in Laid
    BY <2>1, <2>4, <2>5 DEF OwnShape, RootObject
  <2> QED  BY <2>1, <2>5, <2>7, LaidFacts
<1>2. ASSUME NEW s \in ObjectAt(doc, Key(1, <<"acceptances">>), "Map")  PROVE  s = 4
  <2>1. PICK w \in doc.live : w.key = Key(1, <<"acceptances">>) /\ s = w.stamp
    BY DEF ObjectAt, At
  <2>2. w \in Laid
    BY <2>1 DEF OwnShape, Key
  <2> QED  BY <2>1, <2>2, LaidFacts
<1>3. ASSUME NEW s \in ObjectAt(doc, Key(1, <<"resets">>), "Map")  PROVE  s = 5
  <2>1. PICK w \in doc.live : w.key = Key(1, <<"resets">>) /\ s = w.stamp
    BY DEF ObjectAt, At
  <2>2. w \in Laid
    BY <2>1 DEF OwnShape, Key
  <2> QED  BY <2>1, <2>2, LaidFacts
<1>4. ASSUME 1 \in SchemaRoot(doc)  PROVE  4 \in ObjectAt(doc, Key(1, <<"acceptances">>), "Map")
  <2>1. PICK w \in doc.live : w.stamp = 1
    BY <1>4 DEF SchemaRoot, ObjectAt, At
  <2>2. 1..5 \cap doc.seen # {}
    <3>1. w.stamp \in doc.seen
      BY DEF OwnShape, IsDocument
    <3> QED  BY <2>1, <3>1
  <2>3. PICK x \in Laid : x.stamp = 4
    BY LaidFacts
  <2>4. x \in doc.live /\ x.key = Key(1, <<"acceptances">>) /\ x.value.kind = "Map"
    BY <2>2, <2>3, LaidFacts DEF OwnShape
  <2>5. \A y \in At(doc, Key(1, <<"acceptances">>)) : y = x
    <3> TAKE y \in At(doc, Key(1, <<"acceptances">>))
    <3>1. y \in Laid /\ y.key = Key(1, <<"acceptances">>)
      BY DEF At, OwnShape, Key
    <3>2. y.stamp = 4
      BY <3>1, LaidFacts
    <3> QED  BY <3>1, <3>2, <2>3 DEF Laid, New
  <2>6. At(doc, Key(1, <<"acceptances">>)) = {x}
    BY <2>4, <2>5 DEF At
  <2>7. x = Winner(doc, Key(1, <<"acceptances">>))
    BY <2>3, <2>6, OneWrite
  <2> QED  BY <2>3, <2>4, <2>6, <2>7 DEF ObjectAt
<1> QED  BY <1>1, <1>2, <1>3, <1>4 DEF Field

-----------------------------------------------------------------------------
(* What a step makes of the replicas. *)

Shape ==
    /\ clock \in Nat /\ clock >= 10 /\ part \in Parts
    /\ docs = [d \in Device |-> docs[d]]
    /\ \A d \in Device :
          /\ docs[d] = [a \in DOMAIN docs[d] |-> docs[d][a]]
          /\ \A a \in DOMAIN docs[d] :
                /\ docs[d][a] = Replica(docs[d][a].doc, docs[d][a].carriage)
                /\ IsDocument(docs[d][a].doc)
                /\ d \in Browser => docs[d][a].carriage = "None"
          /\ Own \in DOMAIN docs[d] => OwnShape(OwnDoc(d), clock)
          /\ d \in Native => Own \in DOMAIN docs[d]

Rewritten(d, a, doc) ==
    /\ docs' = [docs EXCEPT ![d][a].doc = doc]
    /\ clock' = clock + 2 /\ UNCHANGED part

\* What a device may come to hold.
Obtainable(d, a, replica) ==
    \/ replica = Replica(Blank, "None") /\ a \notin DOMAIN docs[d]
    \/ /\ d \in Native /\ a \in DOMAIN Library \ {Own} /\ a \notin DOMAIN docs[d]
       /\ \E carriage : replica = Replica(Library[a], carriage)
    \/ d \in Browser /\ \E e \in Device : a \in DOMAIN docs[e] /\ replica = Replica(docs[e][a].doc, "None")
    \/ /\ d \in Native /\ a = Own
       /\ \E e \in Device : /\ Own \in DOMAIN docs[e]
                            /\ replica = Replica(MergeDocs(OwnDoc(d), OwnDoc(e)), docs[d][Own].carriage)

Acceptance(d, raw, document, cited) ==
    /\ Own \in DOMAIN docs[d]
    /\ \E m \in Field(OwnDoc(d), "acceptances", "Map") :
          Rewritten(d, Own, Put(OwnDoc(d), Key(m, raw), AcceptanceEntry(document, cited), clock + 1))
    /\ decided' = decided \cup {[raw |-> raw, document |-> document, cited |-> cited,
                                 stamp |-> clock + 1, saw |-> OwnDoc(d).seen]}

LEMMA ListAside ==
    ASSUME NEW doc, NEW c \in Nat, OwnShape(doc, c), NEW key, NEW l \in ObjectAt(doc, key, "List")
    PROVE  \A id : Aside(Element(l, id))
<1>1. PICK w \in doc.live : w.stamp = l /\ w.value.kind = "List"
  BY DEF ObjectAt, At
<1>2. l \notin {1, 4}
  BY <1>1, LaidFacts DEF OwnShape
<1> QED  BY <1>2, KeysAreShaped DEF Aside, Element

LEMMA RootAside == \A path : Aside(Root(path)) /\ \A doc : Placed(doc, Root(path))
BY KeysAreShaped DEF Aside, Placed, RootObject

LEMMA NewElement ==
    \A doc, l : /\ Placed(doc, Element(l, clock + 1))
                /\ Placed(doc, Element(l, clock + 2))
BY DEF Placed, Element

LEMMA PutEdits ==
    ASSUME NEW doc, NEW key, Aside(key), Placed(doc, key), NEW value,
           NEW stamp \in {clock + 1, clock + 2}
    PROVE  Edited(doc, Put(doc, key, value, stamp))
<1>1. Edit(doc, Put(doc, key, value, stamp)) /\ Edit(Put(doc, key, value, stamp), Put(doc, key, value, stamp))
  BY DEF Edit
<1> QED  BY <1>1 DEF Edited

LEMMA PetnameEdits ==
    ASSUME NEW doc, NEW from, NEW to, NEW target
    PROVE  /\ \A new \in PinAt(doc, to, target, clock + 1) : Edited(doc, new)
           /\ \A new \in UnpinAt(doc, from) : Edited(doc, new)
           /\ \A new \in Rename(doc, from, to, clock + 1) : Edited(doc, new)
<1>0. \A x : Edit(x, x)
  BY DEF Edit
<1>1. ASSUME NEW t, NEW new \in PinAt(doc, to, t, clock + 1)
      PROVE  Edit(doc, new)
  BY RootAside DEF PinAt, Edit
<1>2. ASSUME NEW x, NEW new \in UnpinAt(x, from)
      PROVE  Edit(x, new)
  BY RootAside DEF UnpinAt, Edit
<1>3. ASSUME NEW new \in Rename(doc, from, to, clock + 1)
      PROVE  Edited(doc, new)
  <2>1. CASE from = to
    BY <1>0, <1>3, <2>1 DEF Rename, Edited
  <2>2. CASE from # to
    <3>1. PICK t : \/ new \in PinAt(doc, to, t, clock + 1)
                   \/ \E mid \in PinAt(doc, to, t, clock + 1) : new \in UnpinAt(mid, from)
      BY <1>3, <2>2 DEF Rename
    <3> QED  BY <3>1, <1>0, <1>1, <1>2 DEF Edited
  <2> QED  BY <2>1, <2>2
<1> QED  BY <1>0, <1>1, <1>2, <1>3 DEF Edited

-----------------------------------------------------------------------------
(* The list of certificates. *)

\* A key that holds anything has a winner.
LEMMA WinnerIs ==
    ASSUME NEW doc, NEW c \in Nat, OwnShape(doc, c), NEW key, At(doc, key) # {}
    PROVE  Winner(doc, key) \in At(doc, key)
<1> DEFINE left == {c - w.stamp : w \in At(doc, key)}
<1>1. \A w \in At(doc, key) : w.stamp \in 1..c
  BY DEF At, OwnShape, IsDocument
<1>2. left \in SUBSET Nat /\ left # {}
  BY <1>1
<1>3. PICK m \in left : \A k \in left : ~(k < m)
  BY <1>2, LeastNat
<1>4. PICK w \in At(doc, key) : m = c - w.stamp
  OBVIOUS
<1>5. ASSUME NEW x \in At(doc, key)  PROVE  x.stamp <= w.stamp
  <2>1. c - x.stamp \in left
    OBVIOUS
  <2>2. ~(c - x.stamp < c - w.stamp)
    BY <1>3, <1>4, <2>1
  <2>3. x.stamp \in Int /\ w.stamp \in Int
    BY <1>1
  <2> QED  BY <2>2, <2>3
<1> QED  BY <1>5 DEF Winner

LEMMA ElementsAre ==
    ASSUME NEW doc, NEW c \in Nat, OwnShape(doc, c), NEW list
    PROVE  /\ ElementsOf(doc, list) \in SUBSET Nat /\ IsFiniteSet(ElementsOf(doc, list))
           /\ ElementsOf(doc, list) \in SUBSET (0..c)
           /\ \A id : id \in ElementsOf(doc, list) <=> id # 0 /\ At(doc, Element(list, id)) # {}
<1>1. ASSUME NEW id \in ElementsOf(doc, list)
      PROVE  id \in 0..c /\ id # 0 /\ At(doc, Element(list, id)) # {}
  <2>1. PICK w \in doc.live : w.key.object = list /\ w.key.element # 0 /\ id = w.key.element
    BY DEF ElementsOf, Keys
  <2>2. w.key = [object |-> w.key.object, prop |-> w.key.prop, element |-> w.key.element]
        /\ w.key.prop = <<>> /\ w.key.element \in 0..c
    BY <2>1 DEF OwnShape, IsDocument
  <2> QED  BY <2>1, <2>2 DEF At, Element
<1>2. ASSUME NEW id, id # 0, At(doc, Element(list, id)) # {}
      PROVE  id \in ElementsOf(doc, list)
  <2>1. PICK w \in doc.live : w.key = Element(list, id)
    BY <1>2 DEF At
  <2>2. w.key \in Keys(doc) /\ w.key.object = list /\ w.key.element = id
    BY <2>1 DEF Keys, Element
  <2> QED  BY <1>2, <2>2 DEF ElementsOf
<1>3. ElementsOf(doc, list) \in SUBSET (0..c)
  BY <1>1
<1>4. IsFiniteSet(0..c)
  BY FS_Interval
<1>5. IsFiniteSet(ElementsOf(doc, list))
  BY <1>3, <1>4, FS_Subset
<1>6. ElementsOf(doc, list) \in SUBSET Nat
  BY <1>3
<1> QED  BY <1>1, <1>2, <1>3, <1>5, <1>6

\* The elements of a list that hold bytes.
Holding(doc, list) ==
    {id \in ElementsOf(doc, list) : Winner(doc, Element(list, id)).value.kind = "Bytes"}

UnitAt(doc, list, id) == Winner(doc, Element(list, id)).value.unit

LEMMA EntriesAre ==
    ASSUME NEW doc, NEW c \in Nat, OwnShape(doc, c), NEW list
    PROVE  LET ids == Holding(doc, list)
               entries == ByteEntries(doc, list)
           IN  /\ ids \in SUBSET Nat /\ IsFiniteSet(ids) /\ Cardinality(ids) \in Nat
               /\ Len(entries) = Cardinality(ids) /\ DOMAIN entries = 1..Cardinality(ids)
               /\ \A n \in DOMAIN entries :
                     InOrder(ids)[n] \in ids /\ entries[n] = UnitAt(doc, list, InOrder(ids)[n])
               /\ ToSet(entries) = {UnitAt(doc, list, id) : id \in ids}
<1> DEFINE ids == Holding(doc, list)
           entries == ByteEntries(doc, list)
           all == ElementsOf(doc, list)
<1>1. all \in SUBSET Nat /\ IsFiniteSet(all)
  BY ElementsAre
<1>2. ids \in SUBSET all
  BY DEF Holding
<1>3. entries = [n \in DOMAIN InOrder(ids) |-> UnitAt(doc, list, InOrder(ids)[n])]
  BY DEF ByteEntries, Holding, UnitAt
<1> HIDE DEF ids, all, entries
<1>4. ids \in SUBSET Nat /\ IsFiniteSet(ids)
  BY <1>1, <1>2, FS_Subset
<1>5. /\ Cardinality(ids) \in Nat /\ DOMAIN InOrder(ids) = 1..Cardinality(ids)
      /\ \A n \in 1..Cardinality(ids) : InOrder(ids)[n] \in ids
      /\ \A id \in ids : \E n \in 1..Cardinality(ids) : InOrder(ids)[n] = id
  BY <1>4, InOrderIs
<1>6. entries = [n \in 1..Cardinality(ids) |-> UnitAt(doc, list, InOrder(ids)[n])]
  BY <1>3, <1>5
<1>7. Len(entries) = Cardinality(ids) /\ DOMAIN entries = 1..Cardinality(ids)
  BY <1>5, <1>6
<1>8. ToSet(entries) = {UnitAt(doc, list, id) : id \in ids}
  <2>1. ToSet(entries) = {entries[n] : n \in 1..Cardinality(ids)}
    BY <1>7 DEF ToSet
  <2> QED  BY <1>5, <1>6, <2>1
<1> QED  BY <1>4, <1>5, <1>6, <1>7, <1>8 DEF ids, entries

\* Where the list is, if there is one.
HasList(doc) ==
    At(doc, CertificatesKey) # {} /\ Winner(doc, CertificatesKey).value.kind = "List"

ListOf(doc) == Winner(doc, CertificatesKey).stamp

LEMMA LocateIs ==
    ASSUME NEW doc, NEW c \in Nat, OwnShape(doc, c)
    PROVE  /\ At(doc, CertificatesKey) = {} =>
                 Listed(Locate(doc)) = <<>> /\ ObjectAt(doc, CertificatesKey, "List") = {}
           /\ HasList(doc) => /\ Listed(Locate(doc)) = ByteEntries(doc, ListOf(doc))
                              /\ ObjectAt(doc, CertificatesKey, "List") = {ListOf(doc)}
           /\ Locate(doc).kind \in {"Absent", "Inline"} =>
                 At(doc, CertificatesKey) = {} \/ HasList(doc)
<1> DEFINE w == Winner(doc, CertificatesKey)
<1>1. CASE At(doc, CertificatesKey) = {}
  <2>1. Locate(doc) = Located("Absent", <<>>)
    BY <1>1 DEF Locate
  <2>2. ObjectAt(doc, CertificatesKey, "List") = {}
    BY <1>1 DEF ObjectAt
  <2> QED  BY <1>1, <2>1, <2>2 DEF Listed, Located, HasList
<1>2. CASE At(doc, CertificatesKey) # {}
  <2>1. w \in At(doc, CertificatesKey)
    BY <1>2, WinnerIs
  <2>2. Locate(doc) = CASE w.value.kind = "Reference" -> Located("Elsewhere", w.value.target)
                        [] w.value.kind = "List" -> Located("Inline", ByteEntries(doc, w.stamp))
                        [] OTHER -> Located("NotAListOrReference", <<>>)
    BY <1>2 DEF Locate
  <2>3. CASE w.value.kind = "List"
    <3>1. Locate(doc) = Located("Inline", ByteEntries(doc, w.stamp))
      BY <2>2, <2>3
    <3>2. ObjectAt(doc, CertificatesKey, "List") = {w.stamp}
      BY <2>1, <2>3 DEF ObjectAt
    <3> QED  BY <1>2, <2>3, <3>1, <3>2 DEF Listed, Located, HasList, ListOf
  <2>4. CASE w.value.kind # "List"
    <3>1. Locate(doc).kind \in {"Elsewhere", "NotAListOrReference"}
      BY <2>2, <2>4 DEF Located
    <3> QED  BY <1>2, <2>4, <3>1 DEF HasList
  <2> QED  BY <2>3, <2>4
<1> QED  BY <1>1, <1>2

\* put adds an element to the list, which it makes if there is none, or overwrites one.
LEMMA PutCertificateIs ==
    ASSUME NEW doc, NEW c \in Nat, OwnShape(doc, c), NEW unit, NEW stamp,
           NEW new \in PutCertificate(doc, unit, stamp)
    PROVE  \/ /\ At(doc, CertificatesKey) = {}
              /\ new = Put(Put(doc, CertificatesKey, List, stamp),
                           Element(stamp, stamp + 1), Bytes(unit), stamp + 1)
           \/ /\ HasList(doc)
              /\ \E id :
                    /\ new = Put(doc, Element(ListOf(doc), id), Bytes(unit), stamp + 1)
                    /\ \/ /\ id = stamp + 1
                          /\ \A x \in Holding(doc, ListOf(doc)) :
                                ~SameCertificate(UnitAt(doc, ListOf(doc), x), unit)
                       \/ /\ id \in ElementsOf(doc, ListOf(doc))
                          /\ AllBytes(doc) => SameCertificate(UnitAt(doc, ListOf(doc), id), unit)
<1> DEFINE l == ListOf(doc)
           entries == Listed(Locate(doc))
           lists == ObjectAt(doc, CertificatesKey, "List")
           list == IF lists = {} THEN stamp ELSE CHOOSE x \in lists : TRUE
           ready == IF lists = {} THEN Put(doc, CertificatesKey, List, stamp) ELSE doc
           replaced == Replaced(entries, unit)
           id == IF replaced = {} THEN stamp + 1 ELSE Items(doc, list)[Min(replaced)]
<1>1. Locate(doc).kind \in {"Absent", "Inline"} /\ new = Put(ready, Element(list, id), Bytes(unit), stamp + 1)
  BY DEF PutCertificate
<1>2. replaced = {n \in DOMAIN entries : SameCertificate(entries[n], unit)}
  BY DEF Replaced
<1>3. CASE At(doc, CertificatesKey) = {}
  <2>1. entries = <<>> /\ lists = {}
    BY <1>3, LocateIs
  <2>2. replaced = {}
    BY <1>2, <2>1
  <2> QED  BY <1>1, <1>3, <2>1, <2>2
<1>4. CASE HasList(doc)
  <2>1. entries = ByteEntries(doc, l) /\ lists = {l}
    BY <1>4, LocateIs
  <2>2. list = l /\ ready = doc
    BY <2>1
  <2> DEFINE ids == Holding(doc, l)
             all == ElementsOf(doc, l)
  <2>3. /\ ids \in SUBSET Nat /\ IsFiniteSet(ids) /\ Cardinality(ids) \in Nat
        /\ DOMAIN entries = 1..Cardinality(ids)
        /\ \A n \in DOMAIN entries : InOrder(ids)[n] \in ids /\ entries[n] = UnitAt(doc, l, InOrder(ids)[n])
        /\ ToSet(entries) = {UnitAt(doc, l, x) : x \in ids}
    BY <2>1, EntriesAre
  <2>4. all \in SUBSET Nat /\ IsFiniteSet(all) /\ ids \in SUBSET all
    BY ElementsAre DEF Holding
  <2>5. AllBytes(doc) => ids = all
    BY <2>1 DEF AllBytes, Holding
  <2>6. Items(doc, l) = InOrder(all)
    BY DEF Items
  <2>7. ToSet(entries) = {entries[n] : n \in DOMAIN entries}
    BY DEF ToSet
  <2> HIDE DEF l, entries, lists, list, ready, replaced, ids, all
  <2>8. CASE replaced = {}
    <3>1. \A x \in ids : ~SameCertificate(UnitAt(doc, l, x), unit)
      BY <1>2, <2>3, <2>7, <2>8
    <3> QED  BY <1>1, <1>4, <2>2, <2>8, <3>1 DEF l, ids
  <2>9. CASE replaced # {}
    <3>1. replaced \in SUBSET Nat
      BY <1>2, <2>3
    <3>2. PICK m \in replaced : \A k \in replaced : ~(k < m)
      BY <2>9, <3>1, LeastNat
    <3>3. \A k \in replaced : m <= k
      BY <3>1, <3>2
    <3>4. Min(replaced) \in replaced
      BY <3>3 DEF Min
    <3> DEFINE least == Min(replaced)
    <3>5. least \in 1..Cardinality(ids) /\ SameCertificate(entries[least], unit)
      BY <1>2, <2>3, <3>4
    <3>6. Cardinality(ids) <= Cardinality(all) /\ Cardinality(all) \in Nat
      BY <2>4, FS_Subset, FS_CardinalityType
    <3> HIDE DEF least
    <3>7. InOrder(all)[least] \in all
      <4>1. least \in 1..Cardinality(all)
        BY <2>3, <3>5, <3>6
      <4> QED  BY <2>4, <4>1, InOrderIs
    <3>8. id = InOrder(all)[least]
      BY <2>2, <2>6, <2>9 DEF least
    <3>9. AllBytes(doc) => SameCertificate(UnitAt(doc, l, InOrder(all)[least]), unit)
      BY <2>3, <2>5, <3>5
    <3> HIDE DEF id
    <3> QED  BY <1>1, <1>4, <2>2, <3>7, <3>8, <3>9 DEF l, all
  <2> QED  BY <2>8, <2>9
<1> QED  BY <1>1, <1>3, <1>4, LocateIs

LEMMA CertificateEdits ==
    ASSUME NEW doc, NEW c \in Nat, OwnShape(doc, c), NEW unit,
           clock \in Nat, clock >= 10, NEW new \in PutCertificate(doc, unit, clock + 1)
    PROVE  Edited(doc, new)
<1>0. clock + 1 + 1 = clock + 2
  OBVIOUS
<1>1. CASE /\ At(doc, CertificatesKey) = {}
           /\ new = Put(Put(doc, CertificatesKey, List, clock + 1),
                        Element(clock + 1, clock + 2), Bytes(unit), clock + 2)
  <2> DEFINE ready == Put(doc, CertificatesKey, List, clock + 1)
  <2>1. Edit(doc, ready)
    BY RootAside DEF Edit, CertificatesKey
  <2>2. Aside(Element(clock + 1, clock + 2))
    BY KeysAreShaped DEF Aside, Element
  <2> HIDE DEF ready
  <2>3. Edit(ready, Put(ready, Element(clock + 1, clock + 2), Bytes(unit), clock + 2))
    BY <2>2, NewElement DEF Edit
  <2> QED  BY <1>1, <2>1, <2>3 DEF Edited, ready
<1>2. ASSUME HasList(doc), NEW id, id = clock + 2 \/ id \in ElementsOf(doc, ListOf(doc)),
             new = Put(doc, Element(ListOf(doc), id), Bytes(unit), clock + 2)
      PROVE  Edited(doc, new)
  <2>1. ListOf(doc) \in ObjectAt(doc, CertificatesKey, "List")
    BY <1>2, LocateIs
  <2>2. Aside(Element(ListOf(doc), id))
    BY <2>1, ListAside
  <2>3. Placed(doc, Element(ListOf(doc), id))
    <3>1. CASE id = clock + 2
      BY <3>1, NewElement
    <3>2. CASE id \in ElementsOf(doc, ListOf(doc))
      <4>1. PICK w \in doc.live : id = w.key.element
        BY <3>2 DEF ElementsOf, Keys
      <4> QED  BY <4>1 DEF Placed, Element
    <3> QED  BY <1>2, <3>1, <3>2
  <2> QED  BY <1>2, <2>2, <2>3, PutEdits
<1> QED  BY <1>0, <1>1, <1>2, PutCertificateIs

LEMMA WritesRewrite ==
    ASSUME NEW p, NEW d, NEW a, NEW outcomes, Write(p, d, a, outcomes)
    PROVE  a \in DOMAIN docs[d] /\ \E doc \in outcomes : Rewritten(d, a, doc)
BY DEF Write, Rewritten

\* Whatever a device does of its own accord.
LEMMA CommandsEdit ==
    ASSUME Shape, NEW d \in Device, Own \in DOMAIN docs[d]
    PROVE  /\ \A path : Unpin(d, path) =>
                 \E doc : Edited(OwnDoc(d), doc) /\ Rewritten(d, Own, doc) /\ UNCHANGED decided
           /\ \A path, target : Pin(d, path, target) =>
                 \E doc : Edited(OwnDoc(d), doc) /\ Rewritten(d, Own, doc) /\ UNCHANGED decided
           /\ \A from, to : RenamePetname(d, from, to) =>
                 \E doc : Edited(OwnDoc(d), doc) /\ Rewritten(d, Own, doc) /\ UNCHANGED decided
           /\ \A unit : StoreCertificate(d, unit) =>
                 \E doc : Edited(OwnDoc(d), doc) /\ Rewritten(d, Own, doc) /\ UNCHANGED decided
           /\ \A w \in Foreign[part] : ForeignWrite(d, w[1], w[2]) =>
                 \E doc : Edited(OwnDoc(d), doc) /\ Rewritten(d, Own, doc) /\ UNCHANGED decided
<1>0. clock \in Nat /\ clock >= 10 /\ OwnShape(OwnDoc(d), clock)
  BY DEF Shape
<1>1. ASSUME NEW path, Unpin(d, path)
      PROVE  \E doc : Edited(OwnDoc(d), doc) /\ Rewritten(d, Own, doc) /\ UNCHANGED decided
  BY <1>1, WritesRewrite, PetnameEdits DEF Unpin
<1>2. ASSUME NEW path, NEW target, Pin(d, path, target)
      PROVE  \E doc : Edited(OwnDoc(d), doc) /\ Rewritten(d, Own, doc) /\ UNCHANGED decided
  BY <1>2, WritesRewrite, PetnameEdits DEF Pin
<1>3. ASSUME NEW from, NEW to, RenamePetname(d, from, to)
      PROVE  \E doc : Edited(OwnDoc(d), doc) /\ Rewritten(d, Own, doc) /\ UNCHANGED decided
  BY <1>3, WritesRewrite, PetnameEdits DEF RenamePetname
<1>4. ASSUME NEW unit, StoreCertificate(d, unit)
      PROVE  \E doc : Edited(OwnDoc(d), doc) /\ Rewritten(d, Own, doc) /\ UNCHANGED decided
  BY <1>0, <1>4, WritesRewrite, CertificateEdits DEF StoreCertificate
<1>5. ASSUME NEW w \in Foreign[part], ForeignWrite(d, w[1], w[2])
      PROVE  \E doc : Edited(OwnDoc(d), doc) /\ Rewritten(d, Own, doc) /\ UNCHANGED decided
  <2>1. Aside(w[1]) /\ Placed(OwnDoc(d), w[1])
    BY <1>5, RootAside, DocumentsAssumption DEF Shape
  <2> QED  BY <1>5, <2>1, WritesRewrite, PutEdits DEF ForeignWrite
<1> QED  BY <1>1, <1>2, <1>3, <1>4, <1>5

LEMMA ToolsEdit ==
    ASSUME Shape, NEW d \in Device, Own \in DOMAIN docs[d]
    PROVE  /\ \A raw, hash : WriteReset(d, raw, hash) =>
                 \E doc : Edited(OwnDoc(d), doc) /\ Rewritten(d, Own, doc) /\ UNCHANGED decided
           /\ \A raw, document : WriteClaim(d, raw, document) =>
                 \E doc : Edited(OwnDoc(d), doc) /\ Rewritten(d, Own, doc) /\ UNCHANGED decided
           /\ ForeignEntry(d) =>
                 \E doc : Edited(OwnDoc(d), doc) /\ Rewritten(d, Own, doc) /\ UNCHANGED decided
           /\ \A raw, document, cited :
                 WriteAcceptance(d, raw, document, cited) => Acceptance(d, raw, document, cited)
<1>0. clock \in Nat /\ clock >= 10 /\ OwnShape(OwnDoc(d), clock)
  BY DEF Shape
<1>1. ASSUME NEW raw, NEW hash, WriteReset(d, raw, hash)
      PROVE  \E doc : Edited(OwnDoc(d), doc) /\ Rewritten(d, Own, doc) /\ UNCHANGED decided
  <2>1. PICK m \in Field(OwnDoc(d), "resets", "Map") :
          LET key == Key(m, raw)
              lists == ObjectAt(OwnDoc(d), key, "List")
              ready == IF lists = {} THEN Put(OwnDoc(d), key, List, clock + 1) ELSE OwnDoc(d)
              list == IF lists = {} THEN clock + 1 ELSE CHOOSE l \in lists : TRUE
          IN  Write("decisions", d, Own, {Push(ready, list, Bytes(hash), clock + 2)})
    BY <1>1 DEF WriteReset
  <2> DEFINE key == Key(m, raw)
             lists == ObjectAt(OwnDoc(d), key, "List")
             ready == IF lists = {} THEN Put(OwnDoc(d), key, List, clock + 1) ELSE OwnDoc(d)
             list == IF lists = {} THEN clock + 1 ELSE CHOOSE l \in lists : TRUE
  <2>2. Aside(key) /\ Placed(OwnDoc(d), key)
    BY <1>0, FieldFacts, KeysAreShaped DEF Aside, Placed, Key
  <2>3. Aside(Element(list, clock + 2))
    <3>1. CASE lists = {}
      BY <3>1, <1>0, KeysAreShaped DEF Aside, Element
    <3>2. CASE lists # {}
      BY <3>2, <1>0, ListAside
    <3> QED  BY <3>1, <3>2
  <2>4. Edit(OwnDoc(d), ready)
    BY <2>2 DEF Edit
  <2>5. Write("decisions", d, Own, {Push(ready, list, Bytes(hash), clock + 2)})
    BY <2>1
  <2> HIDE DEF list, ready
  <2>6. Edit(ready, Push(ready, list, Bytes(hash), clock + 2))
    BY <2>3, NewElement DEF Edit, Push
  <2> QED  BY <1>1, <2>4, <2>5, <2>6, WritesRewrite DEF Edited, WriteReset
<1>2. ASSUME NEW raw, NEW document, WriteClaim(d, raw, document)
      PROVE  \E doc : Edited(OwnDoc(d), doc) /\ Rewritten(d, Own, doc) /\ UNCHANGED decided
  <2>1. PICK l \in Field(OwnDoc(d), "claims", "List") :
          Write("decisions", d, Own, {Push(OwnDoc(d), l, ClaimEntry(raw, document), clock + 1)})
    BY <1>2 DEF WriteClaim
  <2>2. Aside(Element(l, clock + 1))
    BY <1>0, ListAside DEF Field
  <2>3. Edited(OwnDoc(d), Push(OwnDoc(d), l, ClaimEntry(raw, document), clock + 1))
    BY <2>2, NewElement, PutEdits DEF Push
  <2> QED  BY <1>2, <2>1, <2>3, WritesRewrite DEF WriteClaim
<1>3. ASSUME ForeignEntry(d)
      PROVE  \E doc : Edited(OwnDoc(d), doc) /\ Rewritten(d, Own, doc) /\ UNCHANGED decided
  <2>1. PICK l \in ObjectAt(OwnDoc(d), CertificatesKey, "List") :
          Write("certificates", d, Own, {Push(OwnDoc(d), l, Other, clock + 1)})
    BY <1>3 DEF ForeignEntry
  <2>2. Aside(Element(l, clock + 1))
    BY <1>0, ListAside
  <2>3. Edited(OwnDoc(d), Push(OwnDoc(d), l, Other, clock + 1))
    BY <2>2, NewElement, PutEdits DEF Push
  <2> QED  BY <1>3, <2>1, <2>3, WritesRewrite DEF ForeignEntry
<1>4. ASSUME NEW raw, NEW document, NEW cited, WriteAcceptance(d, raw, document, cited)
      PROVE  Acceptance(d, raw, document, cited)
  BY <1>4, WritesRewrite DEF WriteAcceptance, Acceptance
<1> QED  BY <1>1, <1>2, <1>3, <1>4

LEMMA BindEdits ==
    ASSUME NEW d, NEW anchor, NEW path, NEW target, Bind(d, anchor, path, target)
    PROVE  \E a \in DOMAIN docs[d] : \E doc :
              Edited(docs[d][a].doc, doc) /\ Rewritten(d, a, doc) /\ UNCHANGED decided
<1>1. PICK a, p, t : /\ a \in DOMAIN docs[d]
                     /\ Write("names", d, a, {Put(docs[d][a].doc, Root(p), Reference(t), clock + 1)})
  BY DEF Bind
<1>2. Edited(docs[d][a].doc, Put(docs[d][a].doc, Root(p), Reference(t), clock + 1))
  BY RootAside, PutEdits
<1> QED  BY <1>1, <1>2, WritesRewrite DEF Bind

LEMMA CopiesAreObtainable ==
    ASSUME Shape, NEW d \in Device
    PROVE  /\ d \in Native => \A x \in Arriving :
                 Replicate(d, x.doc, x.carriage) => \E a, r : Obtain(d, a, r) /\ Obtainable(d, a, r)
           /\ d \in Native => \A e \in Device :
                 Sync(d, e) => \E a, r : Obtain(d, a, r) /\ Obtainable(d, a, r)
           /\ \A a : CreateDocument(d, a) => \E r : Obtain(d, a, r) /\ Obtainable(d, a, r)
           /\ \A anchor : HoldAt(d, anchor) => \E a, r : Obtain(d, a, r) /\ Obtainable(d, a, r)
           /\ d \in Browser => \A anchor : \A e \in Device :
                 Hold(d, anchor, e) => \E a, r : Obtain(d, a, r) /\ Obtainable(d, a, r)
<1>1. ASSUME d \in Native, NEW x \in Arriving, Replicate(d, x.doc, x.carriage)
      PROVE  \E a, r : Obtain(d, a, r) /\ Obtainable(d, a, r)
  <2>1. x.doc \in DOMAIN Library \ {Own}
    BY <1>1, DocumentsAssumption DEF Shape, Replicate
  <2> QED  BY <1>1, <2>1 DEF Replicate, Obtainable
<1>2. ASSUME d \in Native, NEW e \in Device, Sync(d, e)
      PROVE  \E a, r : Obtain(d, a, r) /\ Obtainable(d, a, r)
  <2>1. docs[d][Own] = Replica(docs[d][Own].doc, docs[d][Own].carriage)
    BY <1>2 DEF Shape
  <2>2. [docs[d][Own] EXCEPT !.doc = MergeDocs(@, docs[e][Own].doc)]
            = Replica(MergeDocs(OwnDoc(d), OwnDoc(e)), docs[d][Own].carriage)
    BY <2>1 DEF Replica, OwnDoc
  <2> QED  BY <1>2, <2>2 DEF Sync, Obtainable
<1>3. ASSUME NEW a, CreateDocument(d, a)
      PROVE  \E r : Obtain(d, a, r) /\ Obtainable(d, a, r)
  BY <1>3 DEF CreateDocument, Obtainable
<1>4. ASSUME NEW anchor, HoldAt(d, anchor)
      PROVE  \E a, r : Obtain(d, a, r) /\ Obtainable(d, a, r)
  BY <1>4 DEF HoldAt, Obtainable
<1>5. ASSUME d \in Browser, NEW anchor, NEW e \in Device, Hold(d, anchor, e)
      PROVE  \E a, r : Obtain(d, a, r) /\ Obtainable(d, a, r)
  BY <1>5 DEF Hold, Obtainable
<1> QED  BY <1>1, <1>2, <1>3, <1>4, <1>5

\* Each step edits one document, decides, or obtains one.
LEMMA StepsAre ==
    ASSUME Shape, Next
    PROVE  \E d \in Device :
              \/ \E a \in DOMAIN docs[d] : \E doc :
                    Edited(docs[d][a].doc, doc) /\ Rewritten(d, a, doc) /\ UNCHANGED decided
              \/ \E raw, document, cited : Acceptance(d, raw, document, cited)
              \/ \E a, replica : Obtain(d, a, replica) /\ Obtainable(d, a, replica)
<1> DEFINE Goal == \E d \in Device :
              \/ \E a \in DOMAIN docs[d] : \E doc :
                    Edited(docs[d][a].doc, doc) /\ Rewritten(d, a, doc) /\ UNCHANGED decided
              \/ \E raw, document, cited : Acceptance(d, raw, document, cited)
              \/ \E a, replica : Obtain(d, a, replica) /\ Obtainable(d, a, replica)
<1>0. Native \subseteq Device /\ Browser \subseteq Device
  BY DEF Device
<1>1. ASSUME NEW d \in Native,
             \/ \E p \in Path : Unpin(d, p) \/ \E t \in Target : Pin(d, p, t)
             \/ \E p, q \in Path : RenamePetname(d, p, q)
      PROVE  Goal
  <2>1. Own \in DOMAIN docs[d] /\ d \in Device
    BY <1>0 DEF Shape
  <2> QED  BY <1>1, <2>1, CommandsEdit DEF OwnDoc
<1>2. ASSUME NEW d \in Native,
             \/ \E x \in Arriving : Replicate(d, x.doc, x.carriage)
             \/ \E e \in Device \ {d} : Sync(d, e)
      PROVE  Goal
  BY <1>0, <1>2, CopiesAreObtainable
<1>3. ASSUME NEW d \in Browser, \E a, t \in AnchorText, p \in PathText : Bind(d, a, p, t)
      PROVE  Goal
  BY <1>0, <1>3, BindEdits
<1>4. ASSUME NEW d \in Browser,
             \/ \E a \in Fresh : CreateDocument(d, a)
             \/ \E a \in AnchorText : HoldAt(d, a) \/ \E e \in Device \ {d} : Hold(d, a, e)
      PROVE  Goal
  BY <1>0, <1>4, CopiesAreObtainable
<1>5. ASSUME NEW d \in Device, Own \in DOMAIN docs[d],
             \/ \E w \in Foreign[part] : ForeignWrite(d, w[1], w[2])
             \/ \E u \in Unit : StoreCertificate(d, u)
      PROVE  Goal
  BY <1>5, CommandsEdit DEF OwnDoc
<1>6. ASSUME NEW d \in Device, Own \in DOMAIN docs[d],
             \/ \E raw \in HostText :
                   \/ \E x \in Entry : WriteAcceptance(d, raw, x.document, x.cited)
                   \/ \E h \in Hash : WriteReset(d, raw, h)
                   \/ \E a \in Claimed : WriteClaim(d, raw, a)
             \/ ForeignEntry(d)
      PROVE  Goal
  BY <1>6, ToolsEdit DEF OwnDoc
<1> HIDE DEF Goal
<1>7. Goal
  BY <1>1, <1>2, <1>3, <1>4, <1>5, <1>6 DEF Next
<1> QED  BY <1>7 DEF Goal

-----------------------------------------------------------------------------
(* The shape of what devices hold. *)

LEMMA ShapeGrows ==
    ASSUME NEW doc, NEW c \in Nat, NEW e \in Nat, c <= e, OwnShape(doc, c)
    PROVE  OwnShape(doc, e)
BY DEF OwnShape

LEMMA ShapeInit == Init => Shape
<1> SUFFICES ASSUME Init  PROVE  Shape
  OBVIOUS
<1>1. ASSUME NEW d \in Device
      PROVE  /\ docs[d] = [a \in {Own : n \in {d} \cap Native} |-> Replica(Skeleton, "None")]
             /\ d \in Native => DOMAIN docs[d] = {Own} /\ docs[d][Own] = Replica(Skeleton, "None")
             /\ d \notin Native => DOMAIN docs[d] = {}
  BY DEF Init
<1>2. \A d \in Device : docs[d] = [a \in DOMAIN docs[d] |-> docs[d][a]]
  BY <1>1
<1>4. OwnShape(Skeleton, 10)
  BY SkeletonShape
<1>5. IsDocument(Skeleton)
  BY <1>4 DEF OwnShape
<1>6. Replica(Skeleton, "None").doc = Skeleton /\ Replica(Skeleton, "None").carriage = "None"
  BY DEF Replica
<1>7. ASSUME NEW d \in Device, NEW a \in DOMAIN docs[d]
      PROVE  /\ a = Own /\ d \in Native
             /\ docs[d][a] = Replica(Skeleton, "None")
  BY <1>1
<1>8. docs = [d \in Device |-> docs[d]]
  BY DEF Init
<1>9. clock = 10 /\ part \in Parts
  BY DEF Init
<1>10. ASSUME NEW d \in Device, NEW a \in DOMAIN docs[d]
       PROVE  /\ docs[d][a] = Replica(docs[d][a].doc, docs[d][a].carriage)
              /\ IsDocument(docs[d][a].doc) /\ docs[d][a].carriage = "None"
  BY <1>5, <1>6, <1>7
<1>11. ASSUME NEW d \in Device, Own \in DOMAIN docs[d]  PROVE  OwnShape(OwnDoc(d), clock)
  BY <1>4, <1>6, <1>7, <1>9, <1>11 DEF OwnDoc
<1>12. \A d \in Device : d \in Native => Own \in DOMAIN docs[d]
  BY <1>1
<1>13. clock \in Nat /\ clock >= 10 /\ part \in Parts
  BY <1>9
<1> QED  BY <1>2, <1>8, <1>10, <1>11, <1>12, <1>13 DEF Shape

\* One replica is replaced or added, and the others are left as they are.
Changed(d, a, replica) ==
    /\ docs' = [x \in Device |-> IF x = d THEN docs'[d] ELSE docs[x]]
    /\ docs'[d] = [b \in DOMAIN docs[d] \cup {a} |-> IF b = a THEN replica ELSE docs[d][b]]

LEMMA RewrittenChanges ==
    ASSUME Shape, NEW d \in Device, NEW a \in DOMAIN docs[d], NEW doc, Rewritten(d, a, doc)
    PROVE  Changed(d, a, Replica(doc, docs[d][a].carriage))
<1>1. docs' = [docs EXCEPT ![d] = [docs[d] EXCEPT ![a] = [docs[d][a] EXCEPT !.doc = doc]]]
  BY DEF Rewritten
<1>2. docs[d][a] = [doc |-> docs[d][a].doc, carriage |-> docs[d][a].carriage]
  BY DEF Shape, Replica
<1>3. [docs[d][a] EXCEPT !.doc = doc] = Replica(doc, docs[d][a].carriage)
  BY <1>2 DEF Replica
<1>4. docs[d] = [b \in DOMAIN docs[d] |-> docs[d][b]] /\ docs = [x \in Device |-> docs[x]]
  BY DEF Shape
<1>5. [docs[d] EXCEPT ![a] = Replica(doc, docs[d][a].carriage)]
         = [b \in DOMAIN docs[d] \cup {a} |-> IF b = a THEN Replica(doc, docs[d][a].carriage) ELSE docs[d][b]]
  BY <1>4
<1>6. docs' = [docs EXCEPT ![d] = [b \in DOMAIN docs[d] \cup {a} |->
                 IF b = a THEN Replica(doc, docs[d][a].carriage) ELSE docs[d][b]]]
  BY <1>1, <1>3, <1>5
<1> QED  BY <1>4, <1>6 DEF Changed

LEMMA ObtainChanges ==
    ASSUME Shape, NEW d \in Device, NEW a, NEW replica, Obtain(d, a, replica)
    PROVE  Changed(d, a, replica)
<1>1. docs = [x \in Device |-> docs[x]]
  BY DEF Shape
<1> QED  BY <1>1 DEF Changed, Obtain

LEMMA ShapeKept ==
    ASSUME Shape, NEW d \in Device, NEW a, NEW replica, Changed(d, a, replica),
           clock' \in Nat, clock <= clock', part' = part,
           replica = Replica(replica.doc, replica.carriage), IsDocument(replica.doc),
           a = Own => OwnShape(replica.doc, clock'),
           d \in Browser => replica.carriage = "None"
    PROVE  Shape'
<1>1. \A x \in Device : x # d => docs'[x] = docs[x]
  BY DEF Changed
<1>2. /\ DOMAIN docs'[d] = DOMAIN docs[d] \cup {a} /\ docs'[d][a] = replica
      /\ \A b \in DOMAIN docs[d] : b # a => docs'[d][b] = docs[d][b]
  BY DEF Changed
<1>3. ASSUME NEW x \in Device, Own \in DOMAIN docs'[x]  PROVE  OwnShape(OwnDoc(x)', clock')
  <2>1. CASE x = d /\ a = Own
    BY <2>1, <1>2 DEF OwnDoc
  <2>2. CASE ~(x = d /\ a = Own)
    <3>1. Own \in DOMAIN docs[x] /\ docs'[x][Own] = docs[x][Own]
      BY <2>2, <1>1, <1>2, <1>3
    <3> QED  BY <3>1, ShapeGrows DEF Shape, OwnDoc
  <2> QED  BY <2>1, <2>2
<1>4. ASSUME NEW x \in Device, NEW b \in DOMAIN docs'[x]
      PROVE  /\ docs'[x][b] = Replica(docs'[x][b].doc, docs'[x][b].carriage)
             /\ IsDocument(docs'[x][b].doc)
             /\ x \in Browser => docs'[x][b].carriage = "None"
  <2>1. CASE x = d /\ b = a
    BY <2>1, <1>2
  <2>2. CASE ~(x = d /\ b = a)
    <3>1. b \in DOMAIN docs[x] /\ docs'[x][b] = docs[x][b]
      BY <2>2, <1>1, <1>2, <1>4
    <3> QED  BY <3>1 DEF Shape
  <2> QED  BY <2>1, <2>2
<1>5. \A x \in Device : docs'[x] = [b \in DOMAIN docs'[x] |-> docs'[x][b]]
  BY <1>1 DEF Changed, Shape
<1>6. docs' = [x \in Device |-> docs'[x]]
  BY DEF Changed
<1>7. \A x \in Device : x \in Native => Own \in DOMAIN docs'[x]
  BY <1>1, <1>2 DEF Shape
<1>8. clock' >= 10 /\ part' \in Parts
  BY DEF Shape
<1> QED  BY <1>3, <1>4, <1>5, <1>6, <1>7, <1>8 DEF Shape

LEMMA ReplicaFacts ==
    \A doc, carriage : /\ Replica(doc, carriage).doc = doc /\ Replica(doc, carriage).carriage = carriage
                       /\ Replica(doc, carriage)
                             = Replica(Replica(doc, carriage).doc, Replica(doc, carriage).carriage)
BY DEF Replica

LEMMA AcceptanceShape ==
    ASSUME NEW doc, clock \in Nat, clock >= 10, OwnShape(doc, clock), NEW raw, NEW value
    PROVE  OwnShape(Put(doc, Key(4, raw), value, clock + 1), clock + 2)
<1> DEFINE s == clock + 1
           y == Put(doc, Key(4, raw), value, s)
<1>1. y.live = {w \in doc.live : w.key # Key(4, raw)} \cup {New(Key(4, raw), value, s)}
      /\ y.seen = doc.seen \cup {s}
  BY PutFacts
<1>2. IsDocument(y)
  BY PutIsDocument, KeysAreShaped DEF OwnShape
<1>3. s \in 1..clock + 2 /\ s > 5
  OBVIOUS
<1>4. y.seen \subseteq 1..clock + 2
  BY <1>1, <1>3 DEF OwnShape
<1>5. ASSUME NEW w \in y.live
      PROVE  /\ w.stamp <= 5 \/ w.key.object = 1 => w \in Laid
             /\ w.key.prop # <<>> => w.key.object \in {RootObject, 1, 4, 5}
             /\ w.key.element \in 0..clock + 2
  <2>1. CASE w \in doc.live
    BY <2>1 DEF OwnShape
  <2>2. CASE w = New(Key(4, raw), value, s)
    BY <2>2, <1>3 DEF New, Key
  <2> QED  BY <2>1, <2>2, <1>1
<1>6. ASSUME NEW w \in Laid, 1..5 \cap y.seen # {}
      PROVE  w.stamp \in y.seen /\ (w.stamp # 1 => w \in y.live)
  <2>1. 1..5 \cap doc.seen # {}
    BY <1>1, <1>3, <1>6
  <2>2. w.key # Key(4, raw)
    BY LaidFacts DEF Key
  <2> QED  BY <2>1, <2>2, <1>1 DEF OwnShape
<1> HIDE DEF y
<1>7. OwnShape(y, clock + 2)
  BY <1>2, <1>4, <1>5, <1>6 DEF OwnShape
<1> QED  BY <1>7 DEF y

LEMMA RewriteKeepsShape ==
    ASSUME Shape, NEW d \in Device, NEW a \in DOMAIN docs[d], NEW doc, Rewritten(d, a, doc),
           IsDocument(doc), a = Own => OwnShape(doc, clock + 2)
    PROVE  Shape'
<1>1. Changed(d, a, Replica(doc, docs[d][a].carriage))
  BY RewrittenChanges
<1>2. clock' = clock + 2 /\ clock \in Nat /\ part' = part
  BY DEF Rewritten, Shape
<1>3. d \in Browser => docs[d][a].carriage = "None"
  BY DEF Shape
<1> QED  BY <1>1, <1>2, <1>3, ShapeKept, ReplicaFacts

LEMMA ObtainKeepsShape ==
    ASSUME Shape, NEW d \in Device, NEW a, NEW replica,
           Obtain(d, a, replica), Obtainable(d, a, replica)
    PROVE  Shape'
<1>0. clock \in Nat /\ clock' = clock /\ part' = part
  BY DEF Shape, Obtain
<1>1. Changed(d, a, replica)
  BY ObtainChanges
<1>2. CASE replica = Replica(Blank, "None")
  BY <1>0, <1>1, <1>2, ShapeKept, ReplicaFacts, BlankShape, BlankIsDocument
<1>3. CASE /\ d \in Native /\ a \in DOMAIN Library \ {Own}
           /\ \E carriage : replica = Replica(Library[a], carriage)
  <2>1. d \notin Browser /\ IsDocument(Library[a])
    BY <1>3, DocumentsAssumption
  <2> QED  BY <1>0, <1>1, <1>3, <2>1, ShapeKept, ReplicaFacts
<1>4. CASE d \in Browser /\ \E e \in Device : a \in DOMAIN docs[e] /\ replica = Replica(docs[e][a].doc, "None")
  <2>1. PICK e \in Device : a \in DOMAIN docs[e] /\ replica = Replica(docs[e][a].doc, "None")
    BY <1>4
  <2>2. IsDocument(docs[e][a].doc) /\ (a = Own => OwnShape(docs[e][a].doc, clock))
    BY <2>1 DEF Shape, OwnDoc
  <2> QED  BY <1>0, <1>1, <2>1, <2>2, ShapeKept, ReplicaFacts
<1>5. CASE /\ d \in Native /\ a = Own
           /\ \E e \in Device : /\ Own \in DOMAIN docs[e]
                                /\ replica = Replica(MergeDocs(OwnDoc(d), OwnDoc(e)), docs[d][Own].carriage)
  <2>1. PICK e \in Device : /\ Own \in DOMAIN docs[e]
                            /\ replica = Replica(MergeDocs(OwnDoc(d), OwnDoc(e)), docs[d][Own].carriage)
    BY <1>5
  <2>2. OwnShape(MergeDocs(OwnDoc(d), OwnDoc(e)), clock)
    BY <1>5, <2>1, MergeShape DEF Shape
  <2>3. IsDocument(MergeDocs(OwnDoc(d), OwnDoc(e))) /\ d \notin Browser
    BY <1>5, <2>2, DocumentsAssumption DEF OwnShape
  <2> QED  BY <1>0, <1>1, <1>5, <2>1, <2>2, <2>3, ShapeKept, ReplicaFacts
<1> QED  BY <1>2, <1>3, <1>4, <1>5 DEF Obtainable

\* What an acceptance makes of the document it is written to.
LEMMA AcceptanceIs ==
    ASSUME Shape, NEW d \in Device, NEW raw, NEW document, NEW cited,
           Acceptance(d, raw, document, cited)
    PROVE  /\ Own \in DOMAIN docs[d]
           /\ Rewritten(d, Own, Put(OwnDoc(d), Key(4, raw), AcceptanceEntry(document, cited), clock + 1))
           /\ OwnShape(Put(OwnDoc(d), Key(4, raw), AcceptanceEntry(document, cited), clock + 1), clock + 2)
<1>1. OwnShape(OwnDoc(d), clock) /\ clock \in Nat /\ clock >= 10
  BY DEF Shape, Acceptance
<1>2. \A m \in Field(OwnDoc(d), "acceptances", "Map") : m = 4
  BY <1>1, FieldFacts
<1> QED  BY <1>1, <1>2, AcceptanceShape DEF Acceptance

LEMMA ShapeNext == Shape /\ [Next]_vars => Shape'
<1> SUFFICES ASSUME Shape, [Next]_vars  PROVE  Shape'
  OBVIOUS
<1>1. CASE UNCHANGED vars
  BY <1>1 DEF vars, Shape, OwnDoc
<1>2. CASE Next
  <2>1. PICK d \in Device :
              \/ \E a \in DOMAIN docs[d] : \E doc :
                    Edited(docs[d][a].doc, doc) /\ Rewritten(d, a, doc) /\ UNCHANGED decided
              \/ \E raw, document, cited : Acceptance(d, raw, document, cited)
              \/ \E a, replica : Obtain(d, a, replica) /\ Obtainable(d, a, replica)
    BY <1>2, StepsAre
  <2>2. ASSUME NEW a \in DOMAIN docs[d], NEW doc, Edited(docs[d][a].doc, doc), Rewritten(d, a, doc)
        PROVE  Shape'
    <3>1. IsDocument(doc)
      BY <2>2, EditIsDocument DEF Shape
    <3>2. ASSUME a = Own  PROVE  OwnShape(doc, clock + 2)
      <4>1. clock \in Nat /\ clock >= 10 /\ OwnShape(docs[d][a].doc, clock)
        BY <3>2 DEF Shape, OwnDoc
      <4>2. OwnShape(docs[d][a].doc, clock + 2)
        BY <4>1, ShapeGrows
      <4> QED  BY <2>2, <4>1, <4>2, EditShape
    <3> QED  BY <2>2, <3>1, <3>2, RewriteKeepsShape
  <2>3. ASSUME NEW raw, NEW document, NEW cited, Acceptance(d, raw, document, cited)
        PROVE  Shape'
    BY <2>3, AcceptanceIs, RewriteKeepsShape DEF OwnShape
  <2> QED  BY <2>1, <2>2, <2>3, ObtainKeepsShape
<1> QED  BY <1>1, <1>2

LEMMA ShapeAlways == Spec => []Shape
<1> QED  BY ShapeInit, ShapeNext, PTL DEF Spec

-----------------------------------------------------------------------------
(* Reading a namestore. *)

Top(writes) == CHOOSE w \in writes : \A x \in writes : x.stamp <= w.stamp

LEMMA ReadIs ==
    ASSUME NEW doc
    PROVE  /\ Read(doc).malformed = {k \in Props(doc, RootObject) : ~IsPathKey(k)}
           /\ Read(doc).edges =
                 UNION {{<<k, t>> : t \in Bare(Top(At(doc, Root(k))).value)}
                          : k \in {x \in Props(doc, RootObject) : IsPathKey(x)}}
           /\ Read(doc).conflicts =
                 UNION {{<<k, t>> : t \in UNION {Bare(w.value) : w \in At(doc, Root(k)) \ {Top(At(doc, Root(k)))}}}
                          : k \in {x \in Props(doc, RootObject) : IsPathKey(x)}}
BY DEF Read, ReadWith, Top

LEMMA LookupIs ==
    ASSUME NEW doc, NEW path, path # <<>>, At(doc, Root(path)) # {}
    PROVE  Lookup(doc, path) = Bare(Top(At(doc, Root(path))).value)
BY DEF Lookup, Value, Winner, Top

LEMMA PropsAre ==
    ASSUME NEW doc, IsDocument(doc)
    PROVE  /\ \A path : path \in Props(doc, RootObject) <=> At(doc, Root(path)) # {}
           /\ \A w \in doc.live : w.key.object = RootObject /\ w.key.element = 0
                                   => w.key = Root(w.key.prop)
<1>1. ASSUME NEW w \in doc.live, w.key.object = RootObject, w.key.element = 0
      PROVE  w.key = Root(w.key.prop)
  <2>1. w.key = [object |-> w.key.object, prop |-> w.key.prop, element |-> w.key.element]
    BY DEF IsDocument
  <2> QED  BY <1>1, <2>1 DEF Root, Key
<1>2. ASSUME NEW path, path \in Props(doc, RootObject)  PROVE  At(doc, Root(path)) # {}
  <2>1. PICK w \in doc.live : w.key.object = RootObject /\ w.key.element = 0 /\ path = w.key.prop
    BY <1>2 DEF Props, Keys
  <2> QED  BY <2>1, <1>1 DEF At
<1>3. ASSUME NEW path, At(doc, Root(path)) # {}  PROVE  path \in Props(doc, RootObject)
  <2>1. PICK w \in doc.live : w.key = Root(path)
    BY <1>3 DEF At
  <2>2. w.key \in Keys(doc)
    BY DEF Keys
  <2> QED  BY <2>1, <2>2, KeysAreShaped DEF Props
<1> QED  BY <1>1, <1>2, <1>3

LEMMA ReadAgrees ==
    ASSUME NEW doc, IsDocument(doc)
    PROVE  /\ \A path \in Props(doc, RootObject) \ Read(doc).malformed :
                 Lookup(doc, path) = {e[2] : e \in {x \in Read(doc).edges : x[1] = path}}
           /\ \A w \in doc.live :
                 w.key.object = RootObject /\ IsPathKey(w.key.prop) /\ w.value.kind = "Reference"
                 => <<w.key.prop, w.value.target>> \in Read(doc).edges \cup Read(doc).conflicts
<1>1. ASSUME NEW path \in Props(doc, RootObject) \ Read(doc).malformed
      PROVE  Lookup(doc, path) = {e[2] : e \in {x \in Read(doc).edges : x[1] = path}}
  <2>1. IsPathKey(path) /\ path # <<>>
    BY ReadIs DEF IsPathKey
  <2> DEFINE L == Bare(Top(At(doc, Root(path))).value)
             E == Read(doc).edges
  <2>2. Lookup(doc, path) = L
    BY <2>1, PropsAre, LookupIs
  <2>3. \A t : <<path, t>> \in E <=> t \in L
    BY <2>1, ReadIs
  <2>4. \A e \in E : e = <<e[1], e[2]>>
    BY ReadIs
  <2> HIDE DEF L, E
  <2>5. \A t : t \in L <=> \E e \in E : e[1] = path /\ e[2] = t
    <3>1. ASSUME NEW t \in L  PROVE  \E e \in E : e[1] = path /\ e[2] = t
      <4>1. <<path, t>> \in E
        BY <2>3
      <4> QED  BY <4>1
    <3>2. ASSUME NEW e \in E, e[1] = path  PROVE  e[2] \in L
      <4>1. <<path, e[2]>> \in E
        BY <2>4, <3>2
      <4> QED  BY <4>1, <2>3
    <3> QED  BY <3>1, <3>2
  <2>6. L = {e[2] : e \in {x \in E : x[1] = path}}
    BY <2>5
  <2> QED  BY <2>2, <2>6 DEF E
<1>2. ASSUME NEW w \in doc.live, w.key.object = RootObject, IsPathKey(w.key.prop),
             w.value.kind = "Reference"
      PROVE  <<w.key.prop, w.value.target>> \in Read(doc).edges \cup Read(doc).conflicts
  <2>1. w.key.element = 0
    BY <1>2 DEF IsDocument, IsPathKey
  <2>2. w \in At(doc, Root(w.key.prop)) /\ w.key.prop \in Props(doc, RootObject)
    BY <1>2, <2>1, PropsAre DEF At
  <2>3. Bare(w.value) = {w.value.target}
    BY <1>2 DEF Bare
  <2>4. CASE w = Top(At(doc, Root(w.key.prop)))
    BY <1>2, <2>2, <2>3, <2>4, ReadIs
  <2>5. CASE w # Top(At(doc, Root(w.key.prop)))
    BY <1>2, <2>2, <2>3, <2>5, ReadIs
  <2> QED  BY <2>4, <2>5
<1> QED  BY <1>1, <1>2

\* namestore.rs read: on every device, the edges that a read reports are those that
\* resolution follows, and no reference is passed over in silence, whoever wrote it and
\* however replicas were merged.
THEOREM ReadsAlwaysAgree == Spec => []ReadsAgree
<1>1. ASSUME Shape  PROVE  ReadsAgree
  BY <1>1, ReadAgrees DEF Shape, ReadsAgree
<1> QED  BY <1>1, ShapeAlways, PTL

-----------------------------------------------------------------------------
(* The decisions in a document. *)

\* The write that an acceptance made.
WriteOf(e) == New(Key(4, e.raw), AcceptanceEntry(e.document, e.cited), e.stamp)

\* Of what was seen, a later decision about the same register knew of this one.
Overruled(e, seen, made) ==
    \E f \in made : f.stamp \in seen /\ f.raw = e.raw /\ e.stamp \in f.saw

\* A replica holds of the acceptances it has seen those that are not overruled, and has
\* seen whatever their writers had seen.
Recorded(doc, made) ==
    /\ \A w \in doc.live : w.key.object = 4 => \E e \in made : w = WriteOf(e)
    /\ \A e \in made : e.stamp \in doc.seen =>
          /\ e.saw \subseteq doc.seen
          /\ WriteOf(e) \in doc.live <=> ~Overruled(e, doc.seen, made)

History ==
    /\ \A e \in decided : e.stamp \in 11..clock /\ e.saw \subseteq 1..clock
    /\ \A d \in Device : Own \in DOMAIN docs[d] => Recorded(OwnDoc(d), decided)

\* Nothing about the decisions tells two documents apart.
Alike(old, new) ==
    /\ \A w : w.key.object = 4 => (w \in old.live <=> w \in new.live)
    /\ \A s \in 1..clock : s \in old.seen <=> s \in new.seen

LEMMA EditAlike ==
    ASSUME NEW old, NEW new, clock \in Nat, IsDocument(old), Edited(old, new)
    PROVE  Alike(old, new)
<1>1. ASSUME NEW x, NEW y, IsDocument(x), Edit(x, y)
      PROVE  Alike(x, y)
  <2>1. CASE y = x
    BY <2>1 DEF Alike
  <2>2. CASE \E k : Aside(k) /\ y = Delete(x, k)
    <3>1. PICK k : Aside(k) /\ y = Delete(x, k)
      BY <2>2
    <3>2. y = [live |-> {w \in x.live : w.key # k}, seen |-> x.seen]
      BY <1>1, <3>1, DeleteFacts DEF IsDocument
    <3>3. y.seen = x.seen /\ \A w : w \in y.live <=> w \in x.live /\ w.key # k
      BY <3>2
    <3> QED  BY <3>1, <3>3 DEF Alike, Aside
  <2>3. CASE \E k : Aside(k) /\ \E v : \E s \in {clock + 1, clock + 2} : y = Put(x, k, v, s)
    <3>1. PICK k, v, s : Aside(k) /\ s \in {clock + 1, clock + 2} /\ y = Put(x, k, v, s)
      BY <2>3
    <3>2. y.live = {w \in x.live : w.key # k} \cup {New(k, v, s)} /\ y.seen = x.seen \cup {s}
      BY <3>1, PutFacts
    <3>3. New(k, v, s).key = k /\ k.object # 4 /\ s \notin 1..clock
      BY <3>1 DEF New, Aside
    <3> QED  BY <3>2, <3>3 DEF Alike
  <2> QED  BY <1>1, <2>1, <2>2, <2>3 DEF Edit
<1>2. PICK mid : Edit(old, mid) /\ Edit(mid, new)
  BY DEF Edited
<1>3. IsDocument(mid)
  BY <1>2, PutIsDocument, DeleteIsDocument DEF Edit, Aside
<1>4. Alike(old, mid) /\ Alike(mid, new)
  BY <1>1, <1>2, <1>3
<1> QED  BY <1>4 DEF Alike

LEMMA RecordedAlike ==
    ASSUME NEW made, NEW old, NEW new, Recorded(old, made), Alike(old, new), clock \in Nat,
           \A e \in made : e.stamp \in 11..clock /\ e.saw \subseteq 1..clock
    PROVE  Recorded(new, made)
<1>0. \A e \in made : WriteOf(e).key.object = 4
  BY DEF WriteOf, New, Key
<1>1. \A e \in made : e.stamp \in 1..clock
  OBVIOUS
<1>2. \A e \in made : e.stamp \in old.seen <=> e.stamp \in new.seen
  BY <1>1 DEF Alike
<1>3. \A e \in made : Overruled(e, old.seen, made) <=> Overruled(e, new.seen, made)
  BY <1>2 DEF Overruled
<1>4. ASSUME NEW e \in made, e.stamp \in new.seen
      PROVE  /\ e.saw \subseteq new.seen
             /\ WriteOf(e) \in new.live <=> ~Overruled(e, new.seen, made)
  BY <1>0, <1>2, <1>3, <1>4 DEF Recorded, Alike
<1>5. \A w \in new.live : w.key.object = 4 => \E e \in made : w = WriteOf(e)
  BY DEF Recorded, Alike
<1> QED  BY <1>4, <1>5 DEF Recorded

LEMMA RecordedMerge ==
    ASSUME NEW made, NEW a, NEW b, Recorded(a, made), Recorded(b, made), IsDocument(a), IsDocument(b)
    PROVE  Recorded(MergeDocs(a, b), made)
<1> DEFINE m == MergeDocs(a, b)
<1>1. /\ m.seen = a.seen \cup b.seen
      /\ \A w : w \in m.live <=> /\ w \in a.live \cup b.live
                                 /\ w \in a.live \/ w.stamp \notin a.seen
                                 /\ w \in b.live \/ w.stamp \notin b.seen
  BY DEF MergeDocs
<1> HIDE DEF m
<1>2. \A w \in m.live : w.key.object = 4 => \E e \in made : w = WriteOf(e)
  BY <1>1 DEF Recorded
<1>3. ASSUME NEW e \in made, e.stamp \in m.seen
      PROVE  e.saw \subseteq m.seen
  BY <1>1, <1>3 DEF Recorded
<1>4. ASSUME NEW e \in made, e.stamp \in m.seen
      PROVE  WriteOf(e) \in m.live <=> ~Overruled(e, m.seen, made)
  <2>0. WriteOf(e).stamp = e.stamp
    BY DEF WriteOf, New
  <2>1. /\ WriteOf(e) \in a.live => e.stamp \in a.seen
        /\ WriteOf(e) \in b.live => e.stamp \in b.seen
    BY <2>0 DEF IsDocument
  <2>2. Overruled(e, m.seen, made) <=> Overruled(e, a.seen, made) \/ Overruled(e, b.seen, made)
    BY <1>1 DEF Overruled
  <2>3. /\ Overruled(e, a.seen, made) => e.stamp \in a.seen
        /\ Overruled(e, b.seen, made) => e.stamp \in b.seen
    BY DEF Overruled, Recorded
  <2>4. /\ e.stamp \in a.seen => (WriteOf(e) \in a.live <=> ~Overruled(e, a.seen, made))
        /\ e.stamp \in b.seen => (WriteOf(e) \in b.live <=> ~Overruled(e, b.seen, made))
    BY DEF Recorded
  <2>5. WriteOf(e) \in m.live <=> /\ WriteOf(e) \in a.live \cup b.live
                                  /\ WriteOf(e) \in a.live \/ e.stamp \notin a.seen
                                  /\ WriteOf(e) \in b.live \/ e.stamp \notin b.seen
    BY <1>1, <2>0
  <2> QED  BY <1>1, <1>4, <2>1, <2>2, <2>3, <2>4, <2>5
<1>5. Recorded(m, made)
  BY <1>2, <1>3, <1>4 DEF Recorded
<1> QED  BY <1>5 DEF m

LEMMA BlankRecorded ==
    \A made : Recorded(Blank, made) /\ (made = {} => Recorded(Skeleton, made))
<1> TAKE made
<1>1. Recorded(Blank, made)
  BY DEF Recorded, Blank
<1>2. ASSUME made = {}  PROVE  Recorded(Skeleton, made)
  <2>1. \A w \in Skeleton.live : w.key.object # 4
    BY LaidFacts, SkeletonIs
  <2> QED  BY <1>2, <2>1 DEF Recorded
<1> QED  BY <1>1, <1>2

\* With an acceptance: in the documents that have not seen it, and in the one it is written to.
LEMMA RecordedAccepts ==
    ASSUME NEW made, NEW doc, NEW g, Recorded(doc, made), IsDocument(doc), clock \in Nat,
           \A e \in made : e.stamp \in 11..clock /\ e.saw \subseteq 1..clock,
           doc.seen \subseteq 1..clock, g.stamp = clock + 1, g.saw \subseteq 1..clock
    PROVE  /\ Recorded(doc, made \cup {g})
           /\ g.saw = doc.seen =>
                 Recorded(Put(doc, Key(4, g.raw), AcceptanceEntry(g.document, g.cited), g.stamp),
                          made \cup {g})
<1>0. g.stamp \notin 1..clock /\ g.stamp \notin g.saw /\ g.stamp \notin doc.seen
  OBVIOUS
<1>1. \A e \in made : Overruled(e, doc.seen, made \cup {g}) <=> Overruled(e, doc.seen, made)
  BY <1>0 DEF Overruled
<1>2. Recorded(doc, made \cup {g})
  <2>1. \A w \in doc.live : w.key.object = 4 => \E e \in made \cup {g} : w = WriteOf(e)
    BY DEF Recorded
  <2>2. ASSUME NEW e \in made \cup {g}, e.stamp \in doc.seen
        PROVE  /\ e.saw \subseteq doc.seen
               /\ WriteOf(e) \in doc.live <=> ~Overruled(e, doc.seen, made \cup {g})
    BY <1>0, <1>1, <2>2 DEF Recorded
  <2> QED  BY <2>1, <2>2 DEF Recorded
<1>3. ASSUME g.saw = doc.seen
      PROVE  Recorded(Put(doc, Key(4, g.raw), AcceptanceEntry(g.document, g.cited), g.stamp),
                      made \cup {g})
  <2> DEFINE new == Put(doc, Key(4, g.raw), AcceptanceEntry(g.document, g.cited), g.stamp)
  <2>1. new.live = {w \in doc.live : w.key # Key(4, g.raw)} \cup {WriteOf(g)}
        /\ new.seen = doc.seen \cup {g.stamp}
    BY PutFacts DEF WriteOf
  <2>2. \A e : WriteOf(e).key = Key(4, e.raw) /\ WriteOf(e).stamp = e.stamp
    BY DEF WriteOf, New
  <2>3. \A e : Key(4, e.raw) = Key(4, g.raw) <=> e.raw = g.raw
    BY DEF Key
  <2> HIDE DEF new
  <2>4. \A w \in new.live : w.key.object = 4 => \E e \in made \cup {g} : w = WriteOf(e)
    BY <2>1 DEF Recorded
  <2>5. ASSUME NEW e \in made, e.stamp \in new.seen
        PROVE  /\ e.saw \subseteq new.seen
               /\ WriteOf(e) \in new.live <=> ~Overruled(e, new.seen, made \cup {g})
    <3>1. e.stamp \in doc.seen /\ e.stamp # g.stamp
      BY <1>0, <2>1, <2>5
    <3>2. e.saw \subseteq doc.seen /\ (WriteOf(e) \in doc.live <=> ~Overruled(e, doc.seen, made))
      BY <3>1 DEF Recorded
    <3>3. Overruled(e, new.seen, made \cup {g}) <=> Overruled(e, doc.seen, made) \/ e.raw = g.raw
      <4>1. \A f \in made : f.stamp # g.stamp
        BY <1>0
      <4> QED  BY <4>1, <3>1, <1>3, <2>1 DEF Overruled
    <3>4. WriteOf(e) \in new.live <=> WriteOf(e) \in doc.live /\ e.raw # g.raw
      BY <3>1, <2>1, <2>2, <2>3
    <3> QED  BY <3>2, <3>3, <3>4, <2>1
  <2>6. g.saw \subseteq new.seen /\ WriteOf(g) \in new.live
    BY <1>3, <2>1
  <2>7. ~Overruled(g, new.seen, made \cup {g})
    BY <1>0 DEF Overruled
  <2>8. Recorded(new, made \cup {g})
    BY <2>4, <2>5, <2>6, <2>7 DEF Recorded
  <2> QED  BY <2>8 DEF new
<1> QED  BY <1>2, <1>3

-----------------------------------------------------------------------------
LEMMA HistoryInit == Init => History
<1> SUFFICES ASSUME Init  PROVE  History
  OBVIOUS
<1>1. decided = {}
  BY DEF Init
<1>2. ASSUME NEW d \in Device, Own \in DOMAIN docs[d]  PROVE  OwnDoc(d) = Skeleton
  BY <1>2 DEF Init, OwnDoc, Replica
<1> QED  BY <1>1, <1>2, BlankRecorded DEF History

\* One replica is replaced, with or without a new decision.
LEMMA HistoryKept ==
    ASSUME History, NEW d \in Device, NEW a, NEW replica, Changed(d, a, replica),
           clock \in Nat, clock' \in Nat, clock <= clock',
           \A e \in decided' : e.stamp \in 11..clock' /\ e.saw \subseteq 1..clock',
           \A x \in Device : Own \in DOMAIN docs[x] => Recorded(OwnDoc(x), decided'),
           a = Own => Recorded(replica.doc, decided')
    PROVE  History'
<1>1. \A x \in Device : x # d => docs'[x] = docs[x]
  BY DEF Changed
<1>2. /\ DOMAIN docs'[d] = DOMAIN docs[d] \cup {a} /\ docs'[d][a] = replica
      /\ \A b \in DOMAIN docs[d] : b # a => docs'[d][b] = docs[d][b]
  BY DEF Changed
<1>3. ASSUME NEW x \in Device, Own \in DOMAIN docs'[x]
      PROVE  Recorded(docs'[x][Own].doc, decided')
  <2>1. CASE x = d /\ a = Own
    BY <2>1, <1>2
  <2>2. CASE ~(x = d /\ a = Own)
    <3>1. Own \in DOMAIN docs[x] /\ docs'[x][Own] = docs[x][Own]
      BY <2>2, <1>1, <1>2, <1>3
    <3> QED  BY <3>1 DEF OwnDoc
  <2> QED  BY <2>1, <2>2
<1> QED  BY <1>3 DEF History, OwnDoc

LEMMA HistoryNext == Shape /\ History /\ [Next]_vars => History'
<1> SUFFICES ASSUME Shape, History, [Next]_vars  PROVE  History'
  OBVIOUS
<1>0. clock \in Nat /\ clock >= 10
  BY DEF Shape
<1>1. CASE UNCHANGED vars
  BY <1>1 DEF vars, History, OwnDoc
<1>2. CASE Next
  <2>1. PICK d \in Device :
              \/ \E a \in DOMAIN docs[d] : \E doc :
                    Edited(docs[d][a].doc, doc) /\ Rewritten(d, a, doc) /\ UNCHANGED decided
              \/ \E raw, document, cited : Acceptance(d, raw, document, cited)
              \/ \E a, replica : Obtain(d, a, replica) /\ Obtainable(d, a, replica)
    BY <1>2, StepsAre
  <2>2. ASSUME NEW a \in DOMAIN docs[d], NEW doc, Edited(docs[d][a].doc, doc),
               Rewritten(d, a, doc), UNCHANGED decided
        PROVE  History'
    <3>1. Changed(d, a, Replica(doc, docs[d][a].carriage))
      BY <2>2, RewrittenChanges
    <3>2. clock' = clock + 2 /\ decided' = decided
      BY <2>2 DEF Rewritten
    <3>3. ASSUME a = Own  PROVE  Recorded(doc, decided)
      <4>1. IsDocument(docs[d][a].doc) /\ Recorded(docs[d][a].doc, decided)
        BY <3>3 DEF Shape, History, OwnDoc
      <4> QED  BY <4>1, <1>0, <2>2, EditAlike, RecordedAlike DEF History
    <3>4. \A e \in decided' : e.stamp \in 11..clock' /\ e.saw \subseteq 1..clock'
      <4>1. 11..clock \subseteq 11..clock' /\ 1..clock \subseteq 1..clock'
        BY <1>0, <3>2
      <4> QED  BY <3>2, <4>1 DEF History
    <3>5. clock' \in Nat /\ clock <= clock'
      BY <1>0, <3>2
    <3>6. \A x \in Device : Own \in DOMAIN docs[x] => Recorded(OwnDoc(x), decided')
      BY <3>2 DEF History
    <3>7. a = Own => Recorded(Replica(doc, docs[d][a].carriage).doc, decided')
      BY <3>2, <3>3, ReplicaFacts
    <3> QED  BY <1>0, <3>1, <3>4, <3>5, <3>6, <3>7, HistoryKept
  <2>3. ASSUME NEW raw, NEW document, NEW cited, Acceptance(d, raw, document, cited)
        PROVE  History'
    <3> DEFINE g == [raw |-> raw, document |-> document, cited |-> cited,
                     stamp |-> clock + 1, saw |-> OwnDoc(d).seen]
               doc == Put(OwnDoc(d), Key(4, raw), AcceptanceEntry(document, cited), clock + 1)
    <3>1. Own \in DOMAIN docs[d] /\ Rewritten(d, Own, doc)
      BY <2>3, AcceptanceIs
    <3>2. Changed(d, Own, Replica(doc, docs[d][Own].carriage))
      BY <3>1, RewrittenChanges
    <3>3. clock' = clock + 2 /\ decided' = decided \cup {g}
      BY <2>3, <3>1 DEF Rewritten, Acceptance
    <3>4. OwnDoc(d).seen \subseteq 1..clock
      BY <3>1 DEF Shape, OwnShape
    <3>5. g.stamp = clock + 1 /\ g.saw = OwnDoc(d).seen /\ g.raw = raw
          /\ g.document = document /\ g.cited = cited
      OBVIOUS
    <3> HIDE DEF g
    <3>6. ASSUME NEW x \in Device, Own \in DOMAIN docs[x]
          PROVE  Recorded(OwnDoc(x), decided')
                 /\ (OwnDoc(x) = OwnDoc(d) => Recorded(doc, decided'))
      <4>1. IsDocument(OwnDoc(x)) /\ OwnDoc(x).seen \subseteq 1..clock /\ Recorded(OwnDoc(x), decided)
        BY <3>6 DEF Shape, OwnShape, History
      <4> QED  BY <1>0, <3>3, <3>4, <3>5, <4>1, RecordedAccepts DEF History
    <3>7. \A e \in decided' : e.stamp \in 11..clock' /\ e.saw \subseteq 1..clock'
      <4>1. 11..clock \subseteq 11..clock' /\ 1..clock \subseteq 1..clock' /\ clock + 1 \in 11..clock'
        BY <1>0, <3>3
      <4> QED  BY <3>3, <3>4, <3>5, <4>1 DEF History
    <3>8. clock' \in Nat /\ clock <= clock'
      BY <1>0, <3>3
    <3>9. Recorded(Replica(doc, docs[d][Own].carriage).doc, decided')
      BY <3>1, <3>6, ReplicaFacts
    <3> HIDE DEF doc
    <3> QED  BY <1>0, <3>2, <3>6, <3>7, <3>8, <3>9, HistoryKept
  <2>4. ASSUME NEW a, NEW replica, Obtain(d, a, replica), Obtainable(d, a, replica)
        PROVE  History'
    <3>1. Changed(d, a, replica) /\ clock' = clock /\ decided' = decided
      BY <2>4, ObtainChanges DEF Obtain
    <3>2. ASSUME a = Own  PROVE  Recorded(replica.doc, decided)
      <4>1. CASE replica = Replica(Blank, "None")
        BY <4>1, BlankRecorded, ReplicaFacts
      <4>2. CASE \E e \in Device : a \in DOMAIN docs[e] /\ replica = Replica(docs[e][a].doc, "None")
        BY <4>2, <3>2, ReplicaFacts DEF History, OwnDoc
      <4>3. CASE /\ d \in Native
                 /\ \E e \in Device : /\ Own \in DOMAIN docs[e]
                            /\ replica = Replica(MergeDocs(OwnDoc(d), OwnDoc(e)), docs[d][Own].carriage)
        <5>1. PICK e \in Device : /\ Own \in DOMAIN docs[e]
                            /\ replica = Replica(MergeDocs(OwnDoc(d), OwnDoc(e)), docs[d][Own].carriage)
          BY <4>3
        <5>2. /\ Recorded(OwnDoc(d), decided) /\ IsDocument(OwnDoc(d))
              /\ Recorded(OwnDoc(e), decided) /\ IsDocument(OwnDoc(e))
          BY <4>3, <5>1 DEF Shape, History, OwnDoc
        <5> QED  BY <5>1, <5>2, RecordedMerge, ReplicaFacts
      <4> QED  BY <2>4, <3>2, <4>1, <4>2, <4>3 DEF Obtainable
    <3> QED  BY <1>0, <3>1, <3>2, HistoryKept DEF History
  <2> QED  BY <2>1, <2>2, <2>3, <2>4
<1> QED  BY <1>1, <1>2

-----------------------------------------------------------------------------
(* Reading the decisions. *)

LEMMA CanonicalIsItself ==
    \A raw : /\ \A h \in FromCanonical(raw) : h = raw
             /\ FromCanonical(raw) # {} => FromCanonical(raw) = {raw}
BY DEF FromCanonical

Entered(e) == [host |-> e.raw, document |-> e.document, cited |-> e.cited]

Readable(e) ==
    FromCanonical(e.raw) # {} /\ e.cited # {} /\ e.document \in Doc /\ e.cited \subseteq Hash

LEMMA WriteOfFacts ==
    \A e : /\ WriteOf(e).key = Key(4, e.raw) /\ WriteOf(e).key.object = 4
           /\ WriteOf(e).key.prop = e.raw /\ WriteOf(e).key.element = 0
           /\ WriteOf(e).value.document = e.document /\ WriteOf(e).value.cited = e.cited
           /\ WellShaped(WriteOf(e).value)
                 <=> e.cited # {} /\ e.document \in Doc /\ e.cited \subseteq Hash
BY DEF WriteOf, New, Key, AcceptanceEntry, WellShaped

LEMMA AcceptancesAre ==
    ASSUME NEW doc, Field(doc, "acceptances", "Map") = {4}
    PROVE  Acceptances(doc) =
               UNION {{[host |-> h, document |-> v.document, cited |-> v.cited] :
                         v \in {x \in {w.value : w \in At(doc, Key(4, raw))} : WellShaped(x)},
                         h \in FromCanonical(raw)}
                      : raw \in Props(doc, 4)}
BY DEF Acceptances, Register

LEMMA AcceptancesStand ==
    ASSUME NEW doc, NEW made, Recorded(doc, made), IsDocument(doc),
           Field(doc, "acceptances", "Map") = {4}
    PROVE  Acceptances(doc) =
               {Entered(e) : e \in {x \in made : Readable(x) /\ WriteOf(x) \in doc.live}}
<1>1. ASSUME NEW r \in Acceptances(doc)
      PROVE  \E e \in made : Readable(e) /\ WriteOf(e) \in doc.live /\ r = Entered(e)
  <2>1. PICK raw \in Props(doc, 4) :
          \E v \in {x \in {w.value : w \in At(doc, Key(4, raw))} : WellShaped(x)} :
             \E h \in FromCanonical(raw) :
                r = [host |-> h, document |-> v.document, cited |-> v.cited]
    BY AcceptancesAre
  <2>2. PICK w \in At(doc, Key(4, raw)) :
          /\ WellShaped(w.value)
          /\ \E h \in FromCanonical(raw) :
                r = [host |-> h, document |-> w.value.document, cited |-> w.value.cited]
    BY <2>1
  <2>3. w \in doc.live /\ w.key = Key(4, raw) /\ w.key.object = 4
    BY DEF At, Key
  <2>4. PICK e \in made : w = WriteOf(e)
    BY <2>3 DEF Recorded
  <2>5. e.raw = raw
    BY <2>3, <2>4, WriteOfFacts DEF Key
  <2>6. FromCanonical(raw) # {}
    BY <2>2
  <2>7. Readable(e)
    BY <2>2, <2>4, <2>5, <2>6, WriteOfFacts DEF Readable
  <2>8. r = [host |-> raw, document |-> e.document, cited |-> e.cited]
    BY <2>2, <2>4, CanonicalIsItself, WriteOfFacts
  <2> QED  BY <2>3, <2>4, <2>5, <2>7, <2>8 DEF Entered
<1>2. ASSUME NEW e \in made, Readable(e), WriteOf(e) \in doc.live
      PROVE  Entered(e) \in Acceptances(doc)
  <2> DEFINE w == WriteOf(e)
             v == w.value
             values == {x \in {y.value : y \in At(doc, Key(4, e.raw))} : WellShaped(x)}
             here == {[host |-> h, document |-> x.document, cited |-> x.cited] :
                         x \in values, h \in FromCanonical(e.raw)}
  <2>1. w \in At(doc, Key(4, e.raw))
    BY <1>2, WriteOfFacts DEF At
  <2>2. v \in values
    BY <1>2, <2>1, WriteOfFacts DEF Readable
  <2>3. e.raw \in FromCanonical(e.raw)
    BY <1>2, CanonicalIsItself DEF Readable
  <2>4. v.document = e.document /\ v.cited = e.cited
    BY WriteOfFacts
  <2>5. e.raw \in Props(doc, 4)
    BY <1>2, WriteOfFacts DEF Props, Keys
  <2> HIDE DEF v, values
  <2>6. Entered(e) \in here
    BY <2>2, <2>3, <2>4 DEF Entered
  <2> QED  BY <2>5, <2>6, AcceptancesAre DEF values
<1> QED  BY <1>1, <1>2

\* decisions.rs acceptances: on every device, whatever was merged there and in whatever
\* order, the acceptances that are read are exactly those it has seen decided and that no
\* later decision it has seen knew of.
THEOREM DecisionsAlwaysSurvive == Spec => []DecisionsSurvive
<1>1. ASSUME Shape, History  PROVE  DecisionsSurvive
  <2>1. SUFFICES ASSUME NEW d \in Device, Own \in DOMAIN docs[d], SchemaRoot(OwnDoc(d)) # {}
                 PROVE  Acceptances(OwnDoc(d)) =
                          {[host |-> e.raw, document |-> e.document, cited |-> e.cited] :
                             e \in {x \in Standing(d) :
                                      /\ FromCanonical(x.raw) # {} /\ x.cited # {}
                                      /\ x.document \in Doc /\ x.cited \subseteq Hash}}
    BY DEF DecisionsSurvive
  <2>2. OwnShape(OwnDoc(d), clock) /\ clock \in Nat /\ IsDocument(OwnDoc(d))
    BY <1>1, <2>1 DEF Shape, OwnShape
  <2>3. Field(OwnDoc(d), "acceptances", "Map") = {4}
    BY <2>1, <2>2, FieldFacts
  <2>4. Recorded(OwnDoc(d), decided)
    BY <1>1, <2>1 DEF History
  <2>5. Acceptances(OwnDoc(d)) =
          {Entered(e) : e \in {x \in decided : Readable(x) /\ WriteOf(x) \in OwnDoc(d).live}}
    BY <2>2, <2>3, <2>4, AcceptancesStand
  <2>6. \A x : x \in Standing(d) <=> x \in decided /\ WriteOf(x) \in OwnDoc(d).live
    <3>1. ASSUME NEW x \in decided, WriteOf(x) \in OwnDoc(d).live
          PROVE  x.stamp \in OwnDoc(d).seen
      BY <2>2, <3>1 DEF IsDocument, WriteOf, New
    <3>2. \A x \in decided : x.stamp \in OwnDoc(d).seen =>
             (WriteOf(x) \in OwnDoc(d).live <=> ~Overruled(x, OwnDoc(d).seen, decided))
      BY <2>4 DEF Recorded
    <3> QED  BY <3>1, <3>2 DEF Standing, Overruled
  <2>7. {x \in Standing(d) : Readable(x)} = {x \in decided : Readable(x) /\ WriteOf(x) \in OwnDoc(d).live}
    BY <2>6
  <2> QED  BY <2>5, <2>7 DEF Entered, Readable
<1> QED  BY <1>1, HistoryInit, HistoryNext, ShapeAlways, PTL DEF Spec

-----------------------------------------------------------------------------
(* The walk. *)

\* The replicas at hand, with their grades.
AtHand(held) == \A a \in DOMAIN held : held[a].grade \in ToSet(Grades)

WithMore(held, more) ==
    DOMAIN held \subseteq DOMAIN more /\ \A a \in DOMAIN held : more[a] = held[a]

\* The function that a walk evaluates, on the cursors that have consumed n or more.
Beyond(held, path, n) == {c \in Cursors(held, path) : c.consumed >= n}
Walks(held, path, n, f) == f = [c \in Beyond(held, path, n) |-> Hop(held, path, c, f)]

\* An outcome that a walk can have once it has consumed n.
Reaches(r, n) ==
    \/ r.status = "Resolved"
    \/ r.status = "Dangling" /\ r.consumed \in Nat /\ r.consumed >= n
    \/ r.status = "Unsynced" /\ r.consumed \in Nat /\ r.consumed > n

LEMMA CursorFacts ==
    /\ \A n, at, grade : /\ Cursor(n, at, grade).consumed = n /\ Cursor(n, at, grade).at = at
                         /\ Cursor(n, at, grade).grade = grade
    /\ \A held, path, n, at, grade :
          n \in 0..Len(path) /\ at \in DOMAIN held /\ grade \in ToSet(Grades)
          => Cursor(n, at, grade) \in Cursors(held, path)
    /\ \A held, path : \A c \in Cursors(held, path) :
          c.consumed \in 0..Len(path) /\ c.at \in DOMAIN held /\ c.grade \in ToSet(Grades)
BY DEF Cursor, Cursors

LEMMA WeakerIsGrade ==
    ASSUME NEW a \in ToSet(Grades), NEW b \in ToSet(Grades)
    PROVE  Weaker(a, b) \in ToSet(Grades)
BY DEF Weaker

\* A hop makes progress along the path, and more replicas change it only where it stopped
\* for want of one.
LEMMA HopWithMore ==
    ASSUME NEW held, NEW more, NEW S, NEW path \in Seq(S), NEW c \in Cursors(held, path),
           AtHand(held), AtHand(more), WithMore(held, more)
    PROVE  \/ \E r : /\ Reaches(r, c.consumed)
                     /\ \A f : Hop(held, path, c, f) = r /\ Hop(more, path, c, f) = r
           \/ \E x \in Cursors(held, path) :
                 /\ x.consumed > c.consumed
                 /\ \A f : Hop(held, path, c, f) = f[x] /\ Hop(more, path, c, f) = f[x]
           \/ \E x \in Cursors(more, path) : \E r :
                 /\ x.consumed > c.consumed /\ r.status = "Unsynced" /\ r.consumed = x.consumed
                 /\ \A f : Hop(held, path, c, f) = r /\ Hop(more, path, c, f) = f[x]
<1> DEFINE doc == held[c.at].doc
           n == c.consumed
           rest == SubSeq(path, n + 1, Len(path))
           match == Longest(held, doc, rest)
           key == The(match)
           target == The(Lookup(doc, SubSeq(rest, 1, key)))
           x(hands) == Cursor(n + key, target, Weaker(c.grade, hands[target].grade))
           Out(hands, f) == IF rest = <<>> THEN Resolved(c.at, c.grade)
                            ELSE IF match = {} THEN Dangling(n)
                            ELSE IF target \notin DOMAIN hands THEN Unsynced(n + key, target)
                            ELSE f[x(hands)]
<1>1. n \in 0..Len(path) /\ c.at \in DOMAIN held /\ c.grade \in ToSet(Grades)
  BY CursorFacts
<1>2. more[c.at] = held[c.at] /\ \A hands : Longest(hands, doc, rest) = match
  BY <1>1 DEF WithMore, Longest
<1>3. \A f : Hop(held, path, c, f) = Out(held, f) /\ Hop(more, path, c, f) = Out(more, f)
  <2>1. \A f : Hop(held, path, c, f) = Out(held, f)
    BY DEF Hop
  <2>2. more[c.at].doc = doc /\ Longest(more, more[c.at].doc, rest) = match
    BY <1>2
  <2>3. \A f : Hop(more, path, c, f) = Out(more, f)
    <3> HIDE DEF match
    <3> QED  BY <2>2 DEF Hop
  <2> QED  BY <2>1, <2>3
<1>4. Len(rest) = Len(path) - n
  BY <1>1
<1>5. match # {} => key \in 1..Len(rest)
  <2>1. match \subseteq 1..Len(rest)
    BY DEF Longest
  <2> HIDE DEF match
  <2> QED  BY <2>1 DEF The
<1> HIDE DEF rest, match, key, target, doc
<1>6. match # {} => n + key \in 0..Len(path) /\ n + key > n
  BY <1>1, <1>4, <1>5
<1>7. ASSUME NEW hands, AtHand(hands), target \in DOMAIN hands, match # {}
      PROVE  x(hands) \in Cursors(hands, path) /\ x(hands).consumed = n + key
  <2>1. Weaker(c.grade, hands[target].grade) \in ToSet(Grades)
    BY <1>1, <1>7, WeakerIsGrade DEF AtHand
  <2> QED  BY <1>6, <1>7, <2>1, CursorFacts
<1>8. CASE rest = <<>>
  <2>1. Reaches(Resolved(c.at, c.grade), n)
    BY DEF Reaches, Resolved
  <2> QED  BY <1>3, <1>8, <2>1
<1>9. CASE rest # <<>> /\ match = {}
  <2>1. Reaches(Dangling(n), n)
    BY <1>1 DEF Reaches, Dangling
  <2> QED  BY <1>3, <1>9, <2>1
<1>10. CASE rest # <<>> /\ match # {} /\ target \notin DOMAIN more
  <2>1. Reaches(Unsynced(n + key, target), n)
    BY <1>6, <1>10 DEF Reaches, Unsynced
  <2>2. target \notin DOMAIN held
    BY <1>10 DEF WithMore
  <2> QED  BY <1>3, <1>10, <2>1, <2>2
<1>11. CASE rest # <<>> /\ match # {} /\ target \in DOMAIN held
  <2>1. target \in DOMAIN more /\ x(more) = x(held)
    BY <1>11 DEF WithMore
  <2>2. x(held) \in Cursors(held, path) /\ x(held).consumed > n
    BY <1>6, <1>7, <1>11
  <2> HIDE DEF x
  <2>3. \A f : Hop(held, path, c, f) = f[x(held)] /\ Hop(more, path, c, f) = f[x(held)]
    BY <1>3, <1>11, <2>1
  <2> QED  BY <2>2, <2>3
<1>12. CASE rest # <<>> /\ match # {} /\ target \in DOMAIN more /\ target \notin DOMAIN held
  <2>1. x(more) \in Cursors(more, path) /\ x(more).consumed > n /\ x(more).consumed = n + key
    BY <1>6, <1>7, <1>12
  <2>2. Unsynced(n + key, target).status = "Unsynced" /\ Unsynced(n + key, target).consumed = n + key
    BY DEF Unsynced
  <2> HIDE DEF x
  <2>3. \A f : Hop(held, path, c, f) = Unsynced(n + key, target) /\ Hop(more, path, c, f) = f[x(more)]
    BY <1>3, <1>12
  <2> QED  BY <2>1, <2>2, <2>3
<1> QED  BY <1>8, <1>9, <1>10, <1>11, <1>12

LEMMA HopIs ==
    ASSUME NEW held, NEW S, NEW path \in Seq(S), NEW c \in Cursors(held, path), AtHand(held)
    PROVE  \/ \E r : Reaches(r, c.consumed) /\ \A f : Hop(held, path, c, f) = r
           \/ \E x \in Cursors(held, path) :
                 x.consumed > c.consumed /\ \A f : Hop(held, path, c, f) = f[x]
<1>1. WithMore(held, held)
  BY DEF WithMore
<1>2. ASSUME NEW x \in Cursors(held, path), NEW r,
             \A f : Hop(held, path, c, f) = r /\ Hop(held, path, c, f) = f[x]
      PROVE  FALSE
  <2>1. [y \in {x} |-> {}][x] = [y \in {x} |-> {{}}][x]
    BY <1>2
  <2> QED  BY <2>1
<1> QED  BY <1>1, <1>2, HopWithMore

\* The walk is a function, built from the end of the path.
LEMMA WalkBuilds ==
    ASSUME NEW held, NEW S, NEW path \in Seq(S), AtHand(held),
           NEW n \in 1..Len(path) + 1, NEW f, Walks(held, path, n, f)
    PROVE  \E g : Walks(held, path, n - 1, g)
<1> DEFINE g == [c \in Beyond(held, path, n - 1) |-> IF c.consumed >= n THEN f[c] ELSE Hop(held, path, c, f)]
<1>1. ASSUME NEW c \in Cursors(held, path), c.consumed >= n
      PROVE  /\ c \in Beyond(held, path, n) /\ c \in Beyond(held, path, n - 1)
             /\ g[c] = f[c] /\ f[c] = Hop(held, path, c, f)
  BY <1>1, CursorFacts DEF Beyond, Walks
<1>2. ASSUME NEW c \in Beyond(held, path, n - 1)
      PROVE  Hop(held, path, c, g) = Hop(held, path, c, f)
  <2>1. c \in Cursors(held, path) /\ c.consumed \in Nat /\ c.consumed >= n - 1
    BY CursorFacts DEF Beyond
  <2>2. \A x \in Cursors(held, path) : x.consumed > c.consumed => g[x] = f[x]
    <3> TAKE x \in Cursors(held, path)
    <3>1. x.consumed > c.consumed => x.consumed >= n
      BY <2>1, CursorFacts
    <3> QED  BY <3>1, <1>1
  <2> HIDE DEF g
  <2> QED  BY <2>1, <2>2, HopIs
<1>3. ASSUME NEW c \in Beyond(held, path, n - 1)
      PROVE  g[c] = Hop(held, path, c, g)
  <2>1. CASE c.consumed >= n
    <3> HIDE DEF g
    <3> QED  BY <2>1, <1>1, <1>2 DEF Beyond
  <2>2. CASE ~(c.consumed >= n)
    <3>1. g[c] = Hop(held, path, c, f)
      BY <2>2
    <3> HIDE DEF g
    <3> QED  BY <3>1, <1>2
  <2> QED  BY <2>1, <2>2
<1>4. g = [c \in Beyond(held, path, n - 1) |-> Hop(held, path, c, g)]
  <2>1. g = [c \in Beyond(held, path, n - 1) |-> g[c]]
    OBVIOUS
  <2> HIDE DEF g
  <2> QED  BY <2>1, <1>3
<1> HIDE DEF g
<1> QED  BY <1>4 DEF Walks

LEMMA WalkExists ==
    ASSUME NEW held, NEW S, NEW path \in Seq(S), AtHand(held)
    PROVE  \E f : Walks(held, path, 0, f)
<1> DEFINE Built(m) == \E f : Walks(held, path, Len(path) + 1 - m, f)
           L == Len(path)
           Bad == {m \in 0..L + 1 : ~Built(m)}
<1>0. L \in Nat
  OBVIOUS
<1>1. Built(0)
  <2>1. Beyond(held, path, L + 1) = {}
    <3>1. \A c \in Cursors(held, path) : ~(c.consumed >= L + 1)
      BY <1>0, CursorFacts
    <3> QED  BY <3>1 DEF Beyond
  <2>2. Walks(held, path, L + 1, [c \in {} |-> c])
    BY <2>1 DEF Walks
  <2>3. L + 1 = L + 1 - 0
    BY <1>0
  <2> QED  BY <2>2, <2>3
<1>2. ASSUME NEW m \in 1..L + 1, Built(m - 1)
      PROVE  Built(m)
  <2>1. L + 1 - (m - 1) \in 1..L + 1 /\ (L + 1 - (m - 1)) - 1 = L + 1 - m
    BY <1>0
  <2> QED  BY <1>2, <2>1, WalkBuilds
<1> HIDE DEF Built, L
<1>3. Bad = {}
  <2> SUFFICES ASSUME Bad # {}  PROVE FALSE
    OBVIOUS
  <2>0. Bad \subseteq Nat
    BY <1>0
  <2>1. PICK m \in Bad : \A k \in Bad : ~(<<k, m>> \in OpToRel(<, Nat))
    BY <2>0, NatLessThanWellFounded, WFMin
  <2>2. \A k \in Bad : ~(k < m)
    BY <2>0, <2>1 DEF OpToRel
  <2>3. m \in 1..L + 1 /\ m - 1 \in 0..L + 1 /\ m - 1 < m
    BY <1>0, <1>1
  <2> QED  BY <1>2, <2>2, <2>3
<1>4. Built(L + 1) /\ L + 1 - (L + 1) = 0
  BY <1>0, <1>3
<1> QED  BY <1>4 DEF Built, L

LEMMA WalkIs ==
    ASSUME NEW held, NEW S, NEW path \in Seq(S), AtHand(held)
    PROVE  \E f : /\ Walks(held, path, 0, f)
                  /\ \A root : Walk(held, root, path) = f[Cursor(0, root, held[root].grade)]
<1> DEFINE f == CHOOSE f : f = [c \in Cursors(held, path) |-> Hop(held, path, c, f)]
<1>1. Beyond(held, path, 0) = Cursors(held, path)
  BY CursorFacts DEF Beyond
<1>2. f = [c \in Cursors(held, path) |-> Hop(held, path, c, f)]
  BY <1>1, WalkExists DEF Walks
<1>3. \A root : Walk(held, root, path) = f[Cursor(0, root, held[root].grade)]
  BY DEF Walk
<1> HIDE DEF f
<1> QED  BY <1>1, <1>2, <1>3 DEF Walks

\* Of the cursors of which something is true, some one has consumed the most.
LEMMA FarthestCursor ==
    ASSUME NEW held, NEW S, NEW path \in Seq(S), NEW T \in SUBSET Cursors(held, path), T # {}
    PROVE  \E c \in T : \A x \in T : ~(x.consumed > c.consumed)
<1> DEFINE L == Len(path)
           left == {L - c.consumed : c \in T}
<1>0. L \in Nat /\ \A c \in T : c.consumed \in 0..L
  BY CursorFacts
<1> HIDE DEF L
<1>1. left \in SUBSET Nat /\ left # {}
  BY <1>0
<1>2. PICK m \in left : \A k \in left : ~(k < m)
  BY <1>1, LeastNat
<1>3. PICK c \in T : m = L - c.consumed
  OBVIOUS
<1>4. ASSUME NEW x \in T  PROVE  ~(x.consumed > c.consumed)
  <2>1. L - x.consumed \in left
    OBVIOUS
  <2>2. ~(L - x.consumed < L - c.consumed)
    BY <1>2, <1>3, <2>1
  <2>3. x.consumed \in Int /\ c.consumed \in Int
    BY <1>0
  <2> QED  BY <1>0, <2>2, <2>3
<1> QED  BY <1>4

LEMMA WalkReaches ==
    ASSUME NEW held, NEW S, NEW path \in Seq(S), AtHand(held), NEW f, Walks(held, path, 0, f),
           NEW c \in Cursors(held, path)
    PROVE  Reaches(f[c], c.consumed)
<1> DEFINE Bad == {x \in Cursors(held, path) : ~Reaches(f[x], x.consumed)}
<1>0. \A x \in Cursors(held, path) : f[x] = Hop(held, path, x, f) /\ x.consumed \in Nat
  BY CursorFacts DEF Walks, Beyond
<1>1. SUFFICES ASSUME Bad # {}  PROVE FALSE
  OBVIOUS
<1>2. PICK b \in Bad : \A x \in Bad : ~(x.consumed > b.consumed)
  BY <1>1, FarthestCursor
<1>3. b \in Cursors(held, path) /\ ~Reaches(Hop(held, path, b, f), b.consumed)
  BY <1>0
<1>4. PICK x \in Cursors(held, path) : x.consumed > b.consumed /\ Hop(held, path, b, f) = f[x]
  BY <1>3, HopIs
<1>5. Reaches(f[x], x.consumed)
  BY <1>2, <1>4
<1>6. Reaches(f[x], b.consumed)
  BY <1>0, <1>3, <1>4, <1>5 DEF Reaches
<1> QED  BY <1>3, <1>4, <1>6

LEMMA MoreExtends ==
    ASSUME NEW held, NEW more, NEW S, NEW path \in Seq(S), AtHand(held), AtHand(more),
           WithMore(held, more), NEW root \in DOMAIN held
    PROVE  Extends(Walk(more, root, path), Walk(held, root, path))
<1>1. PICK f : /\ Walks(held, path, 0, f)
               /\ \A a : Walk(held, a, path) = f[Cursor(0, a, held[a].grade)]
  BY WalkIs
<1>2. PICK g : /\ Walks(more, path, 0, g)
               /\ \A a : Walk(more, a, path) = g[Cursor(0, a, more[a].grade)]
  BY WalkIs
<1> DEFINE Bad == {x \in Cursors(held, path) : ~Extends(g[x], f[x])}
<1>3. \A x \in Cursors(held, path) : f[x] = Hop(held, path, x, f) /\ x.consumed \in Nat
  BY <1>1, CursorFacts DEF Walks, Beyond
<1>4. \A x \in Cursors(more, path) : g[x] = Hop(more, path, x, g) /\ x.consumed \in Nat
  BY <1>2, CursorFacts DEF Walks, Beyond
<1>5. Cursors(held, path) \subseteq Cursors(more, path)
  BY DEF Cursors, WithMore
<1>6. Bad = {}
  <2> SUFFICES ASSUME Bad # {}  PROVE FALSE
    OBVIOUS
  <2>1. PICK b \in Bad : \A x \in Bad : ~(x.consumed > b.consumed)
    BY FarthestCursor
  <2>2. b \in Cursors(held, path) /\ ~Extends(Hop(more, path, b, g), Hop(held, path, b, f))
    BY <1>3, <1>4, <1>5
  <2>3. CASE \E r : \A h : Hop(held, path, b, h) = r /\ Hop(more, path, b, h) = r
    BY <2>2, <2>3 DEF Extends
  <2>4. CASE \E x \in Cursors(held, path) :
                 /\ x.consumed > b.consumed
                 /\ \A h : Hop(held, path, b, h) = h[x] /\ Hop(more, path, b, h) = h[x]
    BY <2>1, <2>2, <2>4
  <2>5. CASE \E x \in Cursors(more, path) : \E r :
                 /\ x.consumed > b.consumed /\ r.status = "Unsynced" /\ r.consumed = x.consumed
                 /\ \A h : Hop(held, path, b, h) = r /\ Hop(more, path, b, h) = h[x]
    <3>1. PICK x \in Cursors(more, path) : \E r :
                 /\ r.status = "Unsynced" /\ r.consumed = x.consumed
                 /\ \A h : Hop(held, path, b, h) = r /\ Hop(more, path, b, h) = h[x]
      BY <2>5
    <3>2. Reaches(g[x], x.consumed)
      BY <1>2, WalkReaches
    <3> QED  BY <2>2, <3>1, <3>2 DEF Reaches, Extends
  <2> QED  BY <2>2, <2>3, <2>4, <2>5, HopWithMore
<1>7. Cursor(0, root, held[root].grade) \in Cursors(held, path)
  <2>1. 0 \in 0..Len(path)
    OBVIOUS
  <2> QED  BY <2>1, CursorFacts DEF AtHand
<1>8. more[root] = held[root]
  BY DEF WithMore
<1> QED  BY <1>1, <1>2, <1>6, <1>7, <1>8

LEMMA WalkStarts ==
    ASSUME NEW held, NEW S, NEW path \in Seq(S), AtHand(held), NEW root \in DOMAIN held
    PROVE  Reaches(Walk(held, root, path), 0)
<1>1. PICK f : /\ Walks(held, path, 0, f)
               /\ \A a : Walk(held, a, path) = f[Cursor(0, a, held[a].grade)]
  BY WalkIs
<1>2. 0 \in 0..Len(path) /\ held[root].grade \in ToSet(Grades)
  BY DEF AtHand
<1>3. Cursor(0, root, held[root].grade) \in Cursors(held, path)
      /\ Cursor(0, root, held[root].grade).consumed = 0
  BY <1>2, CursorFacts
<1> QED  BY <1>1, <1>3, WalkReaches

-----------------------------------------------------------------------------
(* What a name comes to. *)

Single(S) == \A x, y \in S : x = y

LEMMA TheIs ==
    ASSUME NEW S, NEW x \in S, Single(S)
    PROVE  S = {x} /\ The(S) = x
BY DEF Single, The

\* A text is a document identifier in at most one way, and a name in at most one way.
LEMMA IdsAreSingle == \A text : Single(ParseDocId(text))
BY DEF ParseDocId, Single

LEMMA HostsAreSingle == \A raw : Single(ParseHost(raw))
BY DEF ParseHost, Single

LEMMA Widened ==
    ASSUME NEW S, NEW T, S \subseteq T, NEW seq \in Seq(S)
    PROVE  seq \in Seq(T)
OBVIOUS

LEMMA Headed ==
    ASSUME NEW S, NEW x, NEW seq \in Seq(S)
    PROVE  /\ Tail(<<x>> \o seq) = seq /\ (<<x>> \o seq)[1] = x
           /\ <<x>> \o seq \in Seq(S \cup {x}) /\ <<x>> \o seq # <<>>
<1>1. seq \in Seq(S \cup {x})
  BY Widened
<1> QED  BY <1>1

LEMMA Beheaded ==
    ASSUME NEW S, NEW seq \in Seq(S), seq # <<>>
    PROVE  /\ seq = <<seq[1]>> \o Tail(seq) /\ Tail(seq) \in Seq(S)
           /\ Len(seq) \in Nat \ {0}
OBVIOUS

LEMMA TextFacts ==
    ASSUME NEW parts, IsText(parts)
    PROVE  /\ Tail(parts) \in Seq(ToSet(parts)) /\ parts = <<parts[1]>> \o Tail(parts)
           /\ (<<"">> \o Tail(parts))[1] = "" /\ Tail(<<"">> \o Tail(parts)) = Tail(parts)
<1>1. parts \in Seq(ToSet(parts)) /\ parts # <<>>
  BY DEF IsText
<1>2. parts = <<parts[1]>> \o Tail(parts) /\ Tail(parts) \in Seq(ToSet(parts))
  BY <1>1, Beheaded
<1> QED  BY <1>2, Headed

LEMMA NamesAreSingle ==
    ASSUME NEW raw, IsText(raw.parts)
    PROVE  /\ Single(ParseName(raw))
           /\ \A n \in ParseName(raw) : /\ n.kind \in {"Local", "Doc", "Dns"}
                                        /\ n.path = Tail(raw.parts)
                                        /\ n.path \in Seq(ToSet(raw.parts))
<1>1. \A rest : /\ Single(ParseSegments(rest))
                /\ \A path \in ParseSegments(rest) : path = Tail(rest)
  BY DEF ParseSegments, Single
<1>2. \A path \in ParseSegments(raw.parts) \cup ParseSegments(Remainder(raw)) :
          path = Tail(raw.parts)
  BY <1>1, TextFacts DEF Remainder
<1>3. ASSUME NEW n \in ParseLocal(raw)  PROVE  n = Name("Local", "~", Tail(raw.parts))
  BY <1>2 DEF ParseLocal
<1>4. ASSUME NEW n \in ParseDoc(raw)
      PROVE  \E a \in ParseDocId(AnchorPart(raw)) : n = Name("Doc", a, Tail(raw.parts))
  <2>1. PICK a \in ParseDocId(AnchorPart(raw)), path \in ParseSegments(Remainder(raw)) :
           n = Name("Doc", a, path)
    BY <1>4 DEF ParseDoc
  <2> QED  BY <2>1, <1>2
<1>5. ASSUME NEW n \in ParseDns(raw)
      PROVE  \E h \in ParseHost(Dotted[AnchorPart(raw)]) : n = Name("Dns", h, Tail(raw.parts))
  <2>1. PICK h \in ParseHost(Dotted[AnchorPart(raw)]) : \E path \in ParseSegments(Remainder(raw)) :
           n = Name("Dns", h, path)
    BY <1>5 DEF ParseDns
  <2> QED  BY <2>1, <1>2
<1>6. /\ Single(ParseLocal(raw)) /\ Single(ParseDoc(raw)) /\ Single(ParseDns(raw))
  BY <1>3, <1>4, <1>5, IdsAreSingle, HostsAreSingle DEF Single
<1>7. /\ \A n \in ParseLocal(raw) : n.kind = "Local" /\ n.path = Tail(raw.parts)
      /\ \A n \in ParseDoc(raw) : n.kind = "Doc" /\ n.path = Tail(raw.parts)
      /\ \A n \in ParseDns(raw) : n.kind = "Dns" /\ n.path = Tail(raw.parts)
  <2>1. \A k, a, q : Name(k, a, q).kind = k /\ Name(k, a, q).path = q
    BY DEF Name
  <2> QED  BY <2>1, <1>3, <1>4, <1>5
<1>8. ParseName(raw) \in {ParseLocal(raw), ParseDoc(raw), ParseDns(raw), {}}
  BY DEF ParseName
<1>9. Single({})
  BY DEF Single
<1>10. Tail(raw.parts) \in Seq(ToSet(raw.parts))
  BY TextFacts
<1> QED  BY <1>6, <1>7, <1>8, <1>9, <1>10

LEMMA AnchorsAreSingle ==
    ASSUME NEW n, n.kind \in {"Local", "Doc", "Dns"}
    PROVE  Single(AnchorOf(n, {Own}))
<1>1. ASSUME NEW host  PROVE  Single(ZoneDocument(host))
  <2> DEFINE records == IF host \in DOMAIN Zone THEN Zone[host] ELSE {}
             best == {x \in records : \A y \in records : y.serial <= x.serial}
             top == {r.doc : r \in best}
  <2>1. IsFiniteSet(records)
    BY DocumentsAssumption, FS_EmptySet
  <2>2. IsFiniteSet(best)
    BY <2>1, FS_Subset
  <2>3. IsFiniteSet(top)
    <3> HIDE DEF best
    <3>1. [r \in best |-> r.doc] \in Surjection(best, top)
      BY DEF Surjection
    <3> QED  BY <2>2, <3>1, FS_Surjection
  <2>4. Cardinality(top) = 1 => Single(top)
    <3> HIDE DEF top
    <3> QED  BY <2>3, FS_Singleton DEF Single
  <2>5. ZoneDocument(host) = IF Cardinality(top) = 1 THEN top ELSE {}
    BY DEF ZoneDocument
  <2>6. Single({})
    BY DEF Single
  <2> QED  BY <2>4, <2>5, <2>6
<1>2. Single({n.anchor}) /\ Single({Own})
  BY DEF Single
<1> QED  BY <1>1, <1>2 DEF AnchorOf

LEMMA NameIs ==
    ASSUME NEW raw, IsText(raw.parts), NEW n \in ParseName(raw), NEW a \in AnchorOf(n, {Own})
    PROVE  ParseName(raw) = {n} /\ AnchorOf(n, {Own}) = {a}
<1>1. Single(ParseName(raw)) /\ n.kind \in {"Local", "Doc", "Dns"}
  BY NamesAreSingle
<1>2. Single(AnchorOf(n, {Own}))
  BY <1>1, AnchorsAreSingle
<1> QED  BY <1>1, <1>2, TheIs

LEMMA GradedFacts ==
    ASSUME NEW files
    PROVE  /\ DOMAIN Graded(files) = DOMAIN files /\ AtHand(Graded(files))
           /\ \A a \in DOMAIN files : Graded(files)[a].doc = files[a].doc
           /\ \A a \in DOMAIN files : files[a].carriage = "None" => Graded(files)[a].grade = "TrustedSubstrate"
<1>1. "TrustedSubstrate" \in ToSet(Grades) /\ "CarriageVerified" \in ToSet(Grades)
  BY DEF Grades, ToSet
<1> QED  BY <1>1 DEF Graded, AtHand

LEMMA GradedWithMore ==
    ASSUME NEW old, NEW new, WithMore(old, new)
    PROVE  WithMore(Graded(old), Graded(new))
BY DEF Graded, WithMore

Refuses(files) == \E a \in DOMAIN files : files[a].carriage = "Broken"

\* On a native device, and in a browser.
LEMMA WalkedByName ==
    ASSUME NEW raw, IsText(raw.parts), NEW files
    PROVE  /\ \A n \in ParseName(raw) : \A a \in AnchorOf(n, {Own}) \cap DOMAIN files :
                 ~Refuses(files) => NameWalk(files, raw, {Own}) = Walk(Graded(files), a, n.path)
           /\ \/ NameWalk(files, raw, {Own}) = Refused
              \/ /\ ~Refuses(files)
                 /\ \E n \in ParseName(raw) : AnchorOf(n, {Own}) \cap DOMAIN files # {}
<1> DEFINE inner(n, held) == {Walk(held, a, n.path) : a \in AnchorOf(n, {Own}) \cap DOMAIN held}
           each(n) == UNION {inner(n, held) : held \in LoadDocs(files)}
           outcomes == UNION {each(n) : n \in ParseName(raw)}
<1>1. NameWalk(files, raw, {Own}) = IF outcomes = {} THEN Refused ELSE The(outcomes)
  BY DEF NameWalk
<1>2. LoadDocs(files) = IF Refuses(files) THEN {} ELSE {Graded(files)}
  BY DEF LoadDocs, Refuses
<1>3. ASSUME NEW n \in ParseName(raw), NEW a \in AnchorOf(n, {Own}) \cap DOMAIN files, ~Refuses(files)
      PROVE  NameWalk(files, raw, {Own}) = Walk(Graded(files), a, n.path)
  <2>1. ParseName(raw) = {n} /\ AnchorOf(n, {Own}) = {a} /\ DOMAIN Graded(files) = DOMAIN files
    BY <1>3, NameIs, GradedFacts
  <2>2. inner(n, Graded(files)) = {Walk(Graded(files), a, n.path)}
    BY <2>1
  <2> HIDE DEF inner
  <2>3. outcomes = {Walk(Graded(files), a, n.path)}
    BY <1>2, <1>3, <2>1, <2>2
  <2> HIDE DEF outcomes
  <2> QED  BY <1>1, <2>3 DEF The
<1>4. ASSUME outcomes # {}
      PROVE  ~Refuses(files) /\ \E n \in ParseName(raw) : AnchorOf(n, {Own}) \cap DOMAIN files # {}
  <2>1. PICK n \in ParseName(raw) : each(n) # {}
    BY <1>4
  <2>2. PICK held \in LoadDocs(files) : inner(n, held) # {}
    BY <2>1
  <2>3. AnchorOf(n, {Own}) \cap DOMAIN held # {}
    BY <2>2
  <2> QED  BY <1>2, <2>2, <2>3, GradedFacts
<1> HIDE DEF outcomes
<1> QED  BY <1>1, <1>3, <1>4

LEMMA ResolvedByName ==
    ASSUME NEW raw, IsText(raw.parts), NEW files
    PROVE  /\ \A n \in ParseName(raw) : \A a \in AnchorOf(n, {Own}) :
                 ResolveHeld(files, raw, {Own}) =
                    IF a \in DOMAIN files THEN Walk(Graded(files), a, n.path) ELSE Unsynced(0, a)
           /\ \/ ResolveHeld(files, raw, {Own}) = Refused
              \/ \E n \in ParseName(raw) : AnchorOf(n, {Own}) # {}
<1> DEFINE end(n, a) == IF a \in DOMAIN files THEN Walk(Graded(files), a, n.path) ELSE Unsynced(0, a)
           each(n) == {end(n, a) : a \in AnchorOf(n, {Own})}
           outcomes == UNION {each(n) : n \in ParseName(raw)}
<1>1. ResolveHeld(files, raw, {Own}) = IF outcomes = {} THEN Refused ELSE The(outcomes)
  BY DEF ResolveHeld
<1>2. ASSUME NEW n \in ParseName(raw), NEW a \in AnchorOf(n, {Own})
      PROVE  ResolveHeld(files, raw, {Own}) = end(n, a)
  <2>1. ParseName(raw) = {n} /\ AnchorOf(n, {Own}) = {a}
    BY <1>2, NameIs
  <2> HIDE DEF end
  <2>2. outcomes = {end(n, a)}
    BY <2>1
  <2> HIDE DEF outcomes
  <2> QED  BY <1>1, <2>2 DEF The
<1>3. ASSUME outcomes # {}  PROVE  \E n \in ParseName(raw) : AnchorOf(n, {Own}) # {}
  BY <1>3
<1> HIDE DEF outcomes
<1> QED  BY <1>1, <1>2, <1>3

LEMMA MoreOutcomes ==
    ASSUME NEW old, NEW new, WithMore(old, new), NEW d, NEW raw, IsText(raw.parts)
    PROVE  \/ Extends(Outcome(new, d, raw), Outcome(old, d, raw))
           \/ \E a \in DOMAIN new \ DOMAIN old : new[a].carriage = "Broken"
<1>0. WithMore(Graded(old), Graded(new)) /\ AtHand(Graded(old)) /\ AtHand(Graded(new))
      /\ DOMAIN Graded(old) = DOMAIN old /\ DOMAIN Graded(new) = DOMAIN new
      /\ DOMAIN old \subseteq DOMAIN new
  BY GradedWithMore, GradedFacts DEF WithMore
<1>1. \A n \in ParseName(raw) : n.path \in Seq(ToSet(raw.parts))
  BY NamesAreSingle
<1>2. CASE d \in Native
  <2>1. CASE Refuses(new)
    <3>1. CASE Refuses(old)
      <4>1. NameWalk(old, raw, {Own}) = Refused
        BY <3>1, WalkedByName
      <4> QED  BY <1>2, <4>1 DEF Outcome, Extends
    <3>2. CASE ~Refuses(old)
      BY <2>1, <3>2 DEF Refuses, WithMore
    <3> QED  BY <3>1, <3>2
  <2>2. CASE ~Refuses(new) /\ NameWalk(old, raw, {Own}) = Refused
    BY <1>2, <2>2 DEF Outcome, Extends
  <2>3. CASE ~Refuses(new) /\ NameWalk(old, raw, {Own}) # Refused
    <3>1. PICK n \in ParseName(raw) : AnchorOf(n, {Own}) \cap DOMAIN old # {}
      BY <2>3, WalkedByName
    <3>2. PICK a : a \in AnchorOf(n, {Own}) /\ a \in DOMAIN old
      BY <3>1
    <3>3. ~Refuses(old)
      BY <2>3, WalkedByName
    <3>4. NameWalk(old, raw, {Own}) = Walk(Graded(old), a, n.path)
      BY <3>2, <3>3, WalkedByName
    <3>5. NameWalk(new, raw, {Own}) = Walk(Graded(new), a, n.path)
      BY <1>0, <2>3, <3>2, WalkedByName
    <3>6. Extends(Walk(Graded(new), a, n.path), Walk(Graded(old), a, n.path))
      BY <1>0, <1>1, <3>2, MoreExtends
    <3> QED  BY <1>2, <3>4, <3>5, <3>6 DEF Outcome
  <2> QED  BY <2>1, <2>2, <2>3
<1>3. CASE d \notin Native
  <2>1. CASE ResolveHeld(old, raw, {Own}) = Refused
    BY <1>3, <2>1 DEF Outcome, Extends
  <2>2. CASE ResolveHeld(old, raw, {Own}) # Refused
    <3>1. PICK n \in ParseName(raw) : AnchorOf(n, {Own}) # {}
      BY <2>2, ResolvedByName
    <3>2. PICK a : a \in AnchorOf(n, {Own})
      BY <3>1
    <3>3. /\ ResolveHeld(old, raw, {Own}) =
                IF a \in DOMAIN old THEN Walk(Graded(old), a, n.path) ELSE Unsynced(0, a)
          /\ ResolveHeld(new, raw, {Own}) =
                IF a \in DOMAIN new THEN Walk(Graded(new), a, n.path) ELSE Unsynced(0, a)
      BY <3>2, ResolvedByName
    <3>4. a \in DOMAIN old => Extends(Walk(Graded(new), a, n.path), Walk(Graded(old), a, n.path))
      BY <1>0, <1>1, <3>2, MoreExtends
    <3>5. a \in DOMAIN new => Reaches(Walk(Graded(new), a, n.path), 0)
      BY <1>0, <1>1, WalkStarts
    <3>6. a \in DOMAIN new => Extends(Walk(Graded(new), a, n.path), Unsynced(0, a))
      BY <3>5 DEF Extends, Reaches, Unsynced
    <3>7. Extends(Unsynced(0, a), Unsynced(0, a))
      BY DEF Extends
    <3> QED  BY <1>0, <1>3, <3>3, <3>4, <3>6, <3>7 DEF Outcome
  <2> QED  BY <2>1, <2>2
<1> QED  BY <1>2, <1>3

\* resolve.rs: whatever document a device comes to hold next to those it has, no name that
\* came to an end comes to another, and a name whose walk had stopped for want of a
\* document gets further, or comes to an end; whatever the documents say, circles included.
THEOREM ReplicasOnlyExtend == Spec => MoreReplicasOnlyExtend
<1>1. \A d \in Device :
          docs'[d] # docs[d]
          /\ (\A a \in DOMAIN docs[d] : a \in DOMAIN docs'[d] /\ docs'[d][a] = docs[d][a])
          => \A raw \in NameText :
                \/ Extends(Outcome(docs'[d], d, raw), Outcome(docs[d], d, raw))
                \/ \E a \in DOMAIN docs'[d] \ DOMAIN docs[d] : docs'[d][a].carriage = "Broken"
  <2> SUFFICES ASSUME NEW d \in Device, NEW raw \in NameText,
                      \A a \in DOMAIN docs[d] : a \in DOMAIN docs'[d] /\ docs'[d][a] = docs[d][a]
               PROVE  \/ Extends(Outcome(docs'[d], d, raw), Outcome(docs[d], d, raw))
                      \/ \E a \in DOMAIN docs'[d] \ DOMAIN docs[d] : docs'[d][a].carriage = "Broken"
    OBVIOUS
  <2>1. WithMore(docs[d], docs'[d])
    BY DEF WithMore
  <2>2. IsText(raw.parts)
    BY DocumentsAssumption
  <2> QED  BY <2>1, <2>2, MoreOutcomes
<1> QED  BY <1>1, PTL DEF Spec, MoreReplicasOnlyExtend

-----------------------------------------------------------------------------
(* Writing names. *)

LEMMA LookupByWrites ==
    ASSUME NEW doc, NEW path
    PROVE  Lookup(doc, path) =
              IF path = <<>> \/ At(doc, Root(path)) = {} THEN {} ELSE Bare(Top(At(doc, Root(path))).value)
<1>1. CASE path = <<>>
  BY <1>1 DEF Lookup
<1>2. CASE path # <<>> /\ At(doc, Root(path)) = {}
  BY <1>2 DEF Lookup, Value
<1>3. CASE path # <<>> /\ At(doc, Root(path)) # {}
  BY <1>3, LookupIs
<1> QED  BY <1>1, <1>2, <1>3

LEMMA RootsDiffer == \A p, q : p # q => Root(p) # Root(q)
BY KeysAreShaped

LEMMA LookupAfterPut ==
    ASSUME NEW doc, NEW path, path # <<>>, NEW target, NEW stamp \in Nat
    PROVE  /\ Lookup(Put(doc, Root(path), Reference(target), stamp), path) = {target}
           /\ \A q : q # path => Lookup(Put(doc, Root(path), Reference(target), stamp), q) = Lookup(doc, q)
<1> DEFINE w == New(Root(path), Reference(target), stamp)
           new == Put(doc, Root(path), Reference(target), stamp)
<1>1. At(new, Root(path)) = {w} /\ w.stamp = stamp /\ w.value = Reference(target)
  BY PutFacts DEF New
<1>2. \A q : q # path => At(new, Root(q)) = At(doc, Root(q))
  BY PutFacts, RootsDiffer
<1> HIDE DEF w, new
<1>3. Top({w}) = w
  <2>1. \A x \in {w} : x.stamp <= w.stamp
    BY <1>1
  <2> QED  BY <2>1 DEF Top
<1>4. Bare(Reference(target)) = {target}
  BY DEF Bare, Reference
<1>5. Lookup(new, path) = {target}
  BY <1>1, <1>3, <1>4, LookupByWrites
<1>6. ASSUME NEW q, q # path  PROVE  Lookup(new, q) = Lookup(doc, q)
  <2>1. At(new, Root(q)) = At(doc, Root(q))
    BY <1>2, <1>6
  <2>2. \A d : Lookup(d, q) =
                  IF q = <<>> \/ At(d, Root(q)) = {} THEN {} ELSE Bare(Top(At(d, Root(q))).value)
    BY LookupByWrites
  <2> QED  BY <2>1, <2>2
<1> QED  BY <1>5, <1>6 DEF new

LEMMA LookupAfterDelete ==
    ASSUME NEW doc, IsDocument(doc), NEW path
    PROVE  /\ Lookup(Delete(doc, Root(path)), path) = {}
           /\ \A q : q # path => Lookup(Delete(doc, Root(path)), q) = Lookup(doc, q)
<1>1. doc = [live |-> doc.live, seen |-> doc.seen]
  BY DEF IsDocument
<1>2. At(Delete(doc, Root(path)), Root(path)) = {}
      /\ \A q : q # path => At(Delete(doc, Root(path)), Root(q)) = At(doc, Root(q))
  BY <1>1, DeleteFacts, RootsDiffer
<1> QED  BY <1>2, LookupByWrites

\* The targets of the edges read are what lookups of path keys find.
LEMMA TargetsAre ==
    ASSUME NEW doc, IsDocument(doc)
    PROVE  \A t : t \in Targets(Read(doc).edges) <=> \E k : IsPathKey(k) /\ t \in Lookup(doc, k)
<1>1. ASSUME NEW t, t \in Targets(Read(doc).edges)
      PROVE  \E k : IsPathKey(k) /\ t \in Lookup(doc, k)
  <2>1. PICK e \in Read(doc).edges : e[2] = t
    BY <1>1 DEF Targets
  <2>2. PICK k \in Props(doc, RootObject) :
          IsPathKey(k) /\ e \in {<<k, u>> : u \in Bare(Top(At(doc, Root(k))).value)}
    BY <2>1, ReadIs
  <2>3. t \in Bare(Top(At(doc, Root(k))).value)
    BY <2>1, <2>2
  <2>4. k # <<>> /\ At(doc, Root(k)) # {}
    BY <2>2, PropsAre DEF IsPathKey
  <2> QED  BY <2>2, <2>3, <2>4, LookupIs
<1>2. ASSUME NEW t, NEW k, IsPathKey(k), t \in Lookup(doc, k)
      PROVE  t \in Targets(Read(doc).edges)
  <2>1. k # <<>> /\ At(doc, Root(k)) # {} /\ t \in Bare(Top(At(doc, Root(k))).value)
    BY <1>2, LookupByWrites
  <2>2. k \in Props(doc, RootObject)
    BY <2>1, PropsAre
  <2>3. <<k, t>> \in Read(doc).edges
    BY <1>2, <2>1, <2>2, ReadIs
  <2> QED  BY <2>3 DEF Targets
<1> QED  BY <1>1, <1>2

LEMMA LookupIsSingle == \A doc, path : Single(Lookup(doc, path))
<1> TAKE doc, path
<1>1. \A v : Single(Bare(v))
  BY DEF Bare, Single
<1>2. Single({})
  BY DEF Single
<1> QED  BY <1>1, <1>2, LookupByWrites

LEMMA RenameKeepsTargets ==
    ASSUME NEW doc, IsDocument(doc), NEW from, NEW to, IsPathKey(from), IsPathKey(to),
           NEW stamp \in Nat, Lookup(doc, to) \subseteq Lookup(doc, from),
           NEW new \in Rename(doc, from, to, stamp)
    PROVE  Targets(Read(new).edges) = Targets(Read(doc).edges)
<1>0. from # <<>> /\ to # <<>>
  BY DEF IsPathKey
<1>1. CASE from = to
  BY <1>1 DEF Rename
<1>2. CASE from # to
  <2> DEFINE pinned(t) == Put(doc, Root(to), Reference(t), stamp)
  <2>1. PICK t \in Lookup(doc, from) : new = pinned(t) \/ new \in UnpinAt(pinned(t), from)
    BY <1>0, <1>2 DEF Rename, PinAt
  <2>2. Lookup(doc, from) = {t} /\ Lookup(doc, to) \subseteq {t}
    BY <2>1, LookupIsSingle, TheIs
  <2>3. IsDocument(pinned(t))
    BY PutIsDocument, KeysAreShaped
  <2>4. Lookup(pinned(t), to) = {t} /\ \A q : q # to => Lookup(pinned(t), q) = Lookup(doc, q)
    BY <1>0, LookupAfterPut
  <2>5. \/ new = pinned(t)
        \/ new = Delete(pinned(t), Root(from))
    BY <2>1 DEF UnpinAt
  <2> HIDE DEF pinned
  <2>6. IsDocument(new)
    BY <2>3, <2>5, DeleteIsDocument
  <2>7. /\ Lookup(new, to) = {t} /\ Lookup(new, from) \in {{}, {t}}
        /\ \A q : q # to /\ q # from => Lookup(new, q) = Lookup(doc, q)
    <3>1. CASE new = pinned(t)
      BY <1>2, <2>2, <2>4, <3>1
    <3>2. CASE new = Delete(pinned(t), Root(from))
      BY <1>2, <2>3, <2>4, <3>2, LookupAfterDelete
    <3> QED  BY <2>5, <3>1, <3>2
  <2>8. \A u : (\E k : IsPathKey(k) /\ u \in Lookup(new, k)) <=> \E k : IsPathKey(k) /\ u \in Lookup(doc, k)
    <3>1. ASSUME NEW u, NEW k, IsPathKey(k), u \in Lookup(new, k)
          PROVE  \E q : IsPathKey(q) /\ u \in Lookup(doc, q)
      BY <2>2, <2>7, <3>1
    <3>2. ASSUME NEW u, NEW k, IsPathKey(k), u \in Lookup(doc, k)
          PROVE  \E q : IsPathKey(q) /\ u \in Lookup(new, q)
      BY <2>2, <2>7, <3>2
    <3> QED  BY <3>1, <3>2
  <2>9. \A u : u \in Targets(Read(new).edges) <=> u \in Targets(Read(doc).edges)
    BY <2>6, <2>8, TargetsAre
  <2>10. Targets(Read(new).edges) = {u \in Targets(Read(new).edges) : TRUE}
         /\ Targets(Read(doc).edges) = {u \in Targets(Read(doc).edges) : TRUE}
    OBVIOUS
  <2> HIDE DEF Targets
  <2> QED  BY <2>9, <2>10
<1> QED  BY <1>1, <1>2

\* petname.rs rename: a pin's document stays pinned throughout a rename and nothing else
\* becomes pinned by it, also when it stops between its two transactions.
THEOREM RenamesOnlyRelabel == Spec => RenameOnlyRelabels
<1>1. ASSUME Shape
      PROVE  \A d \in {x \in Native : docs'[x] # docs[x]}, from, to \in Path :
                RenamePetname(d, from, to) /\ Lookup(OwnDoc(d), to) \subseteq Lookup(OwnDoc(d), from)
                => Targets(Read(OwnDoc(d)').edges) = Targets(Read(OwnDoc(d)).edges)
  <2> SUFFICES ASSUME NEW d \in Native, NEW from \in Path, NEW to \in Path, RenamePetname(d, from, to),
                      Lookup(OwnDoc(d), to) \subseteq Lookup(OwnDoc(d), from)
               PROVE  Targets(Read(OwnDoc(d)').edges) = Targets(Read(OwnDoc(d)).edges)
    OBVIOUS
  <2>1. d \in Device /\ IsPathKey(from) /\ IsPathKey(to)
    BY DocumentsAssumption DEF Device
  <2>2. Own \in DOMAIN docs[d] /\ clock + 1 \in Nat /\ IsDocument(OwnDoc(d))
    BY <1>1, <2>1 DEF Shape, OwnDoc
  <2>3. PICK doc \in Rename(OwnDoc(d), from, to, clock + 1) : Rewritten(d, Own, doc)
    BY WritesRewrite DEF RenamePetname
  <2>4. Changed(d, Own, Replica(doc, docs[d][Own].carriage))
    BY <1>1, <2>1, <2>2, <2>3, RewrittenChanges
  <2>5. docs'[d][Own] = Replica(doc, docs[d][Own].carriage)
    BY <2>4 DEF Changed
  <2>6. OwnDoc(d)' = doc
    BY <2>5, ReplicaFacts DEF OwnDoc
  <2>7. Targets(Read(doc).edges) = Targets(Read(OwnDoc(d)).edges)
    BY <2>1, <2>2, RenameKeepsTargets
  <2> QED  BY <2>6, <2>7
<1> QED  BY <1>1, ShapeAlways, PTL DEF Spec, RenameOnlyRelabels

LEMMA OwnText ==
    ASSUME NEW S, NEW seq \in Seq(S), seq # <<>>
    PROVE  IsText(seq)
<1>1. \A i \in 1..Len(seq) : seq[i] \in ToSet(seq)
  BY DEF ToSet
<1> DEFINE T == ToSet(seq)
<1> HIDE DEF T
<1>2. seq \in Seq(T)
  BY <1>1 DEF T
<1> QED  BY <1>2 DEF IsText, T

LEMMA WholePath ==
    ASSUME NEW S, NEW path \in Seq(S)
    PROVE  /\ SubSeq(path, 1, Len(path)) = path /\ SubSeq(path, 0 + 1, Len(path)) = path
           /\ SubSeq(path, Len(path) + 1, Len(path)) = <<>>
OBVIOUS

\* A walk along a path that is a key of its root takes one hop.
LEMMA OneHop ==
    ASSUME NEW held, AtHand(held), NEW S, NEW path \in Seq(S), path # <<>>,
           NEW a \in DOMAIN held, NEW t, Lookup(held[a].doc, path) = {t},
           \A b \in DOMAIN held : held[b].grade = "TrustedSubstrate"
    PROVE  Walk(held, a, path) \in {Resolved(t, "TrustedSubstrate"), Unsynced(Len(path), t)}
<1> DEFINE L == Len(path)
           c == Cursor(0, a, held[a].grade)
           x == Cursor(0 + L, t, Weaker(held[a].grade, held[t].grade))
<1>0. L \in Nat \ {0} /\ 0 + L = L
  BY Beheaded
<1>1. PICK f : Walks(held, path, 0, f) /\ Walk(held, a, path) = f[c]
  BY WalkIs
<1>2. \A y \in Cursors(held, path) : f[y] = Hop(held, path, y, f)
  BY <1>1, CursorFacts DEF Walks, Beyond
<1>3. c \in Cursors(held, path) /\ c.consumed = 0 /\ c.at = a /\ c.grade = held[a].grade
  <2>1. 0 \in 0..Len(path) /\ held[a].grade \in ToSet(Grades)
    BY <1>0 DEF AtHand
  <2> QED  BY <2>1, CursorFacts
<1>4. Longest(held, held[a].doc, path) = {L}
  <2> DEFINE finds(n) == Lookup(held[a].doc, SubSeq(path, 1, n)) # {}
             last(n) == \A m \in n + 1..L : ~finds(m)
  <2>1. SubSeq(path, 1, L) = path
    BY WholePath
  <2>2. finds(L)
    BY <2>1
  <2>3. Longest(held, held[a].doc, path) = {n \in 1..L : finds(n) /\ last(n)}
    BY DEF Longest
  <2> HIDE DEF L, finds
  <2>4. L \in 1..L /\ last(L)
    BY <1>0
  <2>5. \A n \in 1..L : last(n) => n = L
    BY <1>0, <2>2
  <2> QED  BY <2>2, <2>3, <2>4, <2>5
<1>5. \A y : The({y}) = y
  BY DEF The
<1>6. Hop(held, path, c, f) = IF t \notin DOMAIN held THEN Unsynced(L, t) ELSE f[x]
  <2>1. SubSeq(path, c.consumed + 1, Len(path)) = path /\ SubSeq(path, 1, L) = path
    BY <1>3, WholePath
  <2>2. The(Longest(held, held[c.at].doc, path)) = L
    BY <1>3, <1>4, <1>5
  <2>3. The(Lookup(held[c.at].doc, path)) = t
    BY <1>3, <1>5
  <2>4. Longest(held, held[c.at].doc, path) # {}
    BY <1>3, <1>4
  <2> HIDE DEF c
  <2> QED  BY <1>0, <1>3, <2>1, <2>2, <2>3, <2>4 DEF Hop
<1>7. ASSUME t \in DOMAIN held  PROVE  f[x] = Resolved(t, "TrustedSubstrate")
  <2>1. held[t].grade = "TrustedSubstrate" /\ held[a].grade = "TrustedSubstrate"
    BY <1>7
  <2>2. Weaker(held[a].grade, held[t].grade) = "TrustedSubstrate"
    BY <2>1 DEF Weaker
  <2>3. x \in Cursors(held, path) /\ x.consumed = L /\ x.at = t /\ x.grade = "TrustedSubstrate"
    <3>1. 0 + L \in 0..Len(path) /\ "TrustedSubstrate" \in ToSet(Grades)
      BY <1>0, <2>1 DEF AtHand
    <3> QED  BY <1>0, <1>7, <2>2, <3>1, CursorFacts
  <2>4. SubSeq(path, x.consumed + 1, Len(path)) = <<>>
    BY <2>3, WholePath
  <2> HIDE DEF x
  <2>5. Hop(held, path, x, f) = Resolved(t, "TrustedSubstrate")
    BY <2>3, <2>4 DEF Hop
  <2> QED  BY <1>2, <2>3, <2>5
<1> HIDE DEF c, x
<1> QED  BY <1>1, <1>2, <1>3, <1>6, <1>7

\* The name made of an anchor's text and a path's.
LEMMA BoundName ==
    ASSUME NEW anchor, IsText(anchor.parts), NEW path, IsText(path), IsPathKey(path),
           NEW a \in ParseAnchor(anchor)
    PROVE  LET name == [sigil |-> "automerge:", parts |-> anchor.parts \o path]
           IN  /\ IsText(name.parts)
               /\ \E n \in ParseName(name) : n.path = path /\ a \in AnchorOf(n, {Own})
<1> DEFINE text == anchor.parts[1]
           name == [sigil |-> "automerge:", parts |-> anchor.parts \o path]
<1>1. Len(anchor.parts) = 1 /\ a \in ParseDocId(text)
  BY DEF ParseAnchor
<1>2. anchor.parts = <<text>>
  BY <1>1 DEF IsText
<1>3. path \in Seq(ToSet(path))
  BY DEF IsText
<1> HIDE DEF text
<1>4. name.parts = <<text>> \o path /\ name.sigil = "automerge:"
  BY <1>2
<1> HIDE DEF name
<1>5. /\ Tail(name.parts) = path /\ name.parts[1] = text
      /\ name.parts \in Seq(ToSet(path) \cup {text}) /\ name.parts # <<>>
  BY <1>3, <1>4, Headed
<1>6. IsText(name.parts)
  BY <1>5, OwnText
<1>7. path \in ParseSegments(Remainder(name))
  <2>1. Remainder(name) = <<"">> \o path
    BY <1>5 DEF Remainder
  <2>2. Remainder(name)[1] = "" /\ Tail(Remainder(name)) = path
    BY <1>3, <2>1, Headed
  <2>3. \A i \in DOMAIN path : IsSegment(path[i])
    BY DEF IsPathKey
  <2> QED  BY <2>2, <2>3 DEF ParseSegments
<1>8. Name("Doc", a, path) \in ParseName(name)
  <2>1. AnchorPart(name) = text
    BY <1>5 DEF AnchorPart
  <2>2. Name("Doc", a, path) \in ParseDoc(name)
    BY <1>1, <1>7, <2>1 DEF ParseDoc
  <2> QED  BY <1>4, <2>2 DEF ParseName
<1>9. Name("Doc", a, path).path = path /\ a \in AnchorOf(Name("Doc", a, path), {Own})
  BY DEF Name, AnchorOf
<1> QED  BY <1>6, <1>8, <1>9 DEF name

\* held.rs bind: in every browser, what a user binds is what the name made of the same texts
\* comes to, or would come to were the target held; whatever was written and merged before.
THEOREM BoundIsAlwaysReachable == Spec => BoundIsReachable
<1>1. ASSUME Shape, [Next]_vars
      PROVE  \A d \in {x \in Browser : commands' # commands /\ docs'[x] # docs[x]},
                anchor, target \in AnchorText, path \in PathText :
                Bind(d, anchor, path, target)
                => LET name == [sigil |-> "automerge:", parts |-> anchor.parts \o path]
                   IN  \E t \in ParseAnchor(target) :
                          Outcome(docs'[d], d, name) \in
                              {Resolved(t, "TrustedSubstrate"), Unsynced(Len(path), t)}
  <2> SUFFICES ASSUME NEW d \in Browser, NEW anchor \in AnchorText, NEW target \in AnchorText,
                      NEW path \in PathText, Bind(d, anchor, path, target)
               PROVE  LET name == [sigil |-> "automerge:", parts |-> anchor.parts \o path]
                      IN  \E t \in ParseAnchor(target) :
                             Outcome(docs'[d], d, name) \in
                                 {Resolved(t, "TrustedSubstrate"), Unsynced(Len(path), t)}
    OBVIOUS
  <2> DEFINE name == [sigil |-> "automerge:", parts |-> anchor.parts \o path]
  <2>0. d \in Device /\ d \notin Native /\ IsText(anchor.parts) /\ IsText(path) /\ Shape'
    BY <1>1, ShapeNext, DocumentsAssumption DEF Device
  <2>1. PICK a \in ParseAnchor(anchor), p \in PathOf(path), t \in ParseAnchor(target) :
          /\ a \in DOMAIN docs[d]
          /\ Write("names", d, a, {Put(docs[d][a].doc, Root(p), Reference(t), clock + 1)})
    BY DEF Bind
  <2>2. p = path /\ IsPathKey(path) /\ path # <<>>
    BY DEF PathOf, IsPathKey
  <2> DEFINE doc == Put(docs[d][a].doc, Root(path), Reference(t), clock + 1)
  <2>3. Changed(d, a, Replica(doc, docs[d][a].carriage))
    BY <1>1, <2>0, <2>1, <2>2, WritesRewrite, RewrittenChanges
  <2>4. a \in DOMAIN docs'[d] /\ docs'[d][a].doc = doc
    BY <2>3, ReplicaFacts DEF Changed
  <2>5. \A b \in DOMAIN docs'[d] : docs'[d][b].carriage = "None"
    BY <2>0 DEF Shape
  <2>6. Lookup(doc, path) = {t}
    <3>1. clock + 1 \in Nat
      BY <1>1 DEF Shape
    <3> QED  BY <2>2, <3>1, LookupAfterPut
  <2> HIDE DEF doc
  <2>7. /\ AtHand(Graded(docs'[d])) /\ a \in DOMAIN Graded(docs'[d])
        /\ Graded(docs'[d])[a].doc = doc
        /\ \A b \in DOMAIN Graded(docs'[d]) : Graded(docs'[d])[b].grade = "TrustedSubstrate"
    BY <2>4, <2>5, GradedFacts
  <2>8. Walk(Graded(docs'[d]), a, path) \in {Resolved(t, "TrustedSubstrate"), Unsynced(Len(path), t)}
    <3>1. path \in Seq(ToSet(path))
      BY <2>0 DEF IsText
    <3> QED  BY <2>2, <2>6, <2>7, <3>1, OneHop
  <2>9. IsText(name.parts) /\ \E n \in ParseName(name) : n.path = path /\ a \in AnchorOf(n, {Own})
    BY <2>0, <2>2, BoundName
  <2> HIDE DEF name
  <2>10. ResolveHeld(docs'[d], name, {Own}) = Walk(Graded(docs'[d]), a, path)
    <3>1. PICK n \in ParseName(name) : n.path = path /\ a \in AnchorOf(n, {Own})
      BY <2>9
    <3> QED  BY <2>4, <2>9, <3>1, ResolvedByName
  <2>11. Outcome(docs'[d], d, name) = Walk(Graded(docs'[d]), a, path)
    BY <2>0, <2>10 DEF Outcome
  <2> QED  BY <2>8, <2>11 DEF name
<1> QED  BY <1>1, ShapeAlways, PTL DEF Spec, BoundIsReachable

-----------------------------------------------------------------------------
\* What an element of bytes makes of its list: itself, and nothing else.
LEMMA ElementPut ==
    ASSUME NEW doc, NEW l, NEW id \in Nat \ {0}, NEW unit, NEW stamp \in Nat,
           NEW new, new = Put(doc, Element(l, id), Bytes(unit), stamp),
           NEW c \in Nat, OwnShape(new, c)
    PROVE  /\ id \in Holding(new, l) /\ UnitAt(new, l, id) = unit
           /\ \A k : k # Element(l, id) => At(new, k) = At(doc, k) /\ Winner(new, k) = Winner(doc, k)
           /\ \A x : x # id => Element(l, x) # Element(l, id)
           /\ CertificatesKey # Element(l, id)
<1> DEFINE key == Element(l, id)
<1>1. At(new, key) = {New(key, Bytes(unit), stamp)} /\ \A k : k # key => At(new, k) = At(doc, k)
  BY PutFacts
<1>2. New(key, Bytes(unit), stamp).stamp = stamp /\ New(key, Bytes(unit), stamp).value = Bytes(unit)
  BY DEF New
<1>3. Winner(new, key) = New(key, Bytes(unit), stamp)
  BY <1>1, <1>2, OneWrite
<1>4. Winner(new, key).value.kind = "Bytes" /\ Winner(new, key).value.unit = unit
  BY <1>2, <1>3 DEF Bytes
<1>5. id \in ElementsOf(new, l)
  BY <1>1, ElementsAre
<1>6. \A k : k # key => Winner(new, k) = Winner(doc, k)
  BY <1>1 DEF Winner
<1>7. /\ \A x : x # id => Element(l, x) # Element(l, id)
      /\ CertificatesKey # Element(l, id)
  BY KeysAreShaped DEF Element, CertificatesKey
<1> QED  BY <1>1, <1>4, <1>5, <1>6, <1>7 DEF Holding, UnitAt

\* put, of a document that was seen up to now.
LEMMA PutKeeps ==
    ASSUME NEW doc, NEW c \in Nat, OwnShape(doc, c), AllBytes(doc), NEW unit,
           NEW new \in PutCertificate(doc, unit, c + 1), OwnShape(new, c + 2)
    PROVE  LET before == Listed(Locate(doc))
               after == Listed(Locate(new))
           IN  /\ unit \in ToSet(after)
               /\ \A u \in ToSet(before) : u \in ToSet(after) \/ SameCertificate(u, unit)
               /\ Len(after) > Len(before) => \A u \in ToSet(before) : ~SameCertificate(u, unit)
<1> DEFINE before == Listed(Locate(doc))
           after == Listed(Locate(new))
<1>0. c + 1 + 1 = c + 2 /\ c + 1 \in Nat /\ c + 2 \in Nat \ {0}
  OBVIOUS
<1>1. CASE /\ At(doc, CertificatesKey) = {}
           /\ new = Put(Put(doc, CertificatesKey, List, c + 1),
                        Element(c + 1, c + 2), Bytes(unit), c + 2)
  <2> DEFINE ready == Put(doc, CertificatesKey, List, c + 1)
  <2>1. before = <<>>
    BY <1>1, LocateIs
  <2>2. At(ready, CertificatesKey) = {New(CertificatesKey, List, c + 1)}
    BY PutFacts
  <2> HIDE DEF ready
  <2>3. /\ c + 2 \in Holding(new, c + 1) /\ UnitAt(new, c + 1, c + 2) = unit
        /\ At(new, CertificatesKey) = At(ready, CertificatesKey)
    BY <1>0, <1>1, ElementPut DEF ready
  <2>4. New(CertificatesKey, List, c + 1).stamp = c + 1 /\ New(CertificatesKey, List, c + 1).value.kind = "List"
    BY DEF New, List
  <2>5. Winner(new, CertificatesKey) = New(CertificatesKey, List, c + 1)
    BY <1>0, <2>2, <2>3, <2>4, OneWrite
  <2>6. HasList(new) /\ ListOf(new) = c + 1
    BY <2>2, <2>3, <2>4, <2>5 DEF HasList, ListOf
  <2>7. after = ByteEntries(new, c + 1)
    BY <1>0, <2>6, LocateIs
  <2>8. unit \in ToSet(after)
    BY <1>0, <2>3, <2>7, EntriesAre
  <2>9. ToSet(before) = {}
    BY <2>1 DEF ToSet
  <2> QED  BY <2>8, <2>9
<1>2. ASSUME HasList(doc), NEW id,
             new = Put(doc, Element(ListOf(doc), id), Bytes(unit), c + 2),
             \/ /\ id = c + 2
                /\ \A x \in Holding(doc, ListOf(doc)) : ~SameCertificate(UnitAt(doc, ListOf(doc), x), unit)
             \/ /\ id \in ElementsOf(doc, ListOf(doc))
                /\ AllBytes(doc) => SameCertificate(UnitAt(doc, ListOf(doc), id), unit)
      PROVE  /\ unit \in ToSet(after)
             /\ \A u \in ToSet(before) : u \in ToSet(after) \/ SameCertificate(u, unit)
             /\ Len(after) > Len(before) => \A u \in ToSet(before) : ~SameCertificate(u, unit)
  <2> DEFINE l == ListOf(doc)
             all == ElementsOf(doc, l)
  <2>1. before = ByteEntries(doc, l) /\ ObjectAt(doc, CertificatesKey, "List") = {l}
    BY <1>2, LocateIs
  <2>2. /\ all \in SUBSET (0..c) /\ \A x : x \in all <=> x # 0 /\ At(doc, Element(l, x)) # {}
    BY ElementsAre
  <2>3. Holding(doc, l) = all
    BY <2>1 DEF AllBytes, Holding
  <2> HIDE DEF l, all
  <2>4. id \in Nat \ {0} /\ (id = c + 2 => id \notin all)
    BY <1>0, <1>2, <2>2 DEF l, all
  <2>5. /\ id \in Holding(new, l) /\ UnitAt(new, l, id) = unit
        /\ \A k : k # Element(l, id) => At(new, k) = At(doc, k) /\ Winner(new, k) = Winner(doc, k)
        /\ \A x : x # id => Element(l, x) # Element(l, id)
        /\ CertificatesKey # Element(l, id)
    <3>1. new = Put(doc, Element(l, id), Bytes(unit), c + 2) /\ OwnShape(new, c + 2)
      BY <1>2 DEF l
    <3> HIDE DEF before, after
    <3> QED  BY <1>0, <2>4, <3>1, ElementPut
  <2>6. HasList(new) /\ ListOf(new) = l
    BY <1>2, <2>5 DEF HasList, ListOf, l
  <2>7. after = ByteEntries(new, l)
    BY <1>0, <2>6, LocateIs
  <2>8. Holding(new, l) = all \cup {id} /\ \A x \in all : x # id => UnitAt(new, l, x) = UnitAt(doc, l, x)
    <3>1. \A x : x \in ElementsOf(new, l) <=> x # 0 /\ At(new, Element(l, x)) # {}
      BY <1>0, ElementsAre
    <3>2. ASSUME NEW x, x # id
          PROVE  /\ x \in Holding(new, l) <=> x \in Holding(doc, l)
                 /\ UnitAt(new, l, x) = UnitAt(doc, l, x)
      <4>1. Winner(new, Element(l, x)) = Winner(doc, Element(l, x)) /\ At(new, Element(l, x)) = At(doc, Element(l, x))
        BY <2>5, <3>2
      <4>2. x \in ElementsOf(new, l) <=> x \in all
        BY <2>2, <3>1, <4>1
      <4> QED  BY <4>1, <4>2 DEF Holding, UnitAt, all
    <3> QED  BY <2>3, <2>5, <3>2
  <2>9. /\ Len(before) = Cardinality(all) /\ Cardinality(all) \in Nat
        /\ ToSet(before) = {UnitAt(doc, l, x) : x \in all}
    BY <2>1, <2>3, EntriesAre
  <2>10. /\ Len(after) = Cardinality(all \cup {id})
         /\ ToSet(after) = {UnitAt(new, l, x) : x \in all \cup {id}}
    BY <1>0, <2>7, <2>8, EntriesAre
  <2>11. unit \in ToSet(after)
    BY <2>5, <2>10
  <2>12. \/ id = c + 2 /\ \A x \in all : ~SameCertificate(UnitAt(doc, l, x), unit)
         \/ id \in all /\ SameCertificate(UnitAt(doc, l, id), unit)
    BY <1>2, <2>3 DEF l, all
  <2>13. ASSUME NEW u \in ToSet(before)  PROVE  u \in ToSet(after) \/ SameCertificate(u, unit)
    <3>1. PICK x \in all : u = UnitAt(doc, l, x)
      BY <2>9
    <3>2. CASE x # id
      BY <2>8, <2>10, <3>1, <3>2
    <3>3. CASE x = id
      BY <2>4, <2>12, <3>1, <3>3
    <3> QED  BY <3>2, <3>3
  <2>14. ASSUME Len(after) > Len(before), NEW u \in ToSet(before)  PROVE  ~SameCertificate(u, unit)
    <3>1. id \notin all
      <4>1. id \in all => all \cup {id} = all
        OBVIOUS
      <4>2. ~(Len(before) > Len(before))
        <5>1. Len(before) \in Nat
          BY <2>9
        <5> HIDE DEF before
        <5> QED  BY <5>1
      <4>3. id \in all => Len(after) = Len(before)
        BY <2>9, <2>10, <4>1
      <4> HIDE DEF before, after
      <4> QED  BY <2>14, <4>2, <4>3
    <3> QED  BY <2>9, <2>12, <3>1
  <2> QED  BY <2>11, <2>13, <2>14
<1>3. \/ /\ At(doc, CertificatesKey) = {}
           /\ new = Put(Put(doc, CertificatesKey, List, c + 1),
                        Element(c + 1, c + 2), Bytes(unit), c + 2)
        \/ /\ HasList(doc)
           /\ \E id : /\ new = Put(doc, Element(ListOf(doc), id), Bytes(unit), c + 2)
                     /\ \/ /\ id = c + 2
                           /\ \A x \in Holding(doc, ListOf(doc)) :
                                 ~SameCertificate(UnitAt(doc, ListOf(doc), x), unit)
                        \/ /\ id \in ElementsOf(doc, ListOf(doc))
                           /\ AllBytes(doc) => SameCertificate(UnitAt(doc, ListOf(doc), id), unit)
  <2> DEFINE next == c + 1 + 1
  <2>1. \/ /\ At(doc, CertificatesKey) = {}
           /\ new = Put(Put(doc, CertificatesKey, List, c + 1),
                        Element(c + 1, next), Bytes(unit), next)
        \/ /\ HasList(doc)
           /\ \E id : /\ new = Put(doc, Element(ListOf(doc), id), Bytes(unit), next)
                     /\ \/ /\ id = next
                           /\ \A x \in Holding(doc, ListOf(doc)) :
                                 ~SameCertificate(UnitAt(doc, ListOf(doc), x), unit)
                        \/ /\ id \in ElementsOf(doc, ListOf(doc))
                           /\ AllBytes(doc) => SameCertificate(UnitAt(doc, ListOf(doc), id), unit)
    BY PutCertificateIs, Zenon
  <2>2. next = c + 2
    OBVIOUS
  <2> HIDE DEF next
  <2> QED  BY <2>1, <2>2, Zenon
<1>4. CASE HasList(doc) /\ ~(At(doc, CertificatesKey) = {})
  <2>1. PICK id : /\ new = Put(doc, Element(ListOf(doc), id), Bytes(unit), c + 2)
                  /\ \/ /\ id = c + 2
                        /\ \A x \in Holding(doc, ListOf(doc)) :
                              ~SameCertificate(UnitAt(doc, ListOf(doc), x), unit)
                     \/ /\ id \in ElementsOf(doc, ListOf(doc))
                        /\ AllBytes(doc) => SameCertificate(UnitAt(doc, ListOf(doc), id), unit)
    BY <1>3, <1>4, Zenon
  <2> QED  BY <1>2, <1>4, <2>1, Zenon
<1>5. HasList(doc) => ~(At(doc, CertificatesKey) = {})
  BY DEF HasList
<1> QED  BY <1>1, <1>3, <1>4, <1>5, Zenon

\* certificates.rs put: a certificate stored again replaces the one it renews, and no other
\* certificate of a list of bytes is lost, whatever was written to the list before.
THEOREM PutsKeepOthers == Spec => PutKeepsOthers
<1>1. ASSUME Shape, [Next]_vars
      PROVE  \A d \in {x \in Device : Own \in DOMAIN docs[x]}, unit \in Unit :
                StoreCertificate(d, unit) /\ AllBytes(OwnDoc(d))
                => LET before == Listed(Locate(OwnDoc(d)))
                       after == Listed(Locate(OwnDoc(d)'))
                   IN  /\ unit \in ToSet(after)
                       /\ \A u \in ToSet(before) : u \in ToSet(after) \/ SameCertificate(u, unit)
                       /\ Len(after) > Len(before)
                          => \A u \in ToSet(before) : ~SameCertificate(u, unit)
  <2> SUFFICES ASSUME NEW d \in Device, Own \in DOMAIN docs[d], NEW unit \in Unit,
                      StoreCertificate(d, unit), AllBytes(OwnDoc(d))
               PROVE  LET before == Listed(Locate(OwnDoc(d)))
                          after == Listed(Locate(OwnDoc(d)'))
                      IN  /\ unit \in ToSet(after)
                          /\ \A u \in ToSet(before) : u \in ToSet(after) \/ SameCertificate(u, unit)
                          /\ Len(after) > Len(before)
                             => \A u \in ToSet(before) : ~SameCertificate(u, unit)
    OBVIOUS
  <2>1. clock \in Nat /\ OwnShape(OwnDoc(d), clock)
    BY <1>1 DEF Shape
  <2>2. PICK doc \in PutCertificate(OwnDoc(d), unit, clock + 1) : Rewritten(d, Own, doc)
    BY WritesRewrite DEF StoreCertificate
  <2>3. Changed(d, Own, Replica(doc, docs[d][Own].carriage))
    BY <1>1, <2>2, RewrittenChanges
  <2>4. Own \in DOMAIN docs'[d] /\ OwnDoc(d)' = doc /\ clock' = clock + 2
    BY <2>2, <2>3, ReplicaFacts DEF Changed, OwnDoc, Rewritten
  <2>5. OwnShape(doc, clock + 2)
    <3>1. OwnShape(OwnDoc(d)', clock')
      BY <1>1, <2>4, ShapeNext DEF Shape
    <3> QED  BY <2>4, <3>1
  <2> QED  BY <2>1, <2>2, <2>4, <2>5, PutKeeps
<1> QED  BY <1>1, ShapeAlways, PTL DEF Spec, PutKeepsOthers
=============================================================================
