--------------------------- MODULE ReplicasProofs ---------------------------
(***************************************************************************)
(* The stores of any number of devices: they are grow-only sets that lose  *)
(* only refreshes, and the order in which they list their items cannot be  *)
(* seen in what the derivation reads of them.                              *)
(***************************************************************************)
EXTENDS Replicas, FiniteSetTheorems, TLAPS

-----------------------------------------------------------------------------
\* Insertion and merging.

\* One store is as StoreOK has it: each item once, and seen what is held.
Sound(s) ==
    /\ s \in [items : Seq(Item), seen : SUBSET Item]
    /\ s.seen = ToSet(s.items)
    /\ \A m, n \in DOMAIN s.items : s.items[m] = s.items[n] => m = n

\* An item inserted is held, and seen, once.
LEMMA InsertOne ==
    ASSUME NEW s, Sound(s), NEW i \in Item
    PROVE  Sound(Insert(s, i)) /\ Insert(s, i).seen = s.seen \cup {i}
<1>1. CASE i \in s.seen
  BY <1>1 DEF Sound, Insert
<1>2. CASE i \notin s.seen
  <2> DEFINE t == Append(s.items, i)
  <2>1. Insert(s, i) = [items |-> t, seen |-> s.seen \cup {i}]
    BY <1>2 DEF Insert
  <2>2. /\ s.items \in Seq(Item) /\ s.seen \in SUBSET Item
        /\ \A m, n \in 1..Len(s.items) : s.items[m] = s.items[n] => m = n
        /\ \A m \in 1..Len(s.items) : s.items[m] # i
    BY <1>2 DEF Sound, ToSet
  <2>3. /\ t \in Seq(Item) /\ DOMAIN t = 1..(Len(s.items) + 1)
        /\ \A m \in 1..Len(s.items) : t[m] = s.items[m]
        /\ t[Len(s.items) + 1] = i
    BY <2>2
  <2>4. ToSet(t) = ToSet(s.items) \cup {i}
    <3>1. DOMAIN s.items = 1..Len(s.items)
      BY <2>2
    <3>2. \A m \in DOMAIN t : m \in 1..Len(s.items) \/ m = Len(s.items) + 1
      BY <2>2, <2>3
    <3> HIDE DEF t
    <3> QED  BY <2>2, <2>3, <3>1, <3>2 DEF ToSet
  <2>5. \A m, n \in DOMAIN t : t[m] = t[n] => m = n
    <3>1. \A m \in DOMAIN t : m \in 1..Len(s.items) \/ m = Len(s.items) + 1
      BY <2>2, <2>3
    <3> HIDE DEF t
    <3> QED  BY <2>2, <2>3, <3>1
  <2> HIDE DEF t
  <2>6. s.seen = ToSet(s.items)
    BY DEF Sound
  <2> QED  BY <2>1, <2>2, <2>3, <2>4, <2>5, <2>6 DEF Sound
<1> QED  BY <1>1, <1>2

\* The loop of union and of FromIterator, over the store it began with.
InsertStep(before, s, i) == Insert(s, i)

Inserted(before, items, k, s) ==
    Sound(s) /\ s.seen = before.seen \cup {items[n] : n \in 1..k}

Inserting == INSTANCE Folding WITH Step <- InsertStep, Holds <- Inserted

\* The fold inserts every item of the list, in whatever order they come.
LEMMA InsertAll ==
    ASSUME NEW s, Sound(s), NEW items \in Seq(Item)
    PROVE  /\ Sound(FoldLeft(Insert, s, items))
           /\ FoldLeft(Insert, s, items).seen = s.seen \cup ToSet(items)
<1> DEFINE n == Len(items)
           end == Inserting!Run(s, s, items)[DOMAIN items]
<1>1. FoldLeft(Insert, s, items) = end
  BY Zenon DEF FoldLeft, MapThenFoldSet, Max, InsertStep, Inserting!Run, Inserting!Runs,
               Inserting!Greatest
<1>2. n \in Nat /\ DOMAIN items = 1..n
  OBVIOUS
<1>3. Inserted(s, items, 0, s)
  BY DEF Inserted
<1>4. ASSUME NEW k \in 1..n, NEW t, Inserted(s, items, k - 1, t)
      PROVE  Inserted(s, items, k, InsertStep(s, t, items[k]))
  <2>1. items[k] \in Item /\ Sound(t)
    BY <1>4 DEF Inserted
  <2>2. Sound(Insert(t, items[k])) /\ Insert(t, items[k]).seen = t.seen \cup {items[k]}
    BY <2>1, InsertOne
  <2>3. {items[m] : m \in 1..k} = {items[m] : m \in 1..(k-1)} \cup {items[k]}
    <3>1. \A m \in 1..k : m \in 1..(k-1) \/ m = k
      OBVIOUS
    <3>2. \A m \in 1..(k-1) : m \in 1..k
      OBVIOUS
    <3> QED  BY <3>1, <3>2
  <2> QED  BY <1>4, <2>2, <2>3 DEF Inserted, InsertStep
<1>5. Inserted(s, items, n, end)
  <2> HIDE DEF end
  <2> QED  BY <1>2, <1>3, <1>4, Inserting!Kept DEF end
<1> HIDE DEF end
<1> QED  BY <1>1, <1>2, <1>5 DEF Inserted, ToSet

\* A list of a finite set, without repetition, lists all of it.
LEMMA ListsAll ==
    ASSUME NEW S, IsFiniteSet(S), NEW f \in [1..Cardinality(S) -> S],
           \A i, j \in 1..Cardinality(S) : i # j => f[i] # f[j]
    PROVE  f \in Seq(S) /\ ToSet(f) = S
<1> DEFINE n == Cardinality(S)
<1>1. n \in Nat
  BY FS_CardinalityType
<1>2. IsFiniteSet(1..n) /\ Cardinality(1..n) = n
  BY <1>1, FS_Interval
<1>3. f \in Seq(S) /\ DOMAIN f = 1..n
  BY <1>1
<1>4. \A y \in S : \E x \in 1..n : f[x] = y
  <2> SUFFICES ASSUME NEW y \in S, \A x \in 1..n : f[x] # y  PROVE FALSE
    OBVIOUS
  <2>1. f \in [1..n -> S \ {y}]
    OBVIOUS
  <2>2. IsFiniteSet(S \ {y}) /\ Cardinality(S \ {y}) = n - 1
    BY FS_RemoveElement
  <2>3. PICK i, j \in 1..n : i # j /\ f[i] = f[j]
    BY <1>1, <1>2, <2>1, <2>2, FS_PigeonHole
  <2> QED  BY <2>3
<1>5. ToSet(f) = S
  BY <1>3, <1>4 DEF ToSet
<1> QED  BY <1>3, <1>5

\* What a store has seen is finite, being what its list holds.
LEMMA SeenIsFinite ==
    ASSUME NEW s, Sound(s)
    PROVE  IsFiniteSet(s.seen)
<1>1. s.items \in Seq(Item) /\ s.seen = ToSet(s.items)
  BY DEF Sound
<1> DEFINE n == Len(s.items)
<1>2. n \in Nat /\ DOMAIN s.items = 1..n /\ s.items \in [1..n -> Item]
  BY <1>1
<1>3. IsFiniteSet(1..n)
  BY <1>2, FS_Interval
<1>4. s.items \in Surjection(1..n, s.seen)
  BY <1>1, <1>2 DEF Surjection, ToSet
<1> QED  BY <1>3, <1>4, FS_Surjection

-----------------------------------------------------------------------------
\* What a store is, however it came about.

LEMMA EmptyIsSound == Sound(EmptyStore) /\ EmptyStore.seen = {}
BY DEF Sound, EmptyStore, ToSet

\* Merging a peer's store is the union of the two sets.
LEMMA UnionIsUnion ==
    ASSUME NEW s, NEW t, Sound(s), Sound(t)
    PROVE  Sound(Union(s, t)) /\ Union(s, t).seen = s.seen \cup t.seen
<1>1. t.items \in Seq(Item) /\ t.seen = ToSet(t.items)
  BY DEF Sound
<1> QED  BY <1>1, InsertAll DEF Union

\* Reading a directory back, in whatever order it lists its files.
LEMMA ReloadedIs ==
    ASSUME NEW S \in SUBSET Item, IsFiniteSet(S), NEW listing \in SetToSeqs(S)
    PROVE  Sound(FromItems(listing)) /\ FromItems(listing).seen = S
<1>1. listing \in Seq(S) /\ ToSet(listing) = S
  BY ListsAll DEF SetToSeqs
<1>2. listing \in Seq(Item)
  BY <1>1
<1>3. /\ Sound(FromItems(listing))
      /\ FromItems(listing).seen = EmptyStore.seen \cup ToSet(listing)
  BY <1>2, EmptyIsSound, InsertAll DEF FromItems
<1> QED  BY <1>1, <1>3, EmptyIsSound

\* Every store of the pool is sound.
Stores == store = [r \in Replica |-> store[r]] /\ \A r \in Replica : Sound(store[r])

LEMMA StoresStep == Stores /\ [StoresNext]_store => Stores'
<1> SUFFICES ASSUME Stores, [StoresNext]_store  PROVE Stores'
  OBVIOUS
<1> USE DEF Stores
<1>1. ASSUME NEW r \in Replica, NEW i \in Item, Receive(r, i)  PROVE Stores'
  BY <1>1, InsertOne DEF Receive
<1>2. ASSUME NEW r \in Replica, NEW q \in Replica, Merge(r, q)  PROVE Stores'
  BY <1>2, UnionIsUnion DEF Merge
<1>3. ASSUME NEW r \in Replica, Reload(r)  PROVE Stores'
  <2>1. PICK listing \in SetToSeqs(store[r].seen \ Ephemeral) :
           store' = [store EXCEPT ![r] = FromItems(listing)]
    BY <1>3 DEF Reload
  <2>2. store[r].seen \ Ephemeral \in SUBSET Item /\ IsFiniteSet(store[r].seen \ Ephemeral)
    BY SeenIsFinite, FS_Difference DEF Sound
  <2>3. Sound(FromItems(listing))
    BY <2>2, ReloadedIs
  <2> QED  BY <2>1, <2>3
<1>4. CASE UNCHANGED store
  BY <1>4
<1> QED  BY <1>1, <1>2, <1>3, <1>4 DEF StoresNext

\* No store ever holds an item twice, or has seen what it does not hold, which would
\* suppress that item for ever: after any sequence of receipts, merges and restarts
\* (store.rs: insert and union keep items and the set of hashes together).
THEOREM StoresStaySound == StoresSpec => []StoreOK
<1>1. StoresInit => Stores
  BY EmptyIsSound DEF StoresInit, Stores
<1>2. Stores => StoreOK
  <2> SUFFICES ASSUME Stores  PROVE StoreOK
    OBVIOUS
  <2>1. store \in [Replica -> [items : Seq(Item), seen : SUBSET Item]]
    BY DEF Stores, Sound
  <2> QED  BY <2>1 DEF Stores, Sound, StoreOK
<1> QED  BY <1>1, <1>2, StoresStep, PTL DEF StoresSpec

\* The stores implement the abstract pool: sets that anyone adds to, that merge by
\* union, and that lose nothing but the refreshes of a process that ends; every step
\* of a store is a step of the pool (store.rs, store_dir.rs: an in-memory store and a
\* directory of unit files).
THEOREM StoresImplementPool == StoresSpec => PoolSpec
<1> DEFINE held(r) == ToSet(store[r].items)
           pool == [r \in Replica |-> held(r)]
<1>1. StoresInit => Stores /\ Pool!Init
  BY EmptyIsSound DEF StoresInit, Stores, Pool!Init, EmptyStore, ToSet
<1>2. ASSUME Stores, StoresNext  PROVE Pool!Next
  <2>1. Stores'
    BY <1>2, StoresStep
  <2>2. \A r \in Replica : pool[r] = store[r].seen /\ pool'[r] = store'[r].seen
    BY <1>2, <2>1 DEF Stores, Sound
  <2>3. pool' \in [Replica -> SUBSET Item]
    BY <2>1, <2>2 DEF Stores, Sound
  <2> HIDE DEF pool, held
  <2>4. ASSUME NEW r \in Replica, store[r].seen \subseteq store'[r].seen,
               \A q \in Replica \ {r} : store'[q] = store[q]
        PROVE  Pool!Next
    <3>1. Pool!Learn(r)
      BY <2>2, <2>3, <2>4 DEF Pool!Learn, pool, held
    <3> QED  BY <3>1 DEF Pool!Next
  <2>5. ASSUME NEW r \in Replica, NEW i \in Item, Receive(r, i)  PROVE Pool!Next
    <3>1. store' = [store EXCEPT ![r] = Insert(store[r], i)] /\ Sound(store[r])
      BY <1>2, <2>5 DEF Receive, Stores
    <3>2. store[r].seen \subseteq store'[r].seen /\ \A q \in Replica \ {r} : store'[q] = store[q]
      BY <1>2, <3>1, InsertOne DEF Stores
    <3> QED  BY <2>4, <3>2
  <2>6. ASSUME NEW r \in Replica, NEW q \in Replica, Merge(r, q)  PROVE Pool!Next
    <3>1. store' = [store EXCEPT ![r] = Union(store[r], store[q])]
          /\ Sound(store[r]) /\ Sound(store[q])
      BY <1>2, <2>6 DEF Merge, Stores
    <3>2. store[r].seen \subseteq store'[r].seen /\ \A p \in Replica \ {r} : store'[p] = store[p]
      BY <1>2, <3>1, UnionIsUnion DEF Stores
    <3> QED  BY <2>4, <3>2
  <2>7. ASSUME NEW r \in Replica, Reload(r)  PROVE Pool!Next
    <3>1. PICK listing \in SetToSeqs(store[r].seen \ Ephemeral) :
             store' = [store EXCEPT ![r] = FromItems(listing)]
      BY <2>7 DEF Reload
    <3>2. store[r].seen \ Ephemeral \in SUBSET Item /\ IsFiniteSet(store[r].seen \ Ephemeral)
      BY <1>2, SeenIsFinite, FS_Difference DEF Stores, Sound
    <3>3. FromItems(listing).seen = store[r].seen \ Ephemeral
      BY <3>2, ReloadedIs
    <3>4. store'[r].seen = store[r].seen \ Ephemeral
          /\ \A q \in Replica \ {r} : store'[q].seen = store[q].seen
      BY <1>2, <3>1, <3>3 DEF Stores
    <3>5. \A q \in Replica : pool'[q] = IF q = r THEN pool[r] \ Ephemeral ELSE pool[q]
      BY <2>2, <3>4
    <3>6. Pool!Lose(r)
      BY <3>5 DEF Pool!Lose, pool, held
    <3> QED  BY <3>6 DEF Pool!Next
  <2> QED  BY <1>2, <2>5, <2>6, <2>7 DEF StoresNext
<1>3. Stores /\ [StoresNext]_store => [Pool!Next]_pool
  BY <1>2
<1>4. StoresInit => Stores
  BY <1>1
<1> QED  BY <1>1, <1>3, <1>4, StoresStep, PTL DEF StoresSpec, PoolSpec, Pool!Spec

-----------------------------------------------------------------------------
\* The loop of stage 1: what it has found of statements.

\* The map of provenance says exactly this: which authorized statements stand by
\* themselves, and which certificate carries which.
CarriersIn(carried, s) == {c \in Hash : <<c, s>> \in carried}

Told(here, carried) ==
    {s \in Hash : Content[s].authorized /\ (s \in here \/ CarriersIn(carried, s) # {})}

Tells(found, here, carried) ==
    /\ DOMAIN found = Told(here, carried)
    /\ \A s \in DOMAIN found : /\ found[s] = [standalone |-> s \in here, carriers |-> CarriersIn(carried, s)]

\* What is known of a statement before it is noted once more.
KnownOf(found, s) ==
    IF s \in DOMAIN found THEN found[s] ELSE [standalone |-> FALSE, carriers |-> {}]

\* Noting an authorized statement adds one entry or replaces it.
LEMMA Noted ==
    ASSUME NEW found, NEW s, NEW carrier, Content[s].authorized
    PROVE  /\ DOMAIN Note(found, s, carrier) = DOMAIN found \cup {s}
           /\ Note(found, s, carrier)[s] = [standalone |-> KnownOf(found, s).standalone \/ carrier = {},
                                            carriers   |-> KnownOf(found, s).carriers \cup carrier]
           /\ \A t \in DOMAIN found \ {s} : Note(found, s, carrier)[t] = found[t]
BY DEF Note, KnownOf

\* What was known of a statement, whether or not it had been noted.
LEMMA KnownIs ==
    ASSUME NEW found, NEW here, NEW carried, Tells(found, here, carried),
           NEW s \in Hash, Content[s].authorized
    PROVE  KnownOf(found, s) = [standalone |-> s \in here, carriers |-> CarriersIn(carried, s)]
<1>1. CASE s \in DOMAIN found
  BY <1>1 DEF Tells, KnownOf
<1>2. CASE s \notin DOMAIN found
  <2>1. s \notin here /\ CarriersIn(carried, s) = {}
    BY <1>2 DEF Tells, Told
  <2>2. KnownOf(found, s) = [standalone |-> FALSE, carriers |-> {}]
    BY <1>2 DEF KnownOf
  <2>3. (s \in here) = FALSE
    BY <2>1
  <2> QED  BY <2>1, <2>2, <2>3
<1> QED  BY <1>1, <1>2

\* Noting a statement that stands by itself, whatever was known of it.
LEMMA NoteStandalone ==
    ASSUME NEW found, NEW here, NEW carried, Tells(found, here, carried), NEW s \in Hash
    PROVE  Tells(Note(found, s, {}), here \cup {s}, carried)
<1> DEFINE after == Note(found, s, {})
           more == here \cup {s}
<1>1. CASE ~Content[s].authorized
  <2>1. after = found /\ Told(more, carried) = Told(here, carried)
    BY <1>1 DEF Note, Told
  <2>2. \A t \in DOMAIN found : t # s /\ (t \in here) = (t \in more)
    BY <1>1 DEF Tells, Told
  <2> HIDE DEF after, more
  <2> QED  BY <2>1, <2>2 DEF Tells, after, more
<1>2. CASE Content[s].authorized
  <2>1. /\ DOMAIN after = DOMAIN found \cup {s}
        /\ after[s] = [standalone |-> KnownOf(found, s).standalone \/ {} = {},
                       carriers   |-> KnownOf(found, s).carriers \cup {}]
        /\ \A t \in DOMAIN found \ {s} : after[t] = found[t]
    BY <1>2, Noted
  <2>2. DOMAIN after = Told(more, carried)
    BY <1>2, <2>1 DEF Tells, Told
  <2>3. after[s] = [standalone |-> TRUE, carriers |-> CarriersIn(carried, s)]
    <3>1. (KnownOf(found, s).standalone \/ {} = {}) = TRUE
      OBVIOUS
    <3>2. KnownOf(found, s) = [standalone |-> s \in here, carriers |-> CarriersIn(carried, s)]
      BY <1>2, KnownIs
    <3>3. KnownOf(found, s).carriers \cup {} = CarriersIn(carried, s)
      BY <3>2
    <3> HIDE DEF after
    <3> QED  BY <2>1, <3>1, <3>3
  <2> HIDE DEF after
  <2>4. ASSUME NEW t \in DOMAIN after
        PROVE  after[t] = [standalone |-> t \in more, carriers |-> CarriersIn(carried, t)]
    <3>1. CASE t = s
      <4>1. (t \in more) = TRUE
        BY <3>1
      <4> QED  BY <2>3, <3>1, <4>1
    <3>2. CASE t # s
      <4>1. t \in DOMAIN found /\ (t \in more) = (t \in here)
        BY <2>1, <3>2
      <4>2. found[t] = [standalone |-> t \in here, carriers |-> CarriersIn(carried, t)]
        BY <4>1 DEF Tells
      <4> QED  BY <2>1, <3>2, <4>1, <4>2
    <3> QED  BY <3>1, <3>2
  <2> QED  BY <2>2, <2>4 DEF Tells, after
<1> QED  BY <1>1, <1>2

\* Noting a statement that a certificate carries, whatever was known of it.
LEMMA NoteCarrier ==
    ASSUME NEW found, NEW here, NEW carried, Tells(found, here, carried),
           NEW c \in Hash, NEW s \in Hash
    PROVE  Tells(Note(found, s, {c}), here, carried \cup {<<c, s>>})
<1> DEFINE after == Note(found, s, {c})
           more == carried \cup {<<c, s>>}
<1>0. /\ CarriersIn(more, s) = CarriersIn(carried, s) \cup {c}
      /\ \A t : t # s => CarriersIn(more, t) = CarriersIn(carried, t)
  BY DEF CarriersIn
<1> HIDE DEF more
<1>1. CASE ~Content[s].authorized
  <2>1. after = found /\ Told(here, more) = Told(here, carried)
    BY <1>0, <1>1 DEF Note, Told
  <2>2. \A t \in DOMAIN found : t # s
    BY <1>1 DEF Tells, Told
  <2> HIDE DEF after
  <2> QED  BY <1>0, <2>1, <2>2 DEF Tells, after, more
<1>2. CASE Content[s].authorized
  <2>1. /\ DOMAIN after = DOMAIN found \cup {s}
        /\ after[s] = [standalone |-> KnownOf(found, s).standalone \/ {c} = {},
                       carriers   |-> KnownOf(found, s).carriers \cup {c}]
        /\ \A t \in DOMAIN found \ {s} : after[t] = found[t]
    BY <1>2, Noted
  <2>2. DOMAIN after = Told(here, more)
    BY <1>0, <1>2, <2>1 DEF Tells, Told
  <2>3. after[s] = [standalone |-> s \in here, carriers |-> CarriersIn(more, s)]
    <3>1. KnownOf(found, s) = [standalone |-> s \in here, carriers |-> CarriersIn(carried, s)]
      BY <1>2, KnownIs
    <3>2. (KnownOf(found, s).standalone \/ {c} = {}) = (s \in here)
      <4>1. {c} # {}
        OBVIOUS
      <4>2. KnownOf(found, s).standalone = (s \in here)
        BY <3>1
      <4>3. KnownOf(found, s).standalone <=> s \in here
        BY <4>2
      <4>4. (KnownOf(found, s).standalone \/ {c} = {}) <=> s \in here
        BY <4>1, <4>3
      <4> QED  BY <4>4
    <3>3. KnownOf(found, s).carriers \cup {c} = CarriersIn(more, s)
      BY <1>0, <3>1
    <3> QED  BY <2>1, <3>2, <3>3
  <2> HIDE DEF after
  <2>4. ASSUME NEW t \in DOMAIN after
        PROVE  after[t] = [standalone |-> t \in here, carriers |-> CarriersIn(more, t)]
    <3>1. CASE t = s
      BY <2>3, <3>1
    <3>2. CASE t # s
      <4>1. t \in DOMAIN found
        BY <2>1, <3>2
      <4>2. found[t] = [standalone |-> t \in here, carriers |-> CarriersIn(carried, t)]
        BY <4>1 DEF Tells
      <4> QED  BY <1>0, <2>1, <3>2, <4>1, <4>2
    <3> QED  BY <3>1, <3>2
  <2> QED  BY <2>2, <2>4 DEF Tells, after, more
<1> QED  BY <1>1, <1>2

\* A certificate's statements, in the order in which the loop goes through them.
LEMMA ListedStatements ==
    ASSUME NEW c \in OfKind("Record")
    PROVE  LET S == Content[c].lineage \cup Content[c].predecessor
           IN  SetToSeq(S) \in Seq(S) /\ ToSet(SetToSeq(S)) = S /\ S \subseteq Hash
<1> DEFINE S == Content[c].lineage \cup Content[c].predecessor
           n == Cardinality(S)
<1>1. IsFiniteSet(S) /\ S \subseteq Hash
  BY ContentAssumption DEF OfKind, Hash
<1>2. PICK g : g \in Bijection(1..n, S)
  BY <1>1, FS_CardinalityType DEF ExistsBijection
<1>3. g \in [1..n -> S] /\ IsInjective(g)
  BY <1>2 DEF Bijection, Injection, IsInjective
<1> HIDE DEF S, n
<1>4. SetToSeq(S) \in [1..n -> S] /\ IsInjective(SetToSeq(S))
  BY <1>3 DEF SetToSeq, n
<1>5. \A i, j \in 1..n : i # j => SetToSeq(S)[i] # SetToSeq(S)[j]
  BY <1>4 DEF IsInjective
<1>6. SetToSeq(S) \in Seq(S) /\ ToSet(SetToSeq(S)) = S
  BY <1>1, <1>4, <1>5, ListsAll DEF n
<1> QED  BY <1>1, <1>6 DEF S

\* The loop over the statements of certificate p.c, from what p says was told before.
NoteStep(p, found, s) == Note(found, s, {p.c})

NotedUpTo(p, list, k, found) ==
    Tells(found, p.here, p.carried \cup {<<p.c, list[m]>> : m \in 1..k})

Noting == INSTANCE Folding WITH Step <- NoteStep, Holds <- NotedUpTo

\* A certificate's statements are all noted, with it as their carrier.
LEMMA CarriedAreNoted ==
    ASSUME NEW found, NEW here, NEW carried, Tells(found, here, carried),
           NEW c \in OfKind("Record")
    PROVE  Tells(NoteCarried(found, c), here,
                 carried \cup {<<c, s>> : s \in Content[c].lineage \cup Content[c].predecessor})
<1> DEFINE S == Content[c].lineage \cup Content[c].predecessor
           list == SetToSeq(S)
           n == Len(list)
           p == [c |-> c, here |-> here, carried |-> carried]
           end == Noting!Run(p, found, list)[DOMAIN list]
<1>1. list \in Seq(S) /\ ToSet(list) = S /\ S \subseteq Hash /\ c \in Hash
  BY ListedStatements DEF OfKind, Hash
<1>2. \A q : NoteCarried(found, q.c)
               = Noting!Run(q, found, SetToSeq(Content[q.c].lineage \cup Content[q.c].predecessor))
                   [DOMAIN SetToSeq(Content[q.c].lineage \cup Content[q.c].predecessor)]
  BY Zenon DEF NoteCarried, FoldLeft, MapThenFoldSet, Max, NoteStep, Noting!Run, Noting!Runs,
               Noting!Greatest
<1>3. p.c = c /\ p.here = here /\ p.carried = carried
  OBVIOUS
<1> HIDE DEF p
<1>4. NoteCarried(found, c) = end
  BY <1>2, <1>3, Zenon
<1> HIDE DEF list, S
<1>5. n \in Nat /\ DOMAIN list = 1..n
  BY <1>1
<1>6. NotedUpTo(p, list, 0, found)
  <2>1. p.carried \cup {<<p.c, list[m]>> : m \in 1..0} = carried
    BY <1>3
  <2> QED  BY <1>3, <2>1 DEF NotedUpTo
<1>7. ASSUME NEW k \in 1..n, NEW f, NotedUpTo(p, list, k - 1, f)
      PROVE  NotedUpTo(p, list, k, NoteStep(p, f, list[k]))
  <2> DEFINE before == carried \cup {<<c, list[m]>> : m \in 1..(k-1)}
  <2>1. list[k] \in Hash
    BY <1>1, <1>5
  <2>2. Tells(f, here, before)
    BY <1>3, <1>7 DEF NotedUpTo
  <2>3. carried \cup {<<c, list[m]>> : m \in 1..k} = before \cup {<<c, list[k]>>}
    <3>1. \A m \in 1..k : m \in 1..(k-1) \/ m = k
      OBVIOUS
    <3>2. \A m \in 1..(k-1) : m \in 1..k
      OBVIOUS
    <3> QED  BY <3>1, <3>2
  <2> HIDE DEF before
  <2>4. Tells(Note(f, list[k], {c}), here, before \cup {<<c, list[k]>>})
    BY <1>1, <2>1, <2>2, NoteCarrier
  <2> QED  BY <1>3, <2>3, <2>4 DEF NotedUpTo, NoteStep
<1>8. NotedUpTo(p, list, n, end)
  <2> HIDE DEF end, n
  <2> QED  BY <1>5, <1>6, <1>7, Noting!Kept DEF end
<1>9. {<<c, list[m]>> : m \in 1..n} = {<<c, s>> : s \in S}
  BY <1>1, <1>5 DEF ToSet
<1> HIDE DEF end, n
<1> QED  BY <1>3, <1>4, <1>8, <1>9 DEF NotedUpTo, S

-----------------------------------------------------------------------------
\* The first pass: what it has found of the items so far.

Seen(items, k) == {items[m] : m \in 1..k}

Standing(H) == {s \in H : Content[s].kind \in {"Rotation", "Successor"}}

Carried(H) == {q \in Hash \X Hash : q[1] \in H /\ Content[q[1]].kind = "Record" /\ Carries(q[1], q[2])}

Carriages(H) == {[host |-> Content[c].host, doc |-> Content[c].doc, path |-> Content[c].path] :
                    c \in ValidRecords(H)}

RefreshesIn(H) == {f \in H : Content[f].kind = "ChainRefresh"}

\* The accumulator holds what the set of items so far amounts to.
GatheredFrom(H, ev) ==
    /\ ev = [held |-> H, rows |-> CertificateRows(H), carriages |-> Carriages(H),
             found |-> ev.found, refreshes |-> ev.refreshes]
    /\ Tells(ev.found, Standing(H), Carried(H))
    /\ ev.refreshes \in Seq(Hash) /\ ToSet(ev.refreshes) = RefreshesIn(H)

TakeStep(p, ev, i) == TakeItem(ev, i)

Gathered(p, items, k, ev) == GatheredFrom(Seen(items, k), ev)

Taking == INSTANCE Folding WITH Step <- TakeStep, Holds <- Gathered

\* The rows of certificates, one by one.
LEMMA CertificateRowsAre ==
    ASSUME NEW H, NEW r
    PROVE  r \in CertificateRows(H) <=>
              \E c \in ValidRecords(H) : \E word \in Word(Content[c].chain.txt, Content[c].doc) :
                 r = CertificateRow(c, word)
BY DEF CertificateRows

\* What one more certificate adds.
LEMMA RecordAdds ==
    ASSUME NEW H \in SUBSET Hash, NEW i \in Hash, Content[i].kind = "Record"
    PROVE  /\ CertificateRows(H \cup {i}) = CertificateRows(H) \cup CertificateRows({i})
           /\ Carriages(H \cup {i}) = Carriages(H) \cup Carriages({i})
           /\ Carried(H \cup {i}) = Carried(H) \cup
                 {<<i, s>> : s \in Content[i].lineage \cup Content[i].predecessor}
           /\ Standing(H \cup {i}) = Standing(H) /\ RefreshesIn(H \cup {i}) = RefreshesIn(H)
<1>1. ValidRecords(H \cup {i}) = ValidRecords(H) \cup ValidRecords({i})
  BY DEF ValidRecords
<1>2. CertificateRows(H \cup {i}) = CertificateRows(H) \cup CertificateRows({i})
  <2> DEFINE In(S, r) == \E c \in S : \E word \in Word(Content[c].chain.txt, Content[c].doc) :
                            r = CertificateRow(c, word)
  <2>1. \A r : r \in CertificateRows(H \cup {i}) <=> In(ValidRecords(H \cup {i}), r)
    BY CertificateRowsAre
  <2>2. \A r : r \in CertificateRows(H) <=> In(ValidRecords(H), r)
    BY CertificateRowsAre
  <2>3. \A r : r \in CertificateRows({i}) <=> In(ValidRecords({i}), r)
    BY CertificateRowsAre
  <2>4. \A r : In(ValidRecords(H \cup {i}), r) <=> In(ValidRecords(H), r) \/ In(ValidRecords({i}), r)
    BY <1>1
  <2> HIDE DEF In
  <2> QED  BY <2>1, <2>2, <2>3, <2>4
<1>3. Carriages(H \cup {i}) = Carriages(H) \cup Carriages({i})
  BY <1>1 DEF Carriages
<1>4. Carried(H \cup {i}) = Carried(H) \cup
                {<<i, s>> : s \in Content[i].lineage \cup Content[i].predecessor}
  <2>1. Content[i].lineage \cup Content[i].predecessor \subseteq Hash
    BY ListedStatements DEF OfKind, Hash
  <2>2. Carried(H \cup {i}) \subseteq Carried(H) \cup
                {<<i, s>> : s \in Content[i].lineage \cup Content[i].predecessor}
    BY DEF Carried, Carries
  <2>3. {<<i, s>> : s \in Content[i].lineage \cup Content[i].predecessor} \subseteq Carried(H \cup {i})
    BY <2>1 DEF Carried, Carries
  <2>4. Carried(H) \subseteq Carried(H \cup {i})
    BY DEF Carried
  <2> QED  BY <2>2, <2>3, <2>4
<1> QED  BY <1>2, <1>3, <1>4 DEF Standing, RefreshesIn

\* What any other item adds.
LEMMA OtherAdds ==
    ASSUME NEW H \in SUBSET Hash, NEW i \in Hash, Content[i].kind # "Record"
    PROVE  /\ CertificateRows(H \cup {i}) = CertificateRows(H)
           /\ Carriages(H \cup {i}) = Carriages(H)
           /\ Carried(H \cup {i}) = Carried(H)
<1>1. ValidRecords(H \cup {i}) = ValidRecords(H)
  BY DEF ValidRecords
<1> QED  BY <1>1 DEF CertificateRows, Carriages, Carried

LEMMA RefreshAdds ==
    ASSUME NEW H \in SUBSET Hash, NEW i \in Hash, Content[i].kind = "ChainRefresh"
    PROVE  /\ Standing(H \cup {i}) = Standing(H)
           /\ RefreshesIn(H \cup {i}) = RefreshesIn(H) \cup {i}
BY DEF Standing, RefreshesIn

LEMMA StatementAdds ==
    ASSUME NEW H \in SUBSET Hash, NEW i \in Hash, Content[i].kind \in {"Rotation", "Successor"}
    PROVE  /\ Standing(H \cup {i}) = Standing(H) \cup {i}
           /\ RefreshesIn(H \cup {i}) = RefreshesIn(H)
BY DEF Standing, RefreshesIn

\* A list with one more element.
LEMMA OneMoreListed ==
    ASSUME NEW list \in Seq(Hash), NEW i \in Hash
    PROVE  Append(list, i) \in Seq(Hash) /\ ToSet(Append(list, i)) = ToSet(list) \cup {i}
<1> DEFINE t == Append(list, i)
           n == Len(list)
<1>1. /\ t \in Seq(Hash) /\ DOMAIN t = 1..(n + 1) /\ DOMAIN list = 1..n /\ n \in Nat
      /\ t[n + 1] = i /\ \A m \in 1..n : t[m] = list[m]
  OBVIOUS
<1>2. \A m \in 1..(n + 1) : m \in 1..n \/ m = n + 1
  BY <1>1
<1>3. \A m \in 1..n : m \in 1..(n + 1)
  BY <1>1
<1>4. n + 1 \in 1..(n + 1)
  BY <1>1
<1> HIDE DEF t, n
<1> QED  BY <1>1, <1>2, <1>3, <1>4 DEF ToSet, t

\* One turn of the first pass.
LEMMA TakesOne ==
    ASSUME NEW H \in SUBSET Hash, NEW ev, GatheredFrom(H, ev), NEW i \in Hash
    PROVE  GatheredFrom(H \cup {i}, TakeItem(ev, i))
<1> DEFINE K == H \cup {i}
           next == TakeItem(ev, i)
           seen == [ev EXCEPT !.held = @ \cup {i}]
           kind == Content[i].kind
           found == ev.found
           listed == ev.refreshes
<1>1. /\ ev = [held |-> H, rows |-> CertificateRows(H), carriages |-> Carriages(H),
               found |-> found, refreshes |-> listed]
      /\ Tells(found, Standing(H), Carried(H))
      /\ listed \in Seq(Hash) /\ ToSet(listed) = RefreshesIn(H)
  BY DEF GatheredFrom
<1> HIDE DEF found, listed
<1>2. seen = [held |-> K, rows |-> CertificateRows(H), carriages |-> Carriages(H),
              found |-> found, refreshes |-> listed]
  <2>1. ev.held = H
    BY <1>1
  <2>2. seen = [[held |-> H, rows |-> CertificateRows(H), carriages |-> Carriages(H),
                 found |-> found, refreshes |-> listed] EXCEPT !.held = H \cup {i}]
    BY <1>1, <2>1
  <2> QED  BY <2>2
<1>3. kind \in {"Record", "ChainRefresh", "Rotation", "Successor"}
  BY ContentAssumption
<1> HIDE DEF seen
<1>4. CASE kind = "Record"
  <2>1. next = TakeRecord(seen, i)
    BY <1>4 DEF TakeItem, seen
  <2>2. i \in OfKind("Record")
    BY <1>4 DEF OfKind, Hash
  <2>3. Carriages({i}) = {[host |-> Content[i].host, doc |-> Content[i].doc,
                           path |-> Content[i].path] : x \in ValidRecords({i})}
    BY DEF Carriages, ValidRecords
  <2>4. /\ CertificateRows(K) = CertificateRows(H) \cup CertificateRows({i})
        /\ Carriages(K) = Carriages(H) \cup Carriages({i})
        /\ Carried(K) = Carried(H) \cup
              {<<i, s>> : s \in Content[i].lineage \cup Content[i].predecessor}
        /\ Standing(K) = Standing(H) /\ RefreshesIn(K) = RefreshesIn(H)
    BY <1>4, RecordAdds
  <2>5. next = [held |-> K, rows |-> CertificateRows(K), carriages |-> Carriages(K),
                found |-> NoteCarried(found, i), refreshes |-> listed]
    BY <1>2, <2>1, <2>3, <2>4 DEF TakeRecord
  <2> HIDE DEF K
  <2>7. Tells(NoteCarried(found, i), Standing(H),
              Carried(H) \cup {<<i, s>> : s \in Content[i].lineage \cup Content[i].predecessor})
    BY <1>1, <2>2, CarriedAreNoted
  <2>6. Tells(NoteCarried(found, i), Standing(K), Carried(K))
    BY <2>4, <2>7
  <2> HIDE DEF next
  <2>8. next.found = NoteCarried(found, i) /\ next.refreshes = listed
    BY <2>5
  <2>9. GatheredFrom(K, next)
    BY <1>1, <2>4, <2>5, <2>6, <2>8 DEF GatheredFrom
  <2> QED  BY <2>9 DEF K, next
<1>5. CASE kind = "ChainRefresh"
  <2>1. next = TakeRefresh(seen, i)
    BY <1>5 DEF TakeItem, seen
  <2>2. /\ CertificateRows(K) = CertificateRows(H) /\ Carriages(K) = Carriages(H)
        /\ Carried(K) = Carried(H)
        /\ Standing(K) = Standing(H) /\ RefreshesIn(K) = RefreshesIn(H) \cup {i}
    BY <1>5, OtherAdds, RefreshAdds
  <2>3. next = [held |-> K, rows |-> CertificateRows(K), carriages |-> Carriages(K),
                found |-> found, refreshes |-> Append(listed, i)]
    BY <1>2, <2>1, <2>2 DEF TakeRefresh
  <2>4. Append(listed, i) \in Seq(Hash) /\ ToSet(Append(listed, i)) = RefreshesIn(K)
    BY <1>1, <2>2, OneMoreListed
  <2> HIDE DEF next, K
  <2>5. next.found = found /\ next.refreshes = Append(listed, i)
    BY <2>3
  <2>6. Tells(found, Standing(K), Carried(K))
    BY <1>1, <2>2
  <2>7. GatheredFrom(K, next)
    BY <2>3, <2>4, <2>5, <2>6 DEF GatheredFrom
  <2> QED  BY <2>7 DEF K, next
<1>6. CASE kind \in {"Rotation", "Successor"}
  <2>1. next = TakeStatement(seen, i)
    BY <1>6 DEF TakeItem, seen
  <2>2. /\ CertificateRows(K) = CertificateRows(H) /\ Carriages(K) = Carriages(H)
        /\ Carried(K) = Carried(H)
        /\ Standing(K) = Standing(H) \cup {i} /\ RefreshesIn(K) = RefreshesIn(H)
    BY <1>6, OtherAdds, StatementAdds
  <2>3. next = [held |-> K, rows |-> CertificateRows(K), carriages |-> Carriages(K),
                found |-> Note(found, i, {}), refreshes |-> listed]
    BY <1>2, <2>1, <2>2 DEF TakeStatement
  <2>4. Tells(Note(found, i, {}), Standing(K), Carried(K))
    BY <1>1, <2>2, NoteStandalone
  <2> HIDE DEF next, K
  <2>5. next.found = Note(found, i, {}) /\ next.refreshes = listed
    BY <2>3
  <2>6. GatheredFrom(K, next)
    BY <1>1, <2>2, <2>3, <2>4, <2>5 DEF GatheredFrom
  <2> QED  BY <2>6 DEF K, next
<1> QED  BY <1>3, <1>4, <1>5, <1>6

\* The first pass gathers what the set of items amounts to, in whatever order it is listed.
LEMMA FirstPassGathers ==
    ASSUME NEW items \in Seq(Hash)
    PROVE  GatheredFrom(ToSet(items), FirstPass(items))
<1> DEFINE n == Len(items)
           end == Taking!Run(items, NoEvidence, items)[DOMAIN items]
<1>1. FirstPass(items) = end
  BY Zenon DEF FirstPass, FoldLeft, MapThenFoldSet, Max, TakeStep, Taking!Run, Taking!Runs,
               Taking!Greatest
<1>2. n \in Nat /\ DOMAIN items = 1..n
  OBVIOUS
<1>3. Gathered(items, items, 0, NoEvidence)
  <2>1. Seen(items, 0) = {}
    BY DEF Seen
  <2>2. /\ CertificateRows({}) = {} /\ Carriages({}) = {} /\ Standing({}) = {}
        /\ Carried({}) = {} /\ RefreshesIn({}) = {}
    BY DEF CertificateRows, Carriages, Standing, Carried, RefreshesIn, ValidRecords
  <2>3. Tells(<<>>, {}, {})
    BY DEF Tells, Told, CarriersIn
  <2>4. NoEvidence.refreshes = <<>> /\ <<>> \in Seq(Hash) /\ ToSet(<<>>) = {}
    BY DEF NoEvidence, ToSet
  <2>5. NoEvidence.found = <<>>
    BY DEF NoEvidence
  <2>6. NoEvidence = [held |-> {}, rows |-> {}, carriages |-> {}, found |-> NoEvidence.found,
                      refreshes |-> NoEvidence.refreshes]
    BY DEF NoEvidence
  <2> QED  BY <2>1, <2>2, <2>3, <2>4, <2>5, <2>6 DEF Gathered, GatheredFrom
<1>4. ASSUME NEW k \in 1..n, NEW ev, Gathered(items, items, k - 1, ev)
      PROVE  Gathered(items, items, k, TakeStep(items, ev, items[k]))
  <2>1. items[k] \in Hash /\ Seen(items, k - 1) \in SUBSET Hash
    BY DEF Seen
  <2>2. Seen(items, k) = Seen(items, k - 1) \cup {items[k]}
    <3>1. \A m \in 1..k : m \in 1..(k-1) \/ m = k
      OBVIOUS
    <3>2. \A m \in 1..(k-1) : m \in 1..k
      OBVIOUS
    <3> QED  BY <3>1, <3>2 DEF Seen
  <2> QED  BY <1>4, <2>1, <2>2, TakesOne DEF Gathered, TakeStep
<1>5. Gathered(items, items, n, end)
  <2> HIDE DEF end, n
  <2> QED  BY <1>2, <1>3, <1>4, Taking!Kept DEF end
<1>6. Seen(items, n) = ToSet(items)
  BY <1>2 DEF Seen, ToSet
<1> HIDE DEF end, n
<1> QED  BY <1>1, <1>5, <1>6 DEF Gathered

-----------------------------------------------------------------------------
\* The second pass, over the refreshes, against the carriages of all certificates.

WordsOf(f) ==
    LET txt == Content[f].chain.txt
    IN  UNION {Word(txt, doc) : doc \in {txt[n].doc : n \in DOMAIN txt}}

RowAgainst(carriages, f, word) ==
    Row("ChainOnly", f, Content[f].host, Content[f].chain, word, 0,
        \E p \in carriages : p.host = Content[f].host /\ p.doc = word.doc /\ word.gen \in p.path)

RowsAgainst(carriages, F) ==
    UNION {{RowAgainst(carriages, f, word) : word \in WordsOf(f)} : f \in {i \in F : Content[i].chain.valid}}

\* What the first pass left, with other rows.
WithRows(first, rows) ==
    [held |-> first.held, rows |-> rows, carriages |-> first.carriages,
     found |-> first.found, refreshes |-> first.refreshes]

JudgeStep(p, ev, f) == JudgeRefresh(ev, f)

JudgedSoFar(p, list, k, ev) ==
    ev = WithRows(p, p.rows \cup RowsAgainst(p.carriages, Seen(list, k)))

Judging == INSTANCE Folding WITH Step <- JudgeStep, Holds <- JudgedSoFar

\* One turn of the second pass adds the rows of one refresh.
LEMMA JudgesOne ==
    ASSUME NEW first, NEW rows, NEW f
    PROVE  JudgeRefresh(WithRows(first, rows), f)
             = WithRows(first, rows \cup RowsAgainst(first.carriages, {f}))
<1>1. CASE ~Content[f].chain.valid
  <2>1. RowsAgainst(first.carriages, {f}) = {}
    BY <1>1 DEF RowsAgainst
  <2> QED  BY <1>1, <2>1 DEF JudgeRefresh, WithRows
<1>2. CASE Content[f].chain.valid
  <2>1. RowsAgainst(first.carriages, {f})
          = {RowAgainst(first.carriages, f, word) : word \in WordsOf(f)}
    BY <1>2 DEF RowsAgainst
  <2> QED  BY <1>2, <2>1 DEF JudgeRefresh, RowAgainst, WordsOf, WithRows
<1> QED  BY <1>1, <1>2

\* The rows of several refreshes, one by one.
LEMMA RowsAgainstAre ==
    ASSUME NEW carriages, NEW F, NEW r
    PROVE  r \in RowsAgainst(carriages, F) <=>
              \E f \in F : /\ Content[f].chain.valid
                           /\ \E word \in WordsOf(f) : r = RowAgainst(carriages, f, word)
BY DEF RowsAgainst

\* The second pass judges every refresh the first set aside.
LEMMA SecondPassJudges ==
    ASSUME NEW first, NEW list \in Seq(Hash), first = WithRows(first, first.rows)
    PROVE  FoldLeft(JudgeRefresh, first, list)
             = WithRows(first, first.rows \cup RowsAgainst(first.carriages, ToSet(list)))
<1> DEFINE n == Len(list)
           end == Judging!Run(first, first, list)[DOMAIN list]
<1>1. FoldLeft(JudgeRefresh, first, list) = end
  BY Zenon DEF FoldLeft, MapThenFoldSet, Max, JudgeStep, Judging!Run, Judging!Runs,
               Judging!Greatest
<1>2. n \in Nat /\ DOMAIN list = 1..n
  OBVIOUS
<1>3. JudgedSoFar(first, list, 0, first)
  <2>1. RowsAgainst(first.carriages, Seen(list, 0)) = {}
    BY DEF RowsAgainst, Seen
  <2>2. first.rows \cup {} = first.rows
    OBVIOUS
  <2> QED  BY <2>1, <2>2 DEF JudgedSoFar
<1>4. ASSUME NEW k \in 1..n, NEW ev, JudgedSoFar(first, list, k - 1, ev)
      PROVE  JudgedSoFar(first, list, k, JudgeStep(first, ev, list[k]))
  <2> DEFINE before == first.rows \cup RowsAgainst(first.carriages, Seen(list, k - 1))
  <2>1. ev = WithRows(first, before)
    BY <1>4 DEF JudgedSoFar
  <2>2. Seen(list, k) = Seen(list, k - 1) \cup {list[k]}
    <3>1. \A m \in 1..k : m \in 1..(k-1) \/ m = k
      OBVIOUS
    <3>2. \A m \in 1..(k-1) : m \in 1..k
      OBVIOUS
    <3> QED  BY <3>1, <3>2 DEF Seen
  <2>3. RowsAgainst(first.carriages, Seen(list, k))
          = RowsAgainst(first.carriages, Seen(list, k - 1)) \cup RowsAgainst(first.carriages, {list[k]})
    BY <2>2 DEF RowsAgainst
  <2> HIDE DEF before
  <2>4. JudgeRefresh(ev, list[k])
          = WithRows(first, before \cup RowsAgainst(first.carriages, {list[k]}))
    BY <2>1, JudgesOne
  <2>5. before \cup RowsAgainst(first.carriages, {list[k]})
          = first.rows \cup RowsAgainst(first.carriages, Seen(list, k))
    BY <2>3 DEF before
  <2> QED  BY <2>4, <2>5 DEF JudgedSoFar, JudgeStep
<1>5. JudgedSoFar(first, list, n, end)
  <2> HIDE DEF end, n
  <2> QED  BY <1>2, <1>3, <1>4, Judging!Kept DEF end
<1>6. Seen(list, n) = ToSet(list)
  BY <1>2 DEF Seen, ToSet
<1> HIDE DEF end, n
<1> QED  BY <1>1, <1>5, <1>6 DEF JudgedSoFar

\* Against the carriages of all validated certificates, a refresh is on path exactly
\* when some certificate vouches for it.
LEMMA CarriagesVouch ==
    ASSUME NEW H \in SUBSET Hash
    PROVE  RowsAgainst(Carriages(H), RefreshesIn(H)) = RefreshRows(H)
<1>1. ASSUME NEW f \in H, NEW word
      PROVE  RowAgainst(Carriages(H), f, word)
               = Row("ChainOnly", f, Content[f].host, Content[f].chain, word, 0,
                     Vouched(H, Content[f].host, word))
  <2> DEFINE found == \E p \in Carriages(H) :
                         p.host = Content[f].host /\ p.doc = word.doc /\ word.gen \in p.path
             vouched == \E c \in ValidRecords(H) : /\ Content[c].host = Content[f].host
                                                   /\ Content[c].doc = word.doc
                                                   /\ word.gen \in Content[c].path
  <2>1. ASSUME found  PROVE vouched
    <3>1. PICK p \in Carriages(H) :
             p.host = Content[f].host /\ p.doc = word.doc /\ word.gen \in p.path
      BY <2>1
    <3>2. PICK c \in ValidRecords(H) :
             p = [host |-> Content[c].host, doc |-> Content[c].doc, path |-> Content[c].path]
      BY DEF Carriages
    <3> QED  BY <3>1, <3>2
  <2>2. ASSUME vouched  PROVE found
    <3>1. PICK c \in ValidRecords(H) : /\ Content[c].host = Content[f].host
                                       /\ Content[c].doc = word.doc
                                       /\ word.gen \in Content[c].path
      BY <2>2
    <3> DEFINE p == [host |-> Content[c].host, doc |-> Content[c].doc, path |-> Content[c].path]
    <3>2. p \in Carriages(H)
      BY DEF Carriages
    <3> QED  BY <3>1, <3>2
  <2>3. found = vouched
    BY <2>1, <2>2
  <2> QED  BY <2>3, Zenon DEF RowAgainst, Vouched
<1>2. \A f : WordsOf(f) = UNION {Word(Content[f].chain.txt, t.doc) :
                t \in {Content[f].chain.txt[n] : n \in DOMAIN Content[f].chain.txt}}
  BY DEF WordsOf
<1>3. \A r : r \in RowsAgainst(Carriages(H), RefreshesIn(H)) <=>
         \E f \in RefreshesIn(H) : /\ Content[f].chain.valid
                                   /\ \E word \in WordsOf(f) : r = RowAgainst(Carriages(H), f, word)
  BY RowsAgainstAre
<1>4. \A r : r \in RefreshRows(H) <=>
         \E f \in RefreshesIn(H) :
            /\ Content[f].chain.valid
            /\ \E word \in WordsOf(f) : r = Row("ChainOnly", f, Content[f].host, Content[f].chain, word, 0,
                                                Vouched(H, Content[f].host, word))
  BY <1>2 DEF RefreshRows, RefreshesIn
<1>5. \A f \in RefreshesIn(H) : f \in H
  BY DEF RefreshesIn
<1>6. \A r : r \in RowsAgainst(Carriages(H), RefreshesIn(H)) <=> r \in RefreshRows(H)
  BY <1>1, <1>3, <1>4, <1>5
<1> QED  BY <1>6

-----------------------------------------------------------------------------
\* Both passes together.

\* The statements the loop has found are those the set of items amounts to.
LEMMA ToldAreStatements ==
    ASSUME NEW H \in SUBSET Hash
    PROVE  /\ Told(Standing(H), Carried(H)) = Statements(H, "Rotation") \cup Statements(H, "Successor")
           /\ \A s \in Told(Standing(H), Carried(H)) :
                 /\ s \in Standing(H) <=> s \in H
                 /\ CarriersIn(Carried(H), s) = Carriers(H, s)
<1>1. \A s \in Hash : CarriersIn(Carried(H), s) = Carriers(H, s)
  BY DEF CarriersIn, Carried, Carriers
<1>2. ASSUME NEW s \in Hash, Carriers(H, s) # {}
      PROVE  Content[s].kind \in {"Rotation", "Successor"}
  <2>1. PICK c \in H : Content[c].kind = "Record" /\ Carries(c, s)
    BY <1>2 DEF Carriers
  <2>2. c \in OfKind("Record")
    BY <2>1 DEF OfKind, Hash
  <2>3. s \in OfKind("Rotation") \cup OfKind("Successor")
    BY <2>1, <2>2, ContentAssumption DEF Carries
  <2> QED  BY <2>3 DEF OfKind
<1>3. ASSUME NEW s
      PROVE  s \in Told(Standing(H), Carried(H)) <=>
                /\ s \in Hash /\ Content[s].authorized
                /\ Content[s].kind \in {"Rotation", "Successor"}
                /\ s \in H \/ Carriers(H, s) # {}
  BY <1>1, <1>2 DEF Told, Standing
<1>4. ASSUME NEW s
      PROVE  s \in Statements(H, "Rotation") \cup Statements(H, "Successor") <=>
                /\ s \in Hash /\ Content[s].authorized
                /\ Content[s].kind \in {"Rotation", "Successor"}
                /\ s \in H \/ Carriers(H, s) # {}
  BY DEF Statements, OfKind, Hash
<1>5. Told(Standing(H), Carried(H)) = Statements(H, "Rotation") \cup Statements(H, "Successor")
  BY <1>3, <1>4
<1>6. ASSUME NEW s \in Told(Standing(H), Carried(H))
      PROVE  (s \in Standing(H) <=> s \in H) /\ CarriersIn(Carried(H), s) = Carriers(H, s)
  BY <1>1, <1>3 DEF Standing
<1> QED  BY <1>5, <1>6

\* Whatever the order, the loop finds what the SET of items amounts to, and excludes a
\* statement exactly when all it came from is excluded.
LEMMA EveryOrderAgrees ==
    ASSUME NEW items \in Seq(Hash)
    PROVE  Agrees(items)
<1> DEFINE H == ToSet(items)
           first == FirstPass(items)
           ev == ValidateAndExtract(items)
<1>1. H \in SUBSET Hash
  BY DEF ToSet
<1>2. GatheredFrom(H, first)
  BY FirstPassGathers
<1>3. ev = FoldLeft(JudgeRefresh, first, first.refreshes)
  BY DEF ValidateAndExtract
<1> HIDE DEF H, first, ev
<1>4. /\ first = [held |-> H, rows |-> CertificateRows(H), carriages |-> Carriages(H),
                  found |-> first.found, refreshes |-> first.refreshes]
      /\ Tells(first.found, Standing(H), Carried(H))
      /\ first.refreshes \in Seq(Hash) /\ ToSet(first.refreshes) = RefreshesIn(H)
  BY <1>2 DEF GatheredFrom
<1>5. first.held = H /\ first.rows = CertificateRows(H) /\ first.carriages = Carriages(H)
  BY <1>4
<1>6. first = WithRows(first, first.rows)
  BY <1>4, <1>5 DEF WithRows
<1>7. ev = WithRows(first, first.rows \cup RowsAgainst(first.carriages, ToSet(first.refreshes)))
  BY <1>3, <1>4, <1>6, SecondPassJudges
<1>8. first.rows \cup RowsAgainst(first.carriages, ToSet(first.refreshes)) = Rows(H)
  BY <1>1, <1>4, <1>5, CarriagesVouch DEF Rows
<1>9. ev.held = H /\ ev.rows = Rows(H) /\ ev.found = first.found
  BY <1>5, <1>7, <1>8 DEF WithRows
<1>10. DOMAIN ev.found = Statements(H, "Rotation") \cup Statements(H, "Successor")
  BY <1>1, <1>4, <1>9, ToldAreStatements DEF Tells
<1>11. ASSUME NEW s \in DOMAIN ev.found, NEW X \in SUBSET H
       PROVE  FoundExcluded(ev.found, s, X) <=> Excluded(H, s, X)
  <2>1. s \in Told(Standing(H), Carried(H))
    BY <1>4, <1>9 DEF Tells
  <2>2. (s \in Standing(H) <=> s \in H) /\ CarriersIn(Carried(H), s) = Carriers(H, s)
    BY <1>1, <2>1, ToldAreStatements
  <2>3. ev.found[s] = [standalone |-> s \in Standing(H), carriers |-> CarriersIn(Carried(H), s)]
    BY <1>4, <1>9 DEF Tells
  <2>4. ev.found[s].standalone = (s \in Standing(H)) /\ ev.found[s].carriers = Carriers(H, s)
    BY <2>2, <2>3
  <2>5. ev.found[s].standalone <=> s \in H
    BY <2>2, <2>4
  <2>6. s \in H \/ Carriers(H, s) # {}
    BY <2>1, <2>2 DEF Told
  <2> QED  BY <2>4, <2>5, <2>6 DEF FoundExcluded, Excluded
<1> QED  BY <1>9, <1>10, <1>11 DEF Agrees, H, ev

\* No device ever reads anything of the order in which its store lists its items, after
\* any sequence of receipts, merges and reloads in any order of the directory's listing:
\* what the two-pass loop extracts is a function of the set of items (state.rs compute:
\* "including under any permutation of the store").
THEOREM OrderNeverObserved == StoresSpec => []OrderUnobservable
<1>1. StoresInit => Stores
  BY EmptyIsSound DEF StoresInit, Stores
<1>2. Stores => OrderUnobservable
  <2> SUFFICES ASSUME Stores, NEW r \in Replica  PROVE Agrees(store[r].items)
    BY DEF OrderUnobservable
  <2>1. store[r].items \in Seq(Item)
    BY DEF Stores, Sound
  <2>2. store[r].items \in Seq(Hash)
    BY <2>1, ReplicaAssumption
  <2> QED  BY <2>2, EveryOrderAgrees
<1> QED  BY <1>1, <1>2, StoresStep, PTL DEF StoresSpec
=============================================================================
