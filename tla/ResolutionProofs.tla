-------------------------- MODULE ResolutionProofs --------------------------
(***************************************************************************)
(* Stage 5 for every store: which document a hostname resolves to, when it *)
(* is contested, and what may take the place of what the user accepted.    *)
(* The walk goes from the rows that speak for a hostname to the best row   *)
(* of each document, to the undominated ones, to the binding.              *)
(*                                                                         *)
(* Then what local storage reclamation never costs, on any store, at any   *)
(* clock reading, after any number of prunes: the user's receipts, the     *)
(* last word of a generation, and, where the rule that drops a row is      *)
(* right about the row it keeps, anything at all.                          *)
(***************************************************************************)
EXTENDS Pruning, VerifierProofs

-----------------------------------------------------------------------------
\* Finitely many rows, one for an item and a document.

\* A finite store yields finitely many rows.
LEMMA FinitelyManyRows ==
    ASSUME NEW H \in SUBSET Hash, IsFiniteSet(H)
    PROVE  IsFiniteSet(Rows(H))
<1> DEFINE Chained == {i \in H : Content[i].kind \in {"Record", "ChainRefresh"}}
           txt(i) == Content[i].chain.txt
           RowAt(i, n) == IF Content[i].kind = "Record" THEN CertificateRow(i, txt(i)[n])
                          ELSE Row("ChainOnly", i, Content[i].host, Content[i].chain, txt(i)[n], 0,
                                   Vouched(H, Content[i].host, txt(i)[n]))
           RowsAt(i) == {RowAt(i, n) : n \in DOMAIN txt(i)}
           all == [i \in Chained |-> RowsAt(i)]
<1>1. \A i \in Chained : txt(i) \in Seq([doc : Nat, gen : Nat, serial : Nat])
  BY ContentAssumption DEF Chains, OfKind, Hash
<1>2. \A i \in Chained : IsFiniteSet(RowsAt(i))
  <2> TAKE i \in Chained
  <2> DEFINE f == [n \in DOMAIN txt(i) |-> RowAt(i, n)]
  <2>1. DOMAIN txt(i) = 1..Len(txt(i)) /\ Len(txt(i)) \in Nat
    BY <1>1
  <2> HIDE DEF RowAt, txt
  <2>2. IsFiniteSet({f[n] : n \in DOMAIN f})
    <3>1. DOMAIN f = DOMAIN txt(i) /\ f = [n \in DOMAIN f |-> f[n]]
      OBVIOUS
    <3>2. IsFiniteSet(DOMAIN f)
      BY <2>1, <3>1, FS_Interval
    <3> HIDE DEF f
    <3> QED  BY <3>1, <3>2, FiniteImage
  <2>3. {f[n] : n \in DOMAIN f} = RowsAt(i)
    OBVIOUS
  <2> QED  BY <2>2, <2>3
<1>3. IsFiniteSet(UNION {all[i] : i \in DOMAIN all})
  <2> HIDE DEF RowsAt, Chained
  <2>1. IsFiniteSet(DOMAIN all)
    BY FS_Subset DEF Chained
  <2>2. IsFiniteSet({all[i] : i \in DOMAIN all})
    BY <2>1, FiniteImage
  <2>3. \A S \in {all[i] : i \in DOMAIN all} : IsFiniteSet(S)
    BY <1>2
  <2> QED  BY <2>2, <2>3, FS_UNION
<1>4. ASSUME NEW r \in CertificateRows(H)
      PROVE  \E i \in Chained : r \in RowsAt(i)
  <2>1. PICK c \in ValidRecords(H) :
           \E word \in Word(txt(c), Content[c].doc) : r = CertificateRow(c, word)
    BY <1>4 DEF CertificateRows
  <2>2. PICK n \in DOMAIN txt(c) : r = CertificateRow(c, txt(c)[n])
    BY <2>1 DEF Word
  <2>3. c \in Chained /\ Content[c].kind = "Record"
    BY DEF ValidRecords
  <2> QED  BY <2>2, <2>3
<1>5. ASSUME NEW r \in RefreshRows(H)
      PROVE  \E i \in Chained : r \in RowsAt(i)
  <2> DEFINE R(i, word) == Row("ChainOnly", i, Content[i].host, Content[i].chain, word, 0,
                               Vouched(H, Content[i].host, word))
             Words(i) == UNION {Word(txt(i), t.doc) : t \in {txt(i)[n] : n \in DOMAIN txt(i)}}
             Refreshes == {j \in H : Content[j].kind = "ChainRefresh" /\ Content[j].chain.valid}
  <2>1. RefreshRows(H) = UNION {{R(i, word) : word \in Words(i)} : i \in Refreshes}
    BY DEF RefreshRows
  <2>2. PICK i \in Refreshes : \E word \in Words(i) : r = R(i, word)
    BY <1>5, <2>1
  <2>3. PICK n \in DOMAIN txt(i) : r = R(i, txt(i)[n])
    BY <2>2 DEF Word
  <2>4. i \in Chained /\ RowAt(i, n) = R(i, txt(i)[n])
    OBVIOUS
  <2> QED  BY <2>3, <2>4
<1> HIDE DEF Chained, RowsAt
<1>6. Rows(H) \in SUBSET UNION {all[i] : i \in DOMAIN all}
  BY <1>4, <1>5 DEF Rows
<1> QED  BY <1>3, <1>6, FS_Subset

\* The store only ever holds finitely many items: Store::insert adds them singly.
HeldFinite == IsFiniteSet(held)

LEMMA HeldIsFinite == Spec => []HeldFinite
<1>1. Init => HeldFinite
  BY FS_EmptySet DEF Init, HeldFinite
<1>2. HeldFinite /\ [Next]_vars => HeldFinite'
  <2>1. IsFiniteSet(held) /\ [Next]_vars => IsFiniteSet(held')
    BY FS_AddElement DEF Next, vars, Ingest, Tick, Accept, MergeAcceptance, Reset, Claim, Pin, Unpin
  <2> QED  BY <2>1 DEF HeldFinite
<1> QED  BY <1>1, <1>2, PTL DEF Spec

\* An RRset has one word for a document.
LEMMA OneWord ==
    ASSUME NEW txt \in Seq([doc : Nat, gen : Nat, serial : Nat]), NEW doc,
           NEW v \in Word(txt, doc), NEW w \in Word(txt, doc)
    PROVE  v = w
<1>1. PICK n \in DOMAIN txt :
         /\ v = txt[n] /\ txt[n].doc = doc
         /\ \A k \in DOMAIN txt : txt[k].doc = doc =>
               \/ txt[k].serial < txt[n].serial
               \/ txt[k].serial = txt[n].serial /\ k <= n
  BY DEF Word
<1>2. PICK m \in DOMAIN txt :
         /\ w = txt[m] /\ txt[m].doc = doc
         /\ \A k \in DOMAIN txt : txt[k].doc = doc =>
               \/ txt[k].serial < txt[m].serial
               \/ txt[k].serial = txt[m].serial /\ k <= m
  BY DEF Word
<1>3. /\ txt[n].serial \in Nat /\ txt[m].serial \in Nat /\ n \in Nat /\ m \in Nat
  <2>1. DOMAIN txt = 1..Len(txt)
    OBVIOUS
  <2>2. /\ txt[n] \in [doc : Nat, gen : Nat, serial : Nat]
        /\ txt[m] \in [doc : Nat, gen : Nat, serial : Nat]
    BY ElementOfSequence
  <2> QED  BY <2>1, <2>2
<1>4. n = m
  <2>1. txt[n].serial < txt[m].serial \/ (txt[n].serial = txt[m].serial /\ n <= m)
    BY <1>1, <1>2
  <2>2. txt[m].serial < txt[n].serial \/ (txt[m].serial = txt[n].serial /\ m <= n)
    BY <1>1, <1>2
  <2> QED  BY <1>3, <2>1, <2>2
<1> QED  BY <1>1, <1>2, <1>4

LEMMA OneRow ==
    ASSUME NEW H \in SUBSET Hash, NEW q \in Rows(H), NEW r \in Rows(H),
           q.hash = r.hash, q.doc = r.doc
    PROVE  q = r
<1> DEFINE R(f, word) == Row("ChainOnly", f, Content[f].host, Content[f].chain, word, 0,
                             Vouched(H, Content[f].host, word))
<1>1. ASSUME NEW x \in CertificateRows(H)
      PROVE  /\ x.hash \in OfKind("Record") /\ x.doc = Content[x.hash].doc
             /\ \E word \in Word(Content[x.hash].chain.txt, x.doc) : x = CertificateRow(x.hash, word)
  <2>1. PICK c \in ValidRecords(H) :
           \E word \in Word(Content[c].chain.txt, Content[c].doc) : x = CertificateRow(c, word)
    BY <1>1 DEF CertificateRows
  <2>2. PICK word \in Word(Content[c].chain.txt, Content[c].doc) : x = CertificateRow(c, word)
    BY <2>1
  <2>3. c \in OfKind("Record")
    BY DEF ValidRecords, OfKind, Hash
  <2>4. word.doc = Content[c].doc
    BY DEF Word
  <2>5. x.hash = c /\ x.doc = Content[c].doc
    BY <2>2, <2>4 DEF CertificateRow, Row
  <2> QED  BY <2>2, <2>3, <2>5
<1>2. ASSUME NEW x \in RefreshRows(H)
      PROVE  /\ x.hash \in OfKind("ChainRefresh")
             /\ \E word \in Word(Content[x.hash].chain.txt, x.doc) : x = R(x.hash, word)
  <2> DEFINE Words(f) == UNION {Word(Content[f].chain.txt, t.doc) :
                  t \in {Content[f].chain.txt[n] : n \in DOMAIN Content[f].chain.txt}}
             Refreshes == {j \in H : Content[j].kind = "ChainRefresh" /\ Content[j].chain.valid}
  <2>1. RefreshRows(H) = UNION {{R(f, word) : word \in Words(f)} : f \in Refreshes}
    BY DEF RefreshRows
  <2>2. PICK f \in Refreshes : \E word \in Words(f) : x = R(f, word)
    BY <1>2, <2>1
  <2>3. PICK word \in Words(f) : x = R(f, word)
    BY <2>2
  <2>4. word \in Word(Content[f].chain.txt, word.doc)
    BY DEF Word
  <2>5. x.hash = f /\ x.doc = word.doc
    BY <2>3 DEF Row
  <2>6. f \in OfKind("ChainRefresh")
    BY DEF OfKind, Hash
  <2> QED  BY <2>3, <2>4, <2>5, <2>6
<1> HIDE DEF R
<1>3. OfKind("Record") \cap OfKind("ChainRefresh") = {}
  BY DEF OfKind
<1>4. \A i \in OfKind("Record") \cup OfKind("ChainRefresh") :
         Content[i].chain.txt \in Seq([doc : Nat, gen : Nat, serial : Nat])
  BY ContentAssumption DEF Chains
<1>5. CASE q \in CertificateRows(H) /\ r \in CertificateRows(H)
  <2>1. PICK v \in Word(Content[r.hash].chain.txt, r.doc) : q = CertificateRow(r.hash, v)
    BY <1>1, <1>5
  <2>2. PICK w \in Word(Content[r.hash].chain.txt, r.doc) : r = CertificateRow(r.hash, w)
    BY <1>1, <1>5
  <2>3. v = w
    BY <1>1, <1>4, <1>5, OneWord
  <2> QED  BY <2>1, <2>2, <2>3
<1>6. CASE q \in RefreshRows(H) /\ r \in RefreshRows(H)
  <2>1. PICK v \in Word(Content[r.hash].chain.txt, r.doc) : q = R(r.hash, v)
    BY <1>2, <1>6
  <2>2. PICK w \in Word(Content[r.hash].chain.txt, r.doc) : r = R(r.hash, w)
    BY <1>2, <1>6
  <2>3. v = w
    BY <1>2, <1>4, <1>6, OneWord
  <2> QED  BY <2>1, <2>2, <2>3
<1> QED  BY <1>1, <1>2, <1>3, <1>5, <1>6 DEF Rows

-----------------------------------------------------------------------------
\* The resolution of a hostname in the current state, by its parts.
ViewNow(h) == View(ConsideredNow(h), StatementsFor(h, held, decisions.resets[h]),
                   Extract(held), now, decisions)

BestNow(h) == BestRows(SurvivingNow(h), ViewNow(h))

UndominatedNow(h) == Undominated(BestNow(h), ViewNow(h))

TopNow(h) == TopDocs(Receipts(h, Extract(held), decisions), Rows(held))

MaximalNow(h) == Maximal(BestNow(h), UndominatedNow(h))

IncumbentNow(h) == Incumbent(Winner(TopNow(h)), MaximalNow(h), ViewNow(h))

\* Whether stage 5 contests the hostname.
TiedNow(h) ==
    \/ \E d, e \in TopNow(h) : d # e
    \/ \E doc \in DocsOf(BestNow(h)) : ~Settles(SurvivingNow(h), doc, ViewNow(h))
    \/ DocumentContest(UndominatedNow(h), Winner(TopNow(h)), IncumbentNow(h), ViewNow(h))

ResolvedDocs(h) == AcceptedDoc(MaximalNow(h), IncumbentNow(h), TiedNow(h), ViewNow(h))

LEMMA ViewParts ==
    ASSUME NEW h
    PROVE  /\ ViewNow(h).considered = ConsideredNow(h)
           /\ ViewNow(h).surviving = SurvivingNow(h)
           /\ ViewNow(h).lineage = LineagesNow(h)
           /\ ViewNow(h).now = now
           /\ ViewNow(h).hops = HopsOf(StatementsFor(h, held, decisions.resets[h]))
           /\ ViewNow(h).proofs = ProofPairs(ViewNow(h).hops)
BY DEF ViewNow, View, ViewOf, SurvivingNow, LineagesNow, Extract

\* Nothing binds without a candidate, and nothing is contested.
LEMMA NoCandidate ==
    ASSUME IInv, NEW h \in Host, BestNow(h) = {}
    PROVE  bindings[h].accepted = {} /\ ~bindings[h].contested
<1> DEFINE s == Settle({}, FALSE, {}, {}, {}, ViewNow(h))
<1>1. bindings[h] = ConcludeFrom(s, {}, decisions.claims[h], Pins(h, decisions, targets), ViewNow(h))
  BY ViewParts DEF IInv, Compute, Derive, JudgeView, Judge, BestNow, ViewNow, ConsideredNow, Extract
<1>2. s.bound = {} /\ s.contested = FALSE
  BY DEF Settle
<1> HIDE DEF s
<1>3. ~Masked(s, ViewNow(h))
  BY <1>2 DEF Masked, DocsOf
<1>4. bindings[h] = Conclude(s, FALSE, {}, decisions.claims[h], Pins(h, decisions, targets), ViewNow(h))
  BY <1>1, <1>3 DEF ConcludeFrom, Masked
<1> QED  BY <1>2, <1>4 DEF Conclude

\* With candidates, the output is this.
LEMMA ResolutionParts ==
    ASSUME IInv, NEW h \in Host, BestNow(h) # {}
    PROVE  LET bound  == {r \in BestNow(h) : r.doc \in ResolvedDocs(h)}
               masked == \/ TiedNow(h)
                         \/ DocsOf(bound) \cap RewoundDocs(SurvivingNow(h), LineagesNow(h)) # {}
           IN  /\ bindings[h].contested = masked
               /\ bindings[h].accepted =
                     {AcceptedBinding(r, ContinuityGrade(Winner(TopNow(h)), r.doc, ViewNow(h)),
                                      ViewNow(h)) : r \in IF masked THEN {} ELSE bound}
               /\ bindings[h].forks = LineageForks(LineagesNow(h))
                                        \cup GradedForks(ConsideredNow(h), LineagesNow(h), now)
<1> DEFINE view == ViewNow(h)
           s == Settle(ResolvedDocs(h), TiedNow(h), BestNow(h), IncumbentNow(h), Winner(TopNow(h)), view)
           losing == LosingDocs(Receipts(h, Extract(held), decisions), Rows(held))
           claims == decisions.claims[h]
           pinned == Pins(h, decisions, targets)
           bound  == {r \in BestNow(h) : r.doc \in ResolvedDocs(h)}
           masked == \/ TiedNow(h)
                     \/ DocsOf(bound) \cap RewoundDocs(SurvivingNow(h), LineagesNow(h)) # {}
<1>1. /\ view.surviving = SurvivingNow(h) /\ view.lineage = LineagesNow(h)
      /\ view.considered = ConsideredNow(h) /\ view.now = now
  BY ViewParts
<1>2. bindings[h] = Judge(BestNow(h), Receipts(h, Extract(held), decisions), Extract(held),
                          claims, pinned, view)
  BY <1>1 DEF IInv, Compute, Derive, JudgeView, BestNow, ViewNow, ConsideredNow, Extract
<1>3. ResolveTop(BestNow(h), Undominated(BestNow(h), view), TopNow(h), view) = s
  BY <1>1 DEF ResolveTop, Resolve, ResolvedDocs, TiedNow, IncumbentNow, MaximalNow, UndominatedNow
<1>4. bindings[h] = ConcludeFrom(s, losing, claims, pinned, view)
  BY <1>2, <1>3 DEF Judge, TopNow, Extract
<1>5. s.bound = bound /\ s.contested = TiedNow(h) /\ s.winner = Winner(TopNow(h))
  BY DEF Settle
<1> HIDE DEF s, losing, claims, pinned
<1>6. Masked(s, view) = masked
  BY <1>1, <1>5 DEF Masked
<1> HIDE DEF view, bound, masked
<1>7. bindings[h] = Conclude(s, masked, losing, claims, pinned, view)
  BY <1>4, <1>6 DEF ConcludeFrom
<1>8. /\ bindings[h].contested = masked
      /\ bindings[h].accepted =
            {AcceptedBinding(r, ContinuityGrade(Winner(TopNow(h)), r.doc, view), view) :
                r \in IF masked THEN {} ELSE bound}
      /\ bindings[h].forks = LineageForks(LineagesNow(h))
                               \cup GradedForks(ConsideredNow(h), LineagesNow(h), now)
  BY <1>1, <1>5, <1>7 DEF Conclude
<1> QED  BY <1>8 DEF view, bound, masked

-----------------------------------------------------------------------------
\* From the rows that speak for a hostname to its surviving ones.

LEMMA SpeakingIsOpen ==
    ASSUME IInv, NEW h \in Host
    PROVE  /\ Speaking(h) = Open(Rows(held), h, now, decisions.resets[h])
           /\ \A r \in Speaking(h) : RowOK(r) /\ r.from <= now /\ r \in Rows(held)
<1>1. \A r \in Rows(held) : RowOK(r)
  BY RowsOK, VerifierAssumption DEF IInv, Inputs
<1>2. ASSUME NEW r \in Rows(held)
      PROVE  ~Deferred(r, now) <=> r.from <= now /\ r.serial <= now + Skew
  <2>1. /\ r.from \in Nat /\ r.serial \in Nat /\ now \in Nat /\ Skew \in Nat
    BY <1>1, ContentAssumption DEF RowOK, IInv, Inputs
  <2> QED  BY <2>1 DEF Deferred, Grade
<1> QED  BY <1>1, <1>2 DEF Speaking, Open

\* What a certificate of its document corroborates is considered.
LEMMA CorroboratedIsConsidered ==
    ASSUME IInv, NEW h \in Host, NEW r \in Speaking(h),
           NEW c \in Certificates(Speaking(h)), c.doc = r.doc
    PROVE  r \in ConsideredNow(h) /\ c \in ConsideredNow(h)
<1>1. c \in Speaking(h)
  BY DEF Certificates
<1>2. r.doc \in DocsOf(Certificates(Speaking(h))) /\ c.doc \in DocsOf(Certificates(Speaking(h)))
  BY DEF DocsOf
<1> QED  BY <1>1, <1>2, SpeakingIsOpen DEF ConsideredNow, Considered, Corroborated

\* The considered rows' lineages are those in force.
LEMMA LineageInForce ==
    ASSUME NEW h, NEW r \in ConsideredNow(h)
    PROVE  LineagesNow(h)[r.doc] = LineageView(InForce(r.doc))
BY DEF DocsOf, LineagesNow, LineageOf, InForce

\* Which generations the lineage orders.
LEMMA Descents ==
    ASSUME NEW E, NEW a, NEW b
    PROVE  <<a, b>> \in LineageView(E).descents
              <=> a \in Replaced(E) /\ b \in Reach(E, After(E, {a}))
<1> DEFINE R(k) == Reach(E, After(E, {k}))
<1>1. LineageView(E).descents = UNION {{k} \X R(k) : k \in Replaced(E)}
  BY DEF LineageView
<1> HIDE DEF R
<1>2. \A k : <<a, b>> \in {k} \X R(k) <=> a = k /\ b \in R(k)
  OBVIOUS
<1>3. <<a, b>> \in UNION {{k} \X R(k) : k \in Replaced(E)}
        <=> \E k \in Replaced(E) : <<a, b>> \in {k} \X R(k)
  OBVIOUS
<1> QED  BY <1>1, <1>2, <1>3 DEF R

\* A considered row that stands, on a generation nothing replaces, survives.
LEMMA UnretiredSurvives ==
    ASSUME IInv, NEW h \in Host, NEW r \in ConsideredNow(h),
           Fresh(r, now) => r.onPath, r.gen \notin Replaced(InForce(r.doc))
    PROVE  r \in SurvivingNow(h)
<1>1. LineagesNow(h)[r.doc].protected = Protected(InForce(r.doc))
  <2>1. LineagesNow(h)[r.doc] = LineageView(InForce(r.doc))
    BY LineageInForce
  <2>2. LineageView(InForce(r.doc)).protected = Protected(InForce(r.doc))
    BY DEF LineageView
  <2> QED  BY <2>1, <2>2
<1>2. r.gen \notin LineagesNow(h)[r.doc].protected
  BY <1>1 DEF Protected
<1> QED  BY <1>2 DEF SurvivingNow, Survivors, OffPath, Retired

\* The rows stages 4 and 5 may be given.
Surviving(S) ==
    /\ IsFiniteSet(S)
    /\ \A r \in S : RowOK(r) /\ r.from <= now
    /\ \A q, r \in S : q.hash = r.hash /\ q.doc = r.doc => q = r
    /\ now \in Nat

LEMMA SurvivingRows ==
    ASSUME IInv, HeldFinite, NEW h \in Host
    PROVE  Surviving(SurvivingNow(h))
<1>1. held \in SUBSET Hash /\ now \in Nat
  BY VerifierAssumption DEF IInv, Inputs
<1>2. \A r \in SurvivingNow(h) : r \in Speaking(h)
  BY SurvivorSpeaks
<1>3. \A r \in SurvivingNow(h) : RowOK(r) /\ r.from <= now /\ r \in Rows(held)
  BY <1>2, SpeakingIsOpen
<1>4. IsFiniteSet(SurvivingNow(h))
  <2>1. SurvivingNow(h) \in SUBSET Rows(held)
    BY <1>3
  <2> QED  BY <1>1, <2>1, FinitelyManyRows, FS_Subset DEF HeldFinite
<1>5. \A q, r \in SurvivingNow(h) : q.hash = r.hash /\ q.doc = r.doc => q = r
  BY <1>1, <1>3, OneRow
<1> QED  BY <1>1, <1>3, <1>4, <1>5 DEF Surviving

-----------------------------------------------------------------------------
\* The best row of a document.

\* Among rows that have begun, freshness is a matter of the window's end alone.
LEMMA FreshByEnd ==
    ASSUME NEW S, Surviving(S), NEW r \in S
    PROVE  Fresh(r, now) <=> now <= r.end
<1>1. r.from \in Nat /\ r.end \in Nat /\ now \in Nat /\ r.from <= now
  BY DEF Surviving, RowOK
<1> QED  BY <1>1 DEF Fresh, Grade

LEMMA KeysCompare ==
    ASSUME NEW q, NEW r, RowOK(q), RowOK(r)
    PROVE  /\ KeyLess(q, r) \/ KeyLess(r, q) \/ SameKey(q, r)
           /\ ~(KeyLess(q, r) /\ KeyLess(r, q))
           /\ SameKey(q, r) => ~KeyLess(q, r) /\ ~KeyLess(r, q) /\ SameKey(r, q)
BY DEF RowOK, KeyLess, SameKey

\* Every row has a spelling that stands for it.
LEMMA HasSpelling ==
    ASSUME NEW S, Surviving(S), NEW r \in S
    PROVE  \E q \in Spellings(S, r.doc) : q.gen = r.gen /\ SameKey(q, r)
<1> DEFINE Spelled == {o \in S : o.doc = r.doc /\ o.gen = r.gen /\ SameKey(o, r)}
           hashes == {o.hash : o \in Spelled}
<1>1. hashes \in SUBSET Nat /\ hashes # {}
  BY DEF Surviving, RowOK, SameKey
<1>2. PICK n \in hashes : \A m \in hashes : n <= m
  BY <1>1, LeastNatural
<1>3. PICK q \in Spelled : q.hash = n
  OBVIOUS
<1>4. \A o \in S : o.doc = r.doc /\ o.gen = q.gen /\ SameKey(o, q) => o \in Spelled
  BY DEF SameKey
<1>5. q \in Spellings(S, r.doc)
  BY <1>2, <1>3, <1>4 DEF Spellings
<1> QED  BY <1>3, <1>5

LEMMA RowsOrdered ==
    ASSUME NEW S, Surviving(S), NEW doc
    PROVE  /\ \A q, r \in Spellings(S, doc) : q = r \/ RowLess(q, r) \/ RowLess(r, q)
           /\ \A q \in Spellings(S, doc) : ~RowLess(q, q)
           /\ \A q, r, s \in Spellings(S, doc) : RowLess(q, r) /\ RowLess(r, s) => RowLess(q, s)
<1>1. \A r \in Spellings(S, doc) : r \in S /\ r.doc = doc /\ RowOK(r)
  BY DEF Spellings, Surviving
<1>2. ASSUME NEW q \in Spellings(S, doc), NEW r \in Spellings(S, doc)
      PROVE  q = r \/ RowLess(q, r) \/ RowLess(r, q)
  <2>1. q.hash = r.hash => q = r
    BY <1>1 DEF Surviving
  <2>2. KeyLess(q, r) \/ KeyLess(r, q) \/ (SameKey(q, r) /\ SameKey(r, q))
    BY <1>1, KeysCompare
  <2>3. q.gen \in Nat /\ r.gen \in Nat /\ q.hash \in Nat /\ r.hash \in Nat
    BY <1>1 DEF RowOK
  <2> QED  BY <2>1, <2>2, <2>3 DEF RowLess
<1>3. ASSUME NEW q \in Spellings(S, doc)
      PROVE  ~RowLess(q, q)
  BY <1>1 DEF RowLess, KeyLess, SameKey, RowOK
<1>4. ASSUME NEW q \in Spellings(S, doc), NEW r \in Spellings(S, doc), NEW s \in Spellings(S, doc),
             RowLess(q, r), RowLess(r, s)
      PROVE  RowLess(q, s)
  BY <1>1, <1>4 DEF RowLess, KeyLess, SameKey, RowOK
<1> QED  BY <1>2, <1>3, <1>4

\* A document with a surviving row has a greatest spelling.
LEMMA GreatestSpelling ==
    ASSUME NEW S, Surviving(S), NEW r \in S
    PROVE  \E q \in Spellings(S, r.doc) :
              \A s \in Spellings(S, r.doc) : s = q \/ RowLess(s, q)
<1> DEFINE T == Spellings(S, r.doc)
           R == {p \in T \X T : RowLess(p[1], p[2])}
<1>1. T # {} /\ T \in SUBSET S
  BY HasSpelling DEF Spellings
<1>2. IsFiniteSet(T)
  BY <1>1, FS_Subset DEF Surviving
<1>3. \A x, y \in T : <<x, y>> \in R <=> RowLess(x, y)
  OBVIOUS
<1> HIDE DEF T, R
<1>4. /\ \A q, s \in T : q = s \/ RowLess(q, s) \/ RowLess(s, q)
      /\ \A q \in T : ~RowLess(q, q)
      /\ \A q, s, t \in T : RowLess(q, s) /\ RowLess(s, t) => RowLess(q, t)
  BY RowsOrdered DEF T
<1>5. PICK q \in T : \A s \in T : <<q, s>> \notin R
  BY <1>1, <1>2, <1>3, <1>4, FiniteMaximum
<1>6. \A s \in T : s = q \/ RowLess(s, q)
  BY <1>3, <1>4, <1>5
<1> QED  BY <1>6 DEF T

\* So it has a best row.
LEMMA BestExists ==
    ASSUME NEW S, Surviving(S), NEW r \in S, NEW view
    PROVE  BestOf(S, r.doc, view) # {}
<1>1. CASE Settles(S, r.doc, view)
  BY <1>1 DEF Settles, IsSingle, BestOf
<1>2. CASE ~Settles(S, r.doc, view)
  BY <1>2, GreatestSpelling DEF BestOf
<1> QED  BY <1>1, <1>2

\* A document whose surviving rows give each zone state one generation, and whose
\* generations no statement orders, settles: the greatest key dominates the others.
LEMMA UndisputedSettles ==
    ASSUME NEW S, Surviving(S), NEW view, view.now = now, NEW x \in S,
           \A q, r \in S : q.doc = x.doc /\ r.doc = x.doc =>
               /\ SameKey(q, r) => q.gen = r.gen
               /\ <<q.gen, r.gen>> \notin view.lineage[x.doc].descents
    PROVE  Settles(S, x.doc, view)
<1> DEFINE T == Spellings(S, x.doc)
<1>1. \A r \in T : r \in S /\ r.doc = x.doc /\ RowOK(r)
  BY DEF Spellings, Surviving
<1>2. PICK q \in T : \A s \in T : s = q \/ RowLess(s, q)
  BY GreatestSpelling
<1>3. ASSUME NEW s \in T, s # q
      PROVE  KeyLess(s, q) /\ ~KeyLess(q, s) /\ ~SameKey(s, q) /\ ~SameKey(q, s)
  <2>1. ~SameKey(s, q)
    <3> SUFFICES ASSUME SameKey(s, q)  PROVE FALSE
      OBVIOUS
    <3>1. SameKey(q, s) /\ q.gen = s.gen
      BY <1>1, KeysCompare
    <3>2. s.hash <= q.hash /\ q.hash <= s.hash
      BY <1>1, <3>1 DEF Spellings
    <3>3. s.hash = q.hash
      BY <1>1, <3>2 DEF RowOK
    <3> QED  BY <1>1, <1>3, <3>3 DEF Surviving
  <2> QED  BY <1>1, <1>2, <1>3, <2>1, KeysCompare DEF RowLess
<1>4. ASSUME NEW s \in T, s # q
      PROVE  LadderVerdict(q, s, view) = "Left" /\ LadderVerdict(s, q, view) = "Right"
  <2>1. SignedOrder(q, s, view) = "Silent" /\ SignedOrder(s, q, view) = "Silent"
    <3>1. ~Precedes(q, s, view) /\ ~Precedes(s, q, view)
      BY <1>1 DEF Precedes
    <3> QED  BY <3>1 DEF SignedOrder
  <2>2. KeyVerdict(q, s) = "Left" /\ KeyVerdict(s, q) = "Right"
    BY <1>1, <1>3, <1>4 DEF KeyVerdict
  <2>3. Fresh(s, now) => Fresh(q, now)
    <3>1. s.end <= q.end
      BY <1>1, <1>3, <1>4 DEF KeyLess, RowOK
    <3>2. s.end \in Nat /\ q.end \in Nat /\ now \in Nat
      BY <1>1 DEF RowOK, Surviving
    <3> QED  BY <1>1, <3>1, <3>2, FreshByEnd
  <2>4. Fresh(q, now) \in BOOLEAN /\ Fresh(s, now) \in BOOLEAN
    BY DEF Fresh
  <2> QED  BY <2>1, <2>2, <2>3, <2>4 DEF LadderVerdict, Compare
<1>5. Undominated(T, view) = {q}
  BY <1>4 DEF Undominated
<1> QED  BY <1>5 DEF Settles, IsSingle

\* A fresh row beats a row that is not, whatever the statements say.
LEMMA FreshBeatsStale ==
    ASSUME NEW q, NEW r, NEW view, Fresh(q, view.now), ~Fresh(r, view.now)
    PROVE  LadderVerdict(q, r, view) = "Left" /\ LadderVerdict(r, q, view) = "Right"
BY DEF LadderVerdict, Compare

\* The best row of a document that settles is fresh if any of its rows is.
LEMMA BestIsFresh ==
    ASSUME NEW S, Surviving(S), NEW view, view.now = now,
           NEW r \in S, Fresh(r, now), Settles(S, r.doc, view),
           NEW q \in BestOf(S, r.doc, view)
    PROVE  Fresh(q, now)
<1>1. q \in Undominated(Spellings(S, r.doc), view)
  BY DEF BestOf
<1>2. PICK p \in Spellings(S, r.doc) : p.gen = r.gen /\ SameKey(p, r)
  BY HasSpelling
<1>3. Fresh(p, now)
  <2>1. p \in S /\ p.end = r.end
    BY <1>2 DEF Spellings, SameKey
  <2> QED  BY <2>1, FreshByEnd
<1>4. p # q => LadderVerdict(p, q, view) # "Left"
  BY <1>1, <1>2 DEF Undominated
<1> QED  BY <1>3, <1>4, FreshBeatsStale

\* Among candidates with a fresh one, only fresh ones are undominated.
LEMMA UndominatedIsFresh ==
    ASSUME NEW R, NEW view, NEW q \in R, Fresh(q, view.now),
           NEW r \in Undominated(R, view)
    PROVE  Fresh(r, view.now)
BY FreshBeatsStale DEF Undominated

\* The first candidate by document exists.
LEMMA FirstExists ==
    ASSUME NEW R, \A r \in R : r.doc \in Nat, R # {}
    PROVE  FirstByDoc(R) # {}
<1>1. PICK n \in DocsOf(R) : \A m \in DocsOf(R) : n <= m
  <2>1. DocsOf(R) \in SUBSET Nat /\ DocsOf(R) # {}
    BY DEF DocsOf
  <2> QED  BY <2>1, LeastNatural
<1> QED  BY <1>1 DEF DocsOf, FirstByDoc

\* What is accepted is one of the best rows of the documents resolved.
LEMMA AcceptedIsBound ==
    ASSUME IInv, NEW h \in Host, NEW b \in bindings[h].accepted
    PROVE  /\ ~bindings[h].contested /\ ~TiedNow(h) /\ BestNow(h) # {}
           /\ \E r \in BestNow(h) :
                 /\ r.doc \in ResolvedDocs(h)
                 /\ r.doc \notin RewoundDocs(SurvivingNow(h), LineagesNow(h))
                 /\ b = AcceptedBinding(r, ContinuityGrade(Winner(TopNow(h)), r.doc, ViewNow(h)),
                                        ViewNow(h))
                 /\ b.doc = r.doc /\ b.gen = r.gen
<1> DEFINE bound  == {r \in BestNow(h) : r.doc \in ResolvedDocs(h)}
           masked == \/ TiedNow(h)
                     \/ DocsOf(bound) \cap RewoundDocs(SurvivingNow(h), LineagesNow(h)) # {}
           out(r) == AcceptedBinding(r, ContinuityGrade(Winner(TopNow(h)), r.doc, ViewNow(h)),
                                     ViewNow(h))
<1>1. BestNow(h) # {}
  BY NoCandidate
<1>2. /\ bindings[h].contested = masked
      /\ bindings[h].accepted = {out(r) : r \in IF masked THEN {} ELSE bound}
  BY <1>1, ResolutionParts
<1> HIDE DEF out
<1>3. ~masked
  BY <1>2
<1>4. PICK r \in bound : b = out(r)
  BY <1>2, <1>3
<1>5. b.doc = r.doc /\ b.gen = r.gen
  BY <1>4 DEF out, AcceptedBinding
<1> QED  BY <1>1, <1>2, <1>3, <1>4, <1>5 DEF DocsOf, out

\* And what is bound and unmasked is accepted.
LEMMA BoundIsAccepted ==
    ASSUME IInv, NEW h \in Host, ~bindings[h].contested,
           NEW r \in BestNow(h), r.doc \in ResolvedDocs(h)
    PROVE  \E b \in bindings[h].accepted : b.doc = r.doc /\ b.gen = r.gen
<1> DEFINE bound  == {q \in BestNow(h) : q.doc \in ResolvedDocs(h)}
           masked == \/ TiedNow(h)
                     \/ DocsOf(bound) \cap RewoundDocs(SurvivingNow(h), LineagesNow(h)) # {}
           out(q) == AcceptedBinding(q, ContinuityGrade(Winner(TopNow(h)), q.doc, ViewNow(h)),
                                     ViewNow(h))
<1>1. /\ bindings[h].contested = masked
      /\ bindings[h].accepted = {out(q) : q \in IF masked THEN {} ELSE bound}
  BY ResolutionParts
<1> HIDE DEF out, masked
<1>2. out(r) \in bindings[h].accepted
  BY <1>1
<1> QED  BY <1>2 DEF out, AcceptedBinding

-----------------------------------------------------------------------------
\* Freshness carries through to the binding.

LEMMA FreshRowBinds ==
    ASSUME IInv, HeldFinite, NEW h \in Host, ~bindings[h].contested,
           NEW r \in SurvivingNow(h), Fresh(r, now),
           NEW c \in Certificates(SurvivingNow(h)), c.doc = r.doc
    PROVE  \E b \in bindings[h].accepted : FreshSupport(Speaking(h), b.doc, now)
<1> DEFINE S == SurvivingNow(h)
           view == ViewNow(h)
           best == BestNow(h)
           und == UndominatedNow(h)
<1>1. Surviving(S) /\ view.now = now /\ view.surviving = S
  BY SurvivingRows, ViewParts
<1>2. PICK q \in BestOf(S, r.doc, view) : TRUE
  BY <1>1, BestExists
<1>3. q \in best /\ q \in S /\ q.doc = r.doc
  <2>1. r.doc \in Candidates(S)
    BY DEF Candidates, DocsOf
  <2> QED  BY <2>1, BestOfOK DEF BestNow, BestRows
<1>4. ~TiedNow(h)
  BY <1>3, ResolutionParts
<1>5. Fresh(q, now)
  <2>1. Settles(S, q.doc, view)
    BY <1>3, <1>4 DEF TiedNow, DocsOf
  <2> HIDE DEF S, view
  <2> QED  BY <1>1, <1>2, <1>3, <2>1, BestIsFresh DEF S
<1>6. und # {}
  <2> SUFFICES ASSUME und = {}  PROVE FALSE
    OBVIOUS
  <2>1. ~IsSingle(und)
    BY DEF IsSingle
  <2> QED  BY <1>4, <2>1 DEF TiedNow, DocumentContest
<1>7. und \subseteq best /\ \A p \in und : Fresh(p, now)
  <2>1. \A p \in und : Fresh(p, view.now)
    BY <1>1, <1>3, <1>5, UndominatedIsFresh DEF UndominatedNow
  <2> QED  BY <1>1, <2>1 DEF UndominatedNow, Undominated
<1>8. \A p \in best : p \in S /\ p.doc \in Nat
  <2>1. \A p \in best : p \in S
    BY <1>1, BestRowsOK DEF BestNow
  <2> QED  BY <1>1, <2>1 DEF Surviving, RowOK
<1>9. PICK m \in MaximalNow(h) : TRUE
  <2>1. FirstByDoc(und) # {}
    BY <1>6, <1>7, <1>8, FirstExists
  <2> QED  BY <1>6, <2>1 DEF MaximalNow, Maximal
<1>10. m \in und
  BY <1>6, <1>9 DEF MaximalNow, Maximal, FirstByDoc
<1>11. m.doc \in ResolvedDocs(h)
  <2>1. Eligible(m, IncumbentNow(h), view)
    BY <1>1, <1>7, <1>10 DEF Eligible
  <2>2. ResolvedDocs(h) = DocsOf(MaximalNow(h))
    BY <1>4, <1>9, <2>1 DEF ResolvedDocs, AcceptedDoc
  <2> QED  BY <1>9, <2>2 DEF DocsOf
<1>12. PICK b \in bindings[h].accepted : b.doc = m.doc
  BY <1>7, <1>10, <1>11, BoundIsAccepted
<1>13. m \in Speaking(h) /\ Fresh(m, now)
  BY <1>7, <1>8, <1>10, SurvivorSpeaks
<1> QED  BY <1>12, <1>13 DEF FreshSupport

\* The inductive invariant of this module: the bindings are derived, and the store
\* is finite.
LEMMA StateInvariant == Spec => [](IInv /\ HeldFinite)
BY BindingsAreDerived, HeldIsFinite, PTL

\* Where the bindings are derived from a finite store, FreshWins holds: the argument of the
\* theorem after it.
LEMMA FreshInEveryState == IInv /\ HeldFinite => FreshWins
<1> SUFFICES ASSUME IInv, HeldFinite, NEW h \in Host,
                    NEW r \in Speaking(h), NEW c \in Certificates(Speaking(h)),
                    Fresh(r, now), r.onPath, r.gen \notin Replaced(InForce(r.doc)),
                    c.doc = r.doc, Stands(c), c.gen \notin Replaced(InForce(c.doc)),
                    ~bindings[h].contested
             PROVE  \E b \in bindings[h].accepted : FreshSupport(Speaking(h), b.doc, now)
  BY DEF FreshWins
<1>1. r \in ConsideredNow(h) /\ c \in ConsideredNow(h)
  BY CorroboratedIsConsidered
<1>2. r \in SurvivingNow(h) /\ c \in SurvivingNow(h)
  BY <1>1, UnretiredSurvives DEF Stands
<1>3. c \in Certificates(SurvivingNow(h))
  BY <1>2 DEF Certificates
<1> QED  BY <1>2, <1>3, FreshRowBinds

\* Current evidence wins, whatever else is held, accepted, reset or proved: a fresh,
\* on-path row of an unretired generation, beside a standing certificate of its
\* document, leaves the hostname contested or bound to a document with fresh
\* support (ladder.rs rung 0, state.rs stages 4 and 5).
THEOREM FreshAlwaysWins == Spec => []FreshWins
BY FreshInEveryState, StateInvariant, PTL

-----------------------------------------------------------------------------
\* What contests a hostname.

\* One document, attested at one generation that nothing replaces, is not contested
\* by its own records, however many.
LEMMA OneBindingIsUncontested ==
    ASSUME IInv, HeldFinite, NEW h \in Host, BestNow(h) # {}, NEW x \in SurvivingNow(h),
           \A r \in SurvivingNow(h) : r.doc = x.doc /\ r.gen = x.gen,
           x.gen \notin Replaced(InForce(x.doc)),
           \A d, e \in TopNow(h) : d = e
    PROVE  ~TiedNow(h) /\ RewoundDocs(SurvivingNow(h), LineagesNow(h)) = {}
<1> DEFINE S == SurvivingNow(h)
           view == ViewNow(h)
<1>1. /\ Surviving(S) /\ view.now = now /\ view.lineage = LineagesNow(h)
  BY SurvivingRows, ViewParts
<1>2. LineagesNow(h)[x.doc] = LineageView(InForce(x.doc))
  <2>1. x \in ConsideredNow(h)
    BY DEF SurvivingNow, Survivors
  <2> QED  BY <2>1, LineageInForce
<1>3. <<x.gen, x.gen>> \notin view.lineage[x.doc].descents
  BY <1>1, <1>2, Descents
<1>4. Settles(S, x.doc, view)
  BY <1>1, <1>3, UndisputedSettles
<1>5. \A r \in BestNow(h) : r \in S
  BY BestRowsOK DEF BestNow
<1>6. \A r \in BestNow(h) : r.doc = x.doc
  BY <1>5
<1>7. \A q, r \in BestNow(h) : q = r
  <2>1. \A r \in S : RowOK(r)
    BY <1>1 DEF Surviving
  <2> QED  BY <1>6, <2>1, BestRowsUnique DEF BestNow
<1>8. ~DocumentContest(UndominatedNow(h), Winner(TopNow(h)), IncumbentNow(h), view)
  <2> PICK q \in BestNow(h) : TRUE
    OBVIOUS
  <2>1. UndominatedNow(h) = {q}
    BY <1>7 DEF UndominatedNow, Undominated
  <2> QED  BY <2>1 DEF DocumentContest, IsSingle

<1>9. ~TiedNow(h)
  BY <1>4, <1>6, <1>8 DEF TiedNow, DocsOf
<1>10. \A r \in S : ~Retired(r, LineagesNow(h))
  <2>1. LineagesNow(h)[x.doc].protected = Protected(InForce(x.doc))
    BY <1>2 DEF LineageView
  <2> QED  BY <2>1 DEF Retired, Protected
<1>11. RewoundDocs(S, LineagesNow(h)) = {}
  BY <1>10 DEF RewoundDocs, DocsOf
<1> QED  BY <1>9, <1>11

\* Where the bindings are derived from a finite store, ContestNeedsDispute holds: the argument of the
\* theorem after it.
LEMMA ContestInEveryState == IInv /\ HeldFinite => ContestNeedsDispute
<1> SUFFICES ASSUME IInv, HeldFinite, NEW h \in Host, bindings[h].contested,
                    IsSingle({<<r.doc, r.gen>> : r \in Speaking(h)}),
                    \A r \in Speaking(h) : r.gen \notin Replaced(InForce(r.doc)),
                    \A a, b \in decisions.acceptances[h] : a.doc = b.doc
             PROVE  FALSE
  BY DEF ContestNeedsDispute
<1>1. BestNow(h) # {}
  BY NoCandidate
<1>2. PICK x \in BestNow(h) : x \in SurvivingNow(h)
  BY <1>1, BestRowsOK DEF BestNow
<1>3. \A r \in SurvivingNow(h) : r \in Speaking(h)
  BY SurvivorSpeaks
<1>4. \A q, r \in Speaking(h) : q.doc = r.doc /\ q.gen = r.gen
  <2>1. PICK p \in {<<r.doc, r.gen>> : r \in Speaking(h)} :
           {<<r.doc, r.gen>> : r \in Speaking(h)} = {p}
    BY DEF IsSingle
  <2>2. \A q \in Speaking(h) : <<q.doc, q.gen>> = p
    BY <2>1
  <2>3. \A q, r \in Speaking(h) : <<q.doc, q.gen>> = <<r.doc, r.gen>>
    BY <2>2
  <2> QED  BY <2>3
<1>5. \A d, e \in TopNow(h) : d = e
  BY DEF TopNow, TopDocs, DocsOf, Receipts
<1>6. ~TiedNow(h) /\ RewoundDocs(SurvivingNow(h), LineagesNow(h)) = {}
  BY <1>1, <1>2, <1>3, <1>4, <1>5, OneBindingIsUncontested
<1> QED  BY <1>1, <1>6, ResolutionParts

\* Only a real disagreement contests a hostname: rows of different documents or
\* generations, a generation some statement replaces, or acceptances of different
\* documents. No number of copies, refreshes and re-served windows of one binding
\* ever blanks it (state.rs: best_of_document merges spellings; claims, pins and
\* pending challengers mask nothing).
THEOREM ContestsNeedDispute == Spec => []ContestNeedsDispute
BY ContestInEveryState, StateInvariant, PTL

-----------------------------------------------------------------------------
\* What may take the place of what the user accepted.

\* A finite store yields finitely many statements, carried ones included.
LEMMA FinitelyManyStatements ==
    ASSUME NEW H \in SUBSET Hash, IsFiniteSet(H), NEW kind
    PROVE  IsFiniteSet(Statements(H, kind))
<1> DEFINE Records == {c \in H : Content[c].kind = "Record"}
           carried == [c \in Records |-> Content[c].lineage \cup Content[c].predecessor]
<1>1. IsFiniteSet({carried[c] : c \in DOMAIN carried})
  <2>1. IsFiniteSet(DOMAIN carried)
    BY FS_Subset
  <2>2. carried = [c \in DOMAIN carried |-> carried[c]]
    OBVIOUS
  <2> HIDE DEF carried
  <2> QED  BY <2>1, <2>2, FiniteImage
<1>2. \A T \in {carried[c] : c \in DOMAIN carried} : IsFiniteSet(T)
  BY ContentAssumption DEF OfKind, Hash
<1>3. IsFiniteSet(H \cup UNION {carried[c] : c \in DOMAIN carried})
  BY <1>1, <1>2, FS_UNION, FS_Union
<1>4. Statements(H, kind) \in SUBSET (H \cup UNION {carried[c] : c \in DOMAIN carried})
  BY DEF Statements, Carriers, Carries
<1> HIDE DEF carried
<1> QED  BY <1>3, <1>4, FS_Subset

LEMMA HopsAreFinite ==
    ASSUME IInv, HeldFinite, NEW h \in Host
    PROVE  IsFiniteSet(ViewNow(h).hops)
<1> DEFINE T == StatementsFor(h, held, decisions.resets[h])
           f == [s \in T |-> <<Content[s].pred, Content[s].succ>>]
<1>1. held \in SUBSET Hash
  BY VerifierAssumption DEF IInv, Inputs
<1>2. T \in SUBSET Statements(held, "Successor")
  BY DEF StatementsFor, Unexcluded
<1>3. IsFiniteSet(T)
  BY <1>1, <1>2, FinitelyManyStatements, FS_Subset DEF HeldFinite
<1> HIDE DEF T
<1>4. IsFiniteSet({f[s] : s \in DOMAIN f})
  <2>1. IsFiniteSet(DOMAIN f) /\ f = [s \in DOMAIN f |-> f[s]]
    BY <1>3
  <2> HIDE DEF f
  <2> QED  BY <2>1, FiniteImage
<1>5. HopsOf(T) = {f[s] : s \in DOMAIN f}
  BY DEF HopsOf
<1> QED  BY <1>4, <1>5, ViewParts DEF T

\* Where the bindings are derived from a finite store, DisplacedOnlyByFresh holds: the argument of the
\* theorem after it.
LEMMA DisplacedInEveryState == IInv /\ HeldFinite => DisplacedOnlyByFresh
<1> SUFFICES ASSUME IInv, HeldFinite, NEW h \in Host, NEW b \in bindings[h].accepted,
                    b.continuity = "Unproven"
             PROVE  b.grade = "Confirmed"
  BY DEF DisplacedOnlyByFresh
<1> DEFINE view == ViewNow(h)
           winner == Winner(TopNow(h))
           continuity(r) == ContinuityGrade(winner, r.doc, view)
<1>1. PICK r \in BestNow(h) :
         /\ r.doc \in ResolvedDocs(h) /\ b = AcceptedBinding(r, continuity(r), view)
  BY AcceptedIsBound
<1>2. continuity(r) = "Unproven" /\ b.grade = Grading(r.doc, "Unproven", view)
  BY <1>1 DEF AcceptedBinding
<1> HIDE DEF view
<1>3. PICK w \in winner : w = (CHOOSE d \in winner : TRUE)
  BY <1>2 DEF ContinuityGrade
<1>4. winner = {w}
  BY <1>3 DEF Winner
<1> DEFINE chain == ChainFrom(view.hops, w)
<1>5. r.doc \notin ToSet(chain)
  BY <1>2, <1>3 DEF ContinuityGrade, ContinuityAlong
<1>6. IncumbentNow(h) = {Last(chain)}
  BY <1>4 DEF IncumbentNow, Incumbent, view
<1>7. IsFiniteSet(view.hops)
  BY HopsAreFinite DEF view
<1>8. r.doc # Last(chain)
  BY <1>5, <1>7, ChainIsClosed
<1>9. PICK m \in MaximalNow(h) : Eligible(m, IncumbentNow(h), view)
  BY <1>1, <1>6, <1>8 DEF ResolvedDocs, AcceptedDoc, view
<1>10. ResolvedDocs(h) = DocsOf(MaximalNow(h)) \/ ResolvedDocs(h) = IncumbentNow(h)
  BY DEF ResolvedDocs, AcceptedDoc
<1>11. r.doc \in DocsOf(MaximalNow(h))
  BY <1>1, <1>6, <1>8, <1>10
<1>12. m.doc = r.doc /\ m \in BestNow(h)
  <2>1. PICK n \in MaximalNow(h) : n.doc = r.doc
    BY <1>11 DEF DocsOf
  <2>2. \A p \in MaximalNow(h) : p \in BestNow(h)
    BY DEF MaximalNow, Maximal, FirstByDoc, UndominatedNow, Undominated
  <2>3. n.doc <= m.doc /\ m.doc <= n.doc
    BY DEF MaximalNow, Maximal, FirstByDoc
  <2>4. n.doc \in Nat /\ m.doc \in Nat
    BY <2>2, BestRowsOK, SurvivorSpeaks, ViewParts DEF BestNow, RowOK
  <2> QED  BY <2>1, <2>2, <2>3, <2>4
<1>13. <<Last(chain), r.doc>> \notin view.proofs
  <2>1. view.proofs = ProofPairs(view.hops)
    BY ViewParts DEF view
  <2>2. ToSet(ChainFrom(view.hops, Last(chain))) \subseteq ToSet(chain)
    BY <1>7, LastLeadsBack
  <2> QED  BY <1>5, <2>1, <2>2 DEF ProofPairs
<1>14. Fresh(m, now) /\ m \in view.surviving
  <2>1. Fresh(m, view.now)
    BY <1>6, <1>8, <1>9, <1>12, <1>13 DEF Eligible
  <2>2. view.now = now /\ view.surviving = SurvivingNow(h) /\ m \in SurvivingNow(h)
    BY <1>12, ViewParts, BestRowsOK DEF BestNow, view
  <2> QED  BY <2>1, <2>2
<1>15. FreshSupport(view.surviving, r.doc, view.now)
  BY <1>12, <1>14, ViewParts DEF FreshSupport, view
<1> QED  BY <1>2, <1>15 DEF Grading

\* The user's acceptance is displaced without proof by fresh evidence only: a
\* document off the chain of succession proofs that binds in its place is graded
\* Confirmed (state.rs stage 5: eligible means the incumbent, a fresh row, or a
\* proof away from it, and what the proofs reach from the incumbent is on the chain).
THEOREM OnlyFreshEvidenceDisplaces == Spec => []DisplacedOnlyByFresh
BY DisplacedInEveryState, StateInvariant, PTL

-----------------------------------------------------------------------------
\* Generations that the lineage retired.

LEMMA EdgesAreFinite ==
    ASSUME IInv, HeldFinite, NEW doc
    PROVE  InForce(doc) \in SUBSET (Nat \X Nat) /\ IsFiniteSet(InForce(doc))
<1> DEFINE T == {x \in Unexcluded(held, "Rotation", EveryReset(decisions)) : Content[x].doc = doc}
           f == [s \in T |-> <<Content[s].replaced, Content[s].successor>>]
<1>1. held \in SUBSET Hash
  BY VerifierAssumption DEF IInv, Inputs
<1>2. T \in SUBSET Statements(held, "Rotation")
  BY DEF Unexcluded
<1>3. IsFiniteSet(T)
  BY <1>1, <1>2, FinitelyManyStatements, FS_Subset DEF HeldFinite
<1>4. \A s \in T : Content[s].replaced \in Nat /\ Content[s].successor \in Nat
  BY <1>2, ContentAssumption DEF Statements
<1>5. InForce(doc) = {f[s] : s \in DOMAIN f}
  BY DEF InForce, Edges
<1> HIDE DEF T
<1>6. IsFiniteSet({f[s] : s \in DOMAIN f})
  <2>1. IsFiniteSet(DOMAIN f) /\ f = [s \in DOMAIN f |-> f[s]]
    BY <1>3
  <2> HIDE DEF f
  <2> QED  BY <2>1, FiniteImage
<1> QED  BY <1>4, <1>5, <1>6

\* A converged lineage is settled.
LEMMA ConvergedSettles ==
    ASSUME IInv, HeldFinite, NEW doc, Converged(doc)
    PROVE  Implicated(InForce(doc)) = {} /\ Protected(InForce(doc)) = Replaced(InForce(doc))
<1>1. PICK k : Heads(InForce(doc)) = {k}
  BY DEF Converged, IsSingle
<1> QED  BY <1>1, EdgesAreFinite, AcyclicOneHeadSettles DEF Converged

\* Where the bindings are derived from a finite store, RetiredOnlyInDispute holds: the argument of the
\* theorem after it.
LEMMA RetiredInEveryState == IInv /\ HeldFinite => RetiredOnlyInDispute
<1> SUFFICES ASSUME IInv, HeldFinite, NEW h \in Host, NEW b \in bindings[h].accepted,
                    b.gen \in Replaced(InForce(b.doc))
             PROVE  /\ ~Converged(b.doc)
                    /\ \E f \in bindings[h].forks : f.doc = b.doc
  BY DEF RetiredOnlyInDispute
<1>1. BestNow(h) # {}
  BY AcceptedIsBound
<1>2. PICK r \in BestNow(h) :
         /\ r.doc \notin RewoundDocs(SurvivingNow(h), LineagesNow(h))
         /\ b.doc = r.doc /\ b.gen = r.gen
  BY AcceptedIsBound
<1>3. r \in SurvivingNow(h)
  BY BestRowsOK DEF BestNow
<1>4. r \in ConsideredNow(h) /\ ~OffPath(r, now)
  BY <1>3 DEF SurvivingNow, Survivors
<1>5. LineagesNow(h)[r.doc] = LineageView(InForce(r.doc))
  BY <1>4, LineageInForce
<1>6. /\ LineagesNow(h)[r.doc].protected = Protected(InForce(r.doc))
      /\ LineagesNow(h)[r.doc].implicated = Implicated(InForce(r.doc))
  BY <1>5 DEF LineageView
<1>7. r.gen \notin Protected(InForce(r.doc))
  BY <1>2, <1>3, <1>6 DEF RewoundDocs, Retired, DocsOf
<1>8. r.gen \in Implicated(InForce(r.doc))
  BY <1>2, <1>7 DEF Protected
<1>9. ~Converged(b.doc)
  BY <1>2, <1>8, ConvergedSettles
<1>10. [doc |-> r.doc, at |-> r.gen] \in GradedForks(ConsideredNow(h), LineagesNow(h), now)
  BY <1>4, <1>6, <1>8 DEF GradedForks
<1>11. [doc |-> r.doc, at |-> r.gen] \in bindings[h].forks
  BY <1>1, <1>10, ResolutionParts
<1> QED  BY <1>2, <1>9, <1>11

\* A retired generation binds only where the statements in force disagree, and the
\* fork is surfaced with it: a rewound row of the protected prefix contests its
\* document, so what binds lies in fork territory (state.rs stages 3, 4 and 8).
THEOREM RetiredBindsOnlyInDispute == Spec => []RetiredOnlyInDispute
BY RetiredInEveryState, StateInvariant, PTL

\* Where the lineage has converged and a certificate of the head stands, what
\* survives of the document attests the head: a retired row is stale, or the head's
\* certificate shows that the zone moved on from it.
LEMMA OnlyTheHeadSurvives ==
    ASSUME IInv, HeldFinite, NEW h \in Host, NEW k,
           NEW c \in ConsideredNow(h), c.gen = k,
           Converged(c.doc), Heads(InForce(c.doc)) = {k},
           NEW r \in SurvivingNow(h), r.doc = c.doc, r.gen \in Keys(InForce(r.doc))
    PROVE  r.gen = k
<1> DEFINE E == InForce(c.doc)
<1> SUFFICES ASSUME r.gen \in Replaced(E)  PROVE FALSE
  BY DEF Heads, Keys
<1>1. r \in ConsideredNow(h) /\ (Retired(r, LineagesNow(h)) =>
                                    ~MovedOn(r, LineagesNow(h), ConsideredNow(h)))
  BY DEF SurvivingNow, Survivors
<1>2. LineagesNow(h)[r.doc] = LineageView(E)
  BY <1>1, LineageInForce
<1>3. Retired(r, LineagesNow(h))
  <2>1. LineageView(E).protected = Protected(E)
    BY DEF LineageView
  <2> QED  BY <1>2, <2>1, ConvergedSettles DEF Retired
<1>4. Descends(E, r.gen, k)
  BY EdgesAreFinite, AllDescendToTheHead DEF Converged
<1>5. <<r.gen, c.gen>> \in LineageView(E).descents
  BY <1>4, Descents DEF Descends
<1>6. MovedOn(r, LineagesNow(h), ConsideredNow(h))
  BY <1>2, <1>5 DEF MovedOn
<1> QED  BY <1>1, <1>3, <1>6

\* Where the bindings are derived from a finite store, MergeRepairs holds: the argument of the
\* theorem after it.
LEMMA MergeInEveryState == IInv /\ HeldFinite => MergeRepairs
<1> SUFFICES ASSUME IInv, HeldFinite, NEW h \in Host, NEW doc \in Doc,
                    DocsOf(Speaking(h)) = {doc},
                    Preferred(h) \cup Incumbents(h) \subseteq {doc},
                    Converged(doc),
                    \A r \in {q \in Speaking(h) : q.doc = doc} : r.gen \in Keys(InForce(doc)),
                    NEW c \in Certificates({r \in Speaking(h) : r.doc = doc}),
                    c.gen \in Heads(InForce(doc)), Fresh(c, now) => c.onPath
             PROVE  \E b \in bindings[h].accepted : b.gen \in Heads(InForce(doc))
  BY DEF MergeRepairs
<1> DEFINE E == InForce(doc)
           S == SurvivingNow(h)
           k == c.gen
<1>1. c \in Speaking(h) /\ c.doc = doc /\ c \in Certificates(Speaking(h))
  BY DEF Certificates
<1>2. Heads(E) = {k} /\ k \notin Replaced(E)
  BY DEF Converged, IsSingle, Heads
<1>3. c \in ConsideredNow(h)
  BY <1>1, CorroboratedIsConsidered
<1>4. c \in S
  BY <1>1, <1>2, <1>3, UnretiredSurvives
<1>5. \A r \in S : r \in Speaking(h)
  BY SurvivorSpeaks
<1>6. \A r \in S : r.doc = doc /\ r.gen = k
  <2> TAKE r \in S
  <2>1. r.doc = doc
    BY <1>5 DEF DocsOf
  <2>2. r.gen \in Keys(InForce(r.doc))
    BY <1>5, <2>1
  <2> QED  BY <1>1, <1>2, <1>3, <2>1, <2>2, OnlyTheHeadSurvives
<1>7. PICK q \in BestOf(S, doc, ViewNow(h)) : q \in S
  <2>1. Surviving(S)
    BY SurvivingRows
  <2> HIDE DEF S
  <2>2. BestOf(S, doc, ViewNow(h)) # {}
    BY <1>1, <1>4, <2>1, BestExists
  <2> QED  BY <2>2, BestOfOK
<1>8. q \in BestNow(h)
  <2>1. doc \in Candidates(S)
    BY <1>1, <1>4 DEF Candidates, Certificates, DocsOf
  <2> QED  BY <1>7, <2>1 DEF BestNow, BestRows, ViewNow, View, ViewOf, SurvivingNow
<1>9. \A d, e \in TopNow(h) : d = e
  BY DEF Preferred, TopNow
<1>10. ~TiedNow(h) /\ RewoundDocs(S, LineagesNow(h)) = {}
  BY <1>1, <1>2, <1>4, <1>6, <1>8, <1>9, OneBindingIsUncontested
<1>11. ~bindings[h].contested
  BY <1>8, <1>10, ResolutionParts
<1>12. q.doc \in ResolvedDocs(h)
  <2>1. \A r \in BestNow(h) : r \in S /\ r.doc = doc /\ r.doc \in Nat
    BY <1>6, BestRowsOK, SurvivingRows DEF BestNow, Surviving, RowOK
  <2>2. MaximalNow(h) # {} /\ \A r \in MaximalNow(h) : r.doc = doc
    <3>1. UndominatedNow(h) \subseteq BestNow(h)
      BY DEF UndominatedNow, Undominated
    <3> QED  BY <1>8, <2>1, <3>1, FirstExists DEF MaximalNow, Maximal, FirstByDoc
  <2>3. DocsOf(MaximalNow(h)) = {doc}
    BY <2>2 DEF DocsOf
  <2>4. IncumbentNow(h) \subseteq {doc} /\ (Winner(TopNow(h)) = {} => IncumbentNow(h) = {doc})
    BY <2>3, ViewParts DEF IncumbentNow, Incumbent, Incumbents, Preferred, TopNow, Hops
  <2>5. Winner(TopNow(h)) # {} => IncumbentNow(h) # {}
    BY DEF IncumbentNow, Incumbent
  <2>6. ResolvedDocs(h) = {doc}
    BY <2>3, <2>4, <2>5 DEF ResolvedDocs, AcceptedDoc
  <2> QED  BY <1>6, <1>7, <2>6
<1>13. PICK b \in bindings[h].accepted : b.gen = q.gen
  BY <1>8, <1>11, <1>12, BoundIsAccepted
<1> QED  BY <1>2, <1>6, <1>7, <1>13

\* A merge repairs the fork: under a converged lineage the head's certificate
\* carries the binding against every attestation of a retired branch, whatever
\* their number, freshness and serials (state.rs stages 3 to 5; dns-anchor, Heads
\* and the Protected Prefix).
THEOREM MergesRepairForks == Spec => []MergeRepairs
BY MergeInEveryState, StateInvariant, PTL

-----------------------------------------------------------------------------
\* What one more certificate changes in stage 1.

\* A certificate that carries none brings no statements.
LEMMA BareRecordsBringNoStatements ==
    ASSUME NEW H, NEW i \in Hash, Content[i].kind = "Record",
           Content[i].lineage \cup Content[i].predecessor = {},
           NEW kind \in {"Rotation", "Successor"}, NEW Y
    PROVE  Unexcluded(H \cup {i}, kind, Y) = Unexcluded(H, kind, Y)
<1> DEFINE K == H \cup {i}
<1>1. \A s \in OfKind(kind) : (s \in K <=> s \in H) /\ Carriers(K, s) = Carriers(H, s)
  BY DEF OfKind, Carriers, Carries
<1> HIDE DEF K
<1>2. \A s : s \in Unexcluded(K, kind, Y) <=> s \in Unexcluded(H, kind, Y)
  BY <1>1 DEF Unexcluded, Statements, Excluded
<1>3. Unexcluded(K, kind, Y) = Unexcluded(H, kind, Y)
  BY <1>2 DEF Unexcluded
<1> QED  BY <1>3 DEF K

\* And the very same, unless the certificate is of the row's document.
LEMMA RowsOfOtherDocuments ==
    ASSUME NEW H \in SUBSET Hash, NEW i \in Hash, Content[i].kind = "Record",
           NEW r, r.doc # Content[i].doc
    PROVE  r \in Rows(H \cup {i}) <=> r \in Rows(H)
<1> DEFINE K == H \cup {i}
<1>0. K \in SUBSET Hash
  OBVIOUS
<1>1. \A L : Vouched(L \cup {i}, r.host, r) = Vouched(L, r.host, r)
  BY DEF Vouched, ValidRecords
<1>2. ASSUME r \in CertificateRows(K)
      PROVE  r \in CertificateRows(H)
  <2>1. PICK c \in ValidRecords(K) :
           \E word \in Word(Content[c].chain.txt, Content[c].doc) : r = CertificateRow(c, word)
    BY <1>2 DEF CertificateRows
  <2>2. r.hash = c /\ r.doc = Content[c].doc
    BY <2>1 DEF CertificateRow, Row, Word
  <2>3. r.hash \in H
    BY <2>1, <2>2 DEF ValidRecords
  <2> QED  BY <1>0, <1>2, <2>3, CertificateRowsElsewhere
<1>3. r \in CertificateRows(H) => r \in CertificateRows(K)
  BY <1>0, CertificateRowsOK, CertificateRowsElsewhere
<1>4. ASSUME r \in RefreshRows(K)
      PROVE  r \in RefreshRows(H)
  <2>1. r.hash \in OfKind("ChainRefresh") /\ r.hash \in K
    <3>1. PICK f \in {j \in K : Content[j].kind = "ChainRefresh" /\ Content[j].chain.valid} :
             r.hash = f
      BY <1>4 DEF RefreshRows, Row
    <3> QED  BY <1>0, <3>1 DEF OfKind, Hash
  <2>2. r.hash \in H
    BY <2>1 DEF OfKind
  <2> QED  BY <1>0, <1>1, <1>4, <2>2, RefreshRowsVouchedAlike
<1>5. r \in RefreshRows(H) => r \in RefreshRows(K)
  BY <1>0, <1>1, RefreshRowsOK, RefreshRowsVouchedAlike
<1> QED  BY <1>2, <1>3, <1>4, <1>5 DEF Rows

-----------------------------------------------------------------------------
\* Two sets of rows that agree on every document but one.
SameBut(e, S, T) == \A r : r.doc # e => (r \in S <=> r \in T)

LEMMA VerdictElsewhere ==
    ASSUME NEW v, NEW w, v.now = w.now, v.proofs = w.proofs, NEW l, NEW r,
           l.doc = r.doc => v.lineage[l.doc] = w.lineage[l.doc]
    PROVE  LadderVerdict(l, r, v) = LadderVerdict(l, r, w)
<1>1. Precedes(l, r, v) = Precedes(l, r, w)
  BY DEF Precedes
<1>2. Precedes(r, l, v) = Precedes(r, l, w)
  BY DEF Precedes
<1>3. SignedOrder(l, r, v) = SignedOrder(l, r, w)
  BY <1>1, <1>2 DEF SignedOrder
<1> QED  BY <1>3 DEF LadderVerdict

\* Stage 5 settles the other documents as before, on the same best rows.
LEMMA BestElsewhere ==
    ASSUME NEW e, NEW S, NEW T, SameBut(e, S, T), NEW d, d # e,
           NEW v, NEW w, v.now = w.now, v.proofs = w.proofs, v.lineage[d] = w.lineage[d]
    PROVE  /\ Settles(S, d, v) = Settles(T, d, w)
           /\ BestOf(S, d, v) = BestOf(T, d, w)
<1> DEFINE N == Spellings(S, d)
<1>1. Spellings(T, d) = N
  BY DEF Spellings, SameBut
<1>2. \A r \in N : r.doc = d
  BY DEF Spellings
<1> HIDE DEF N
<1>3. \A l, r \in N : LadderVerdict(l, r, v) = LadderVerdict(l, r, w)
  BY <1>2, VerdictElsewhere
<1>4. Undominated(N, v) = Undominated(N, w)
  BY <1>3 DEF Undominated
<1> HIDE DEF SameBut
<1> QED  BY <1>1, <1>4 DEF Settles, BestOf, N

\* Candidates and best rows of the other documents stay.
LEMMA BestRowsElsewhere ==
    ASSUME NEW e, NEW S, NEW T, SameBut(e, S, T),
           NEW v, NEW w, v.now = w.now, v.proofs = w.proofs,
           \A r \in S : r.doc # e => v.lineage[r.doc] = w.lineage[r.doc]
    PROVE  /\ \A r \in BestRows(T, w) : r.doc # e => r \in BestRows(S, v)
           /\ \A r \in BestRows(S, v) : r.doc # e => r \in BestRows(T, w)
           /\ \A d \in DocsOf(S) : d # e => Settles(S, d, v) = Settles(T, d, w)
<1>1. ASSUME NEW d \in DocsOf(S), d # e
      PROVE  Settles(S, d, v) = Settles(T, d, w) /\ BestOf(S, d, v) = BestOf(T, d, w)
  <2>1. v.lineage[d] = w.lineage[d]
    BY <1>1 DEF DocsOf
  <2> QED  BY <1>1, <2>1, BestElsewhere
<1>2. \A d : d # e => (d \in Candidates(S) <=> d \in Candidates(T))
  BY DEF SameBut, Candidates, Certificates, DocsOf
<1>3. \A d : d \in Candidates(S) => d \in DocsOf(S)
  BY DEF Candidates, Certificates, DocsOf
<1>4. \A d : \A r \in BestOf(S, d, v) : r.doc = d
  BY BestOfOK
<1>5. \A d : \A r \in BestOf(T, d, w) : r.doc = d
  BY BestOfOK
<1>6. \A r \in BestRows(T, w) : r.doc # e => r \in BestRows(S, v)
  BY <1>1, <1>2, <1>3, <1>5 DEF BestRows
<1>7. \A r \in BestRows(S, v) : r.doc # e => r \in BestRows(T, w)
  BY <1>1, <1>2, <1>3, <1>4 DEF BestRows
<1> QED  BY <1>1, <1>6, <1>7

-----------------------------------------------------------------------------
\* Stage 5, before and after.

\* A candidate that is not fresh takes nothing from the undominated rows while one
\* of the others is fresh.
LEMMA FreshUndominatedStay ==
    ASSUME NEW e, NEW B, NEW C, SameBut(e, B, C),
           NEW v, NEW w, v.now = w.now, v.proofs = w.proofs,
           \A r \in B : r.doc # e => v.lineage[r.doc] = w.lineage[r.doc],
           \A r \in B \cup C : r.doc = e => ~Fresh(r, v.now),
           NEW q \in B, Fresh(q, v.now)
    PROVE  Undominated(B, v) \subseteq Undominated(C, w)
<1> SUFFICES ASSUME NEW r \in Undominated(B, v)  PROVE r \in Undominated(C, w)
  OBVIOUS
<1>1. r \in B /\ Fresh(r, v.now) /\ r.doc # e
  BY UndominatedIsFresh DEF Undominated
<1>2. ASSUME NEW o \in C, o # r
      PROVE  LadderVerdict(o, r, w) # "Left"
  <2>1. CASE o.doc = e
    BY <1>1, <2>1, FreshBeatsStale
  <2>2. CASE o.doc # e
    <3>1. o \in B
      BY <2>2 DEF SameBut
    <3>2. LadderVerdict(o, r, v) # "Left"
      BY <1>2, <3>1 DEF Undominated
    <3> QED  BY <2>2, <3>1, <3>2, VerdictElsewhere
  <2> QED  BY <2>1, <2>2
<1> QED  BY <1>1, <1>2 DEF Undominated, SameBut

\* Without succession proofs, stale candidates cannot dominate each other in a
\* circle: the greatest zone state is undominated.
LEMMA StaleUndominatedExists ==
    ASSUME NEW C, IsFiniteSet(C), C # {}, NEW w, w.proofs = {},
           \A r \in C : RowOK(r) /\ ~Fresh(r, w.now),
           \A q, r \in C : q.doc = r.doc => q = r
    PROVE  Undominated(C, w) # {}
<1> DEFINE R == {p \in C \X C : ZoneLess(p[1], p[2])}
<1>1. \A x, y \in C : <<x, y>> \in R <=> ZoneLess(x, y)
  OBVIOUS
<1>2. /\ \A x \in C : ~ZoneLess(x, x)
      /\ \A x, y, z \in C : ZoneLess(x, y) /\ ZoneLess(y, z) => ZoneLess(x, z)
  BY DEF RowOK, ZoneLess
<1> HIDE DEF R
<1>3. PICK m \in C : \A y \in C : <<m, y>> \notin R
  BY <1>1, <1>2, FiniteMaximum
<1>4. ASSUME NEW o \in C, o # m
      PROVE  LadderVerdict(o, m, w) # "Left"
  <2>1. o.doc # m.doc /\ ~ZoneLess(m, o)
    BY <1>1, <1>3, <1>4
  <2>2. SignedOrder(o, m, w) = "Silent"
    BY <2>1 DEF SignedOrder, Precedes
  <2>3. KeyVerdict(o, m) # "Left"
    BY <2>1 DEF KeyVerdict
  <2> QED  BY <2>2, <2>3 DEF LadderVerdict, Compare
<1> QED  BY <1>4 DEF Undominated

\* B and C are the best rows before and after, in the views v and w; doc is the
\* incumbent, e the challenger's document.
Challenged(e, doc, winner, B, C, v, w) ==
    /\ doc # e /\ winner # {}
    /\ SameBut(e, B, C) /\ IsFiniteSet(C) /\ C # {}
    /\ \A r \in B \cup C : RowOK(r)
    /\ \A q, r \in C : q.doc = r.doc => q = r
    /\ v.now = w.now /\ v.proofs = w.proofs
    /\ \A r \in B : r.doc # e => v.lineage[r.doc] = w.lineage[r.doc]
    /\ \A r \in B \cup C : r.doc = e => ~Fresh(r, v.now)
    /\ \A r \in B \cup C : <<doc, r.doc>> \notin v.proofs
    /\ ~DocumentContest(Undominated(B, v), winner, {doc}, v)
    /\ doc \in AcceptedDoc(Maximal(B, Undominated(B, v)), {doc}, FALSE, v)

Kept(doc, winner, C, w) ==
    /\ DocumentContest(Undominated(C, w), winner, {doc}, w) => w.proofs # {}
    /\ AcceptedDoc(Maximal(C, Undominated(C, w)), {doc}, FALSE, w) = {doc}

\* What a challenger that is neither fresh nor proved does to the resolution: the
\* incumbent stays, unless succession proofs close a circle.
LEMMA ChallengerResolves ==
    ASSUME NEW e, NEW doc, NEW winner, NEW B, NEW C, NEW v, NEW w,
           Challenged(e, doc, winner, B, C, v, w)
    PROVE  /\ DocumentContest(Undominated(C, w), winner, {doc}, w) => w.proofs # {}
           /\ AcceptedDoc(Maximal(C, Undominated(C, w)), {doc}, FALSE, w) = {doc}
<1> USE DEF Challenged
<1> DEFINE und == Undominated(C, w)
           max == Maximal(C, und)
<1>1. /\ und \subseteq C /\ max \subseteq C
      /\ Undominated(B, v) \subseteq B /\ Maximal(B, Undominated(B, v)) \subseteq B
  BY DEF Undominated, Maximal, FirstByDoc
<1>2. /\ \A r \in B : Eligible(r, {doc}, v) <=> r.doc = doc \/ Fresh(r, v.now)
      /\ \A r \in C : Eligible(r, {doc}, w) <=> r.doc = doc \/ Fresh(r, v.now)
  BY DEF Eligible
<1>3. \A l, r \in max : l.doc = r.doc
  <2>1. \A l, r \in max : l.doc <= r.doc /\ r.doc <= l.doc
    BY DEF Maximal, FirstByDoc
  <2>2. \A r \in max : r.doc \in Nat
    BY <1>1 DEF RowOK
  <2> QED  BY <2>1, <2>2
<1>4. \A r \in max : DocsOf(max) = {r.doc}
  <2> HIDE DEF max
  <2> QED  BY <1>3 DEF DocsOf
<1>5. CASE \E q \in B : Fresh(q, v.now)
  <2>1. Undominated(B, v) \subseteq und
    BY <1>5, FreshUndominatedStay
  <2>2. und \subseteq Undominated(B, v)
    <3>1. SameBut(e, C, B) /\ \A r \in C : r.doc # e => w.lineage[r.doc] = v.lineage[r.doc]
      BY DEF SameBut
    <3>2. PICK q \in B : Fresh(q, v.now)
      BY <1>5
    <3>3. q \in C /\ Fresh(q, w.now)
      BY <3>2 DEF SameBut
    <3> QED  BY <3>1, <3>3, FreshUndominatedStay
  <2>3. und = Undominated(B, v) /\ und \subseteq B
    BY <1>1, <2>1, <2>2
  <2>4. und # {}
    <3> SUFFICES ASSUME und = {}  PROVE FALSE
      OBVIOUS
    <3> QED  BY <2>3 DEF DocumentContest, IsSingle
  <2>5. ~DocumentContest(und, winner, {doc}, w)
    BY <1>1, <1>2, <2>3, <2>4 DEF DocumentContest
  <2>6. max = Maximal(B, Undominated(B, v)) /\ max \subseteq B
    BY <1>1, <2>3, <2>4 DEF Maximal
  <2> HIDE DEF max, und
  <2>7. \A r \in max : Eligible(r, {doc}, w) <=> Eligible(r, {doc}, v)
    BY <1>1, <1>2, <2>6
  <2>8. doc \in AcceptedDoc(max, {doc}, FALSE, w)
    BY <2>6, <2>7 DEF AcceptedDoc
  <2>9. AcceptedDoc(max, {doc}, FALSE, w) = {doc}
    <3>1. CASE \E r \in max : Eligible(r, {doc}, w)
      <4>1. AcceptedDoc(max, {doc}, FALSE, w) = DocsOf(max)
        BY <3>1 DEF AcceptedDoc
      <4> QED  BY <1>4, <2>8, <3>1, <4>1
    <3>2. CASE ~\E r \in max : Eligible(r, {doc}, w)
      BY <3>2 DEF AcceptedDoc
    <3> QED  BY <3>1, <3>2
  <2> QED  BY <2>5, <2>9 DEF max, und
<1>6. CASE ~\E q \in B : Fresh(q, v.now)
  <2>1. \A r \in C : ~Fresh(r, v.now)
    BY <1>6 DEF SameBut
  <2>2. und = {} => w.proofs # {}
    BY <2>1, StaleUndominatedExists
  <2>3. und # {} => ~DocumentContest(und, winner, {doc}, w)
    BY <1>1, <1>2, <2>1 DEF DocumentContest
  <2>4. AcceptedDoc(max, {doc}, FALSE, w) = {doc}
    <3> HIDE DEF max
    <3>1. CASE \E r \in max : Eligible(r, {doc}, w)
      <4>1. AcceptedDoc(max, {doc}, FALSE, w) = DocsOf(max)
        BY <3>1 DEF AcceptedDoc
      <4>2. \A r \in max : Eligible(r, {doc}, w) => r.doc = doc
        BY <1>1, <1>2, <2>1
      <4> QED  BY <1>4, <3>1, <4>1, <4>2
    <3>2. CASE ~\E r \in max : Eligible(r, {doc}, w)
      BY <3>2 DEF AcceptedDoc
    <3> QED  BY <3>1, <3>2
  <2> QED  BY <2>2, <2>3, <2>4
<1> QED  BY <1>5, <1>6

-----------------------------------------------------------------------------
\* Stages 2 to 4, before and after: what a hostname considers, and what survives,
\* were this the store.
ConsideredFrom(H, h) == Considered(Rows(H), h, now, decisions.resets[h])
LineagesFrom(H, h)   == LineageOf(H, decisions, DocsOf(ConsideredFrom(H, h)))
SurvivingFrom(H, h)  == Survivors(ConsideredFrom(H, h), LineagesFrom(H, h), now)

LEMMA SurvivingElsewhere ==
    ASSUME NEW h, NEW H \in SUBSET Hash, NEW i \in Hash, Content[i].kind = "Record",
           Content[i].lineage \cup Content[i].predecessor = {}
    PROVE  LET e == Content[i].doc
               K == H \cup {i}
           IN  /\ SameBut(e, ConsideredFrom(H, h), ConsideredFrom(K, h))
               /\ SameBut(e, SurvivingFrom(H, h), SurvivingFrom(K, h))
               /\ \A r \in ConsideredFrom(H, h) :
                     r.doc # e => LineagesFrom(H, h)[r.doc] = LineagesFrom(K, h)[r.doc]
<1> DEFINE e == Content[i].doc
           K == H \cup {i}
           before == ConsideredFrom(H, h)
           after == ConsideredFrom(K, h)
<1>1. \A r : r.doc # e => (r \in Rows(H) <=> r \in Rows(K))
  BY RowsOfOtherDocuments
<1> HIDE DEF e
<1>2. SameBut(e, before, after)
  <2> DEFINE X == decisions.resets[h]
             O == Open(Rows(H), h, now, X)
             P == Open(Rows(K), h, now, X)
  <2>1. SameBut(e, O, P)
    BY <1>1 DEF Open, SameBut
  <2>2. before = Corroborated(O) /\ after = Corroborated(P)
    BY DEF ConsideredFrom, Considered
  <2> HIDE DEF O, P
  <2>3. \A d : d # e => (d \in DocsOf(Certificates(O)) <=> d \in DocsOf(Certificates(P)))
    BY <2>1 DEF SameBut, Certificates, DocsOf
  <2> QED  BY <2>1, <2>2, <2>3 DEF SameBut, Corroborated
<1>3. \A doc : Edges(K, decisions, doc) = Edges(H, decisions, doc)
  <2>1. Unexcluded(K, "Rotation", EveryReset(decisions)) = Unexcluded(H, "Rotation", EveryReset(decisions))
    BY BareRecordsBringNoStatements
  <2> QED  BY <2>1 DEF Edges
<1> HIDE DEF before, after, K
<1>4. \A L, r : r \in ConsideredFrom(L, h) =>
                   LineagesFrom(L, h)[r.doc] = LineageView(Edges(L, decisions, r.doc))
  BY DEF LineagesFrom, LineageOf, DocsOf
<1>5. ASSUME NEW r \in before, r.doc # e
      PROVE  LineagesFrom(H, h)[r.doc] = LineagesFrom(K, h)[r.doc]
  <2>1. r \in after
    BY <1>2, <1>5 DEF SameBut
  <2> QED  BY <1>3, <1>4, <1>5, <2>1 DEF before, after
<1>6. SameBut(e, SurvivingFrom(H, h), SurvivingFrom(K, h))
  <2> SUFFICES ASSUME NEW r, r.doc # e, r \in before, r \in after
               PROVE  r \in SurvivingFrom(H, h) <=> r \in SurvivingFrom(K, h)
    BY <1>2 DEF SameBut, SurvivingFrom, Survivors, before, after
  <2>1. LineagesFrom(H, h)[r.doc] = LineagesFrom(K, h)[r.doc]
    BY <1>5
  <2>2. MovedOn(r, LineagesFrom(H, h), before) <=> MovedOn(r, LineagesFrom(K, h), after)
    BY <1>2, <2>1 DEF MovedOn, SameBut
  <2>3. Retired(r, LineagesFrom(H, h)) <=> Retired(r, LineagesFrom(K, h))
    BY <2>1 DEF Retired
  <2> QED  BY <2>2, <2>3 DEF SurvivingFrom, Survivors, before, after
<1> QED  BY <1>2, <1>5, <1>6 DEF e, K, before, after

\* What a derivation guarantees of its resolution, for the state after a step.
Resolution(h) ==
    /\ Surviving(SurvivingNow(h)) /\ AtMostOne(bindings[h].accepted)
    /\ BestNow(h) # {} =>
          bindings[h].contested =
             \/ TiedNow(h)
             \/ DocsOf({r \in BestNow(h) : r.doc \in ResolvedDocs(h)})
                   \cap RewoundDocs(SurvivingNow(h), LineagesNow(h)) # {}
    /\ ~bindings[h].contested =>
          \A r \in BestNow(h) : r.doc \in ResolvedDocs(h) =>
             \E b \in bindings[h].accepted : b.doc = r.doc

Resolutions == \A h \in Host : Resolution(h)

LEMMA ResolutionsHold == IInv /\ HeldFinite => Resolutions
<1> SUFFICES ASSUME IInv, HeldFinite, NEW h \in Host  PROVE Resolution(h)
  BY DEF Resolutions
<1>1. AtMostOne(bindings[h].accepted)
  BY BindingsJudged DEF Judged
<1>2. Surviving(SurvivingNow(h))
  BY SurvivingRows
<1>3. BestNow(h) # {} =>
         bindings[h].contested =
            \/ TiedNow(h)
            \/ DocsOf({r \in BestNow(h) : r.doc \in ResolvedDocs(h)})
                  \cap RewoundDocs(SurvivingNow(h), LineagesNow(h)) # {}
  BY ResolutionParts
<1>4. ~bindings[h].contested =>
         \A r \in BestNow(h) : r.doc \in ResolvedDocs(h) =>
            \E b \in bindings[h].accepted : b.doc = r.doc
  BY BoundIsAccepted
<1> QED  BY <1>1, <1>2, <1>3, <1>4 DEF Resolution

-----------------------------------------------------------------------------
\* The challenger's step.

\* What binds before it: a best row of the document, which is the incumbent, on a
\* hostname that is not contested.
LEMMA BoundBefore ==
    ASSUME IInv, NEW h \in Host, NEW doc,
           Bound(bindings[h]) = {doc}, Incumbents(h) = {doc}
    PROVE  /\ ~TiedNow(h) /\ Winner(TopNow(h)) # {}
           /\ IncumbentNow(h) = {doc} /\ doc \in ResolvedDocs(h)
           /\ \E r \in BestNow(h) :
                 r.doc = doc /\ doc \notin RewoundDocs(SurvivingNow(h), LineagesNow(h))
<1>1. PICK b \in bindings[h].accepted : b.doc = doc
  BY DEF Bound
<1>2. ~TiedNow(h) /\ \E r \in BestNow(h) :
         /\ r.doc \in ResolvedDocs(h)
         /\ r.doc \notin RewoundDocs(SurvivingNow(h), LineagesNow(h))
         /\ b.doc = r.doc
  BY AcceptedIsBound
<1>3. Winner(TopNow(h)) # {}
  BY DEF Incumbents, Preferred, TopNow
<1>4. IncumbentNow(h) = {doc}
  BY <1>3, ViewParts DEF IncumbentNow, Incumbent, Incumbents, Preferred, TopNow, Hops
<1> QED  BY <1>1, <1>2, <1>3, <1>4

\* The rows of a step's two states, where only the store changed.
LEMMA AfterIngesting ==
    ASSUME NEW h, NEW i, held' = held \cup {i}, UNCHANGED <<now, decisions>>
    PROVE  LET K == held \cup {i}
           IN  /\ ConsideredNow(h)' = ConsideredFrom(K, h) /\ ConsideredNow(h) = ConsideredFrom(held, h)
               /\ LineagesNow(h)' = LineagesFrom(K, h) /\ LineagesNow(h) = LineagesFrom(held, h)
               /\ SurvivingNow(h)' = SurvivingFrom(K, h) /\ SurvivingNow(h) = SurvivingFrom(held, h)
               /\ ViewNow(h)' = View(ConsideredFrom(K, h),
                                     StatementsFor(h, K, decisions.resets[h]), Extract(K), now, decisions)
               /\ TopNow(h)' = TopDocs(Receipts(h, Extract(K), decisions), Rows(K))
BY DEF ConsideredNow, LineagesNow, SurvivingNow, ViewNow, TopNow,
       ConsideredFrom, LineagesFrom, SurvivingFrom

LEMMA ViewAfter ==
    ASSUME NEW h, NEW i, held' = held \cup {i}, UNCHANGED <<now, decisions>>,
           NEW same, StatementsFor(h, held \cup {i}, decisions.resets[h]) = same,
           StatementsFor(h, held, decisions.resets[h]) = same
    PROVE  /\ ViewNow(h)'.now = now /\ ViewNow(h)'.lineage = LineagesNow(h)'
           /\ ViewNow(h)'.surviving = SurvivingNow(h)'
           /\ ViewNow(h)'.hops = Hops(h) /\ ViewNow(h).hops = Hops(h)
           /\ ViewNow(h)'.proofs = ProofPairs(Hops(h)) /\ ViewNow(h).proofs = ProofPairs(Hops(h))
<1>1. ViewNow(h)' = View(ConsideredFrom(held \cup {i}, h), same, Extract(held \cup {i}), now, decisions)
  BY AfterIngesting
<1>2. ViewNow(h) = View(ConsideredNow(h), same, Extract(held), now, decisions)
  BY DEF ViewNow
<1>3. Hops(h) = HopsOf(same)
  BY DEF Hops
<1>4. \A considered, ev :
         LET v == View(considered, same, ev, now, decisions)
         IN  /\ v.now = now /\ v.hops = HopsOf(same) /\ v.proofs = ProofPairs(HopsOf(same))
             /\ v.lineage = LineageOf(ev.held, decisions, DocsOf(considered))
             /\ v.surviving = Survivors(considered, v.lineage, now)
  BY DEF View, ViewOf
<1>5. LineagesNow(h)' = LineageOf(held \cup {i}, decisions, DocsOf(ConsideredFrom(held \cup {i}, h)))
  BY AfterIngesting DEF LineagesFrom
<1>6. SurvivingNow(h)' = Survivors(ConsideredFrom(held \cup {i}, h), LineagesNow(h)', now)
  BY AfterIngesting DEF SurvivingFrom
<1>7. Extract(held \cup {i}).held = held \cup {i}
  BY DEF Extract
<1> QED  BY <1>1, <1>2, <1>3, <1>4, <1>5, <1>6, <1>7

\* The challenger's own document settles where it is not disputed.
LEMMA UndisputedChallengerSettles ==
    ASSUME IInv, NEW h \in Host, NEW i \in Hash, Content[i].kind = "Record",
           Content[i].lineage \cup Content[i].predecessor = {}, ~Disputed(i, h),
           Surviving(SurvivingFrom(held \cup {i}, h)),
           NEW x \in SurvivingFrom(held \cup {i}, h), x.doc = Content[i].doc,
           NEW view, view.now = now, view.lineage = LineagesFrom(held \cup {i}, h)
    PROVE  Settles(SurvivingFrom(held \cup {i}, h), x.doc, view)
<1> DEFINE K == held \cup {i}
           S == SurvivingFrom(K, h)
<1>1. \A r \in S : r \in ConsideredFrom(K, h)
  BY DEF SurvivingFrom, Survivors
<1>2. \A r \in S : r \in Rows(K) /\ r.host = h
  BY <1>1 DEF ConsideredFrom, Considered, Corroborated, Open
<1>3. \A q, r \in S : q.doc = x.doc /\ r.doc = x.doc /\ SameKey(q, r) => q.gen = r.gen
  BY <1>2 DEF Disputed, RowsWith
<1>4. view.lineage[x.doc] = LineageView({})
  <2>1. Unexcluded(K, "Rotation", EveryReset(decisions)) = Unexcluded(held, "Rotation", EveryReset(decisions))
    BY BareRecordsBringNoStatements
  <2>2. Edges(K, decisions, x.doc) = {}
    BY <2>1 DEF Disputed, InForce, Edges
  <2> QED  BY <1>1, <2>2 DEF LineagesFrom, LineageOf, DocsOf
<1>5. \A q, r \in S : <<q.gen, r.gen>> \notin view.lineage[x.doc].descents
  BY <1>4, Descents DEF Replaced
<1> HIDE DEF S
<1>6. Settles(S, x.doc, view)
  BY <1>3, <1>5, UndisputedSettles DEF S, K
<1> QED  BY <1>6 DEF S

LEMMA ChallengerStep ==
    ASSUME IInv, HeldFinite, Resolutions', Next,
           NEW i \in Ingestible, NEW h \in Host, NEW doc \in Doc, Ingested(i),
           Bound(bindings[h]) = {doc}, Incumbents(h) = {doc},
           \A d \in Doc : <<doc, d>> \notin ProofPairs(Hops(h)), Challenges(i, h, doc)
    PROVE  \/ Bound(bindings'[h]) = {doc}
           \/ bindings'[h].contested /\ Disputed(i, h)
<1> DEFINE K == held \cup {i}
           e == Content[i].doc
           S == SurvivingNow(h)
           T == SurvivingNow(h)'
           v == ViewNow(h)
           w == ViewNow(h)'
           B == BestNow(h)
           C == BestNow(h)'
           winner == Winner(TopNow(h))
<1>1. /\ UNCHANGED <<now, decisions>> /\ held' = K
      /\ held \in SUBSET Hash /\ i \in Hash /\ K \in SUBSET Hash
  BY IngestingIsIngest, VerifierAssumption DEF Ingested, IInv, Inputs
<1>2. /\ Content[i].kind = "Record" /\ Content[i].lineage \cup Content[i].predecessor = {}
      /\ doc # e /\ Content[i].host = h
      /\ \A r \in Rows(K) : r.host = h /\ r.doc = e => ~Fresh(r, now)
      /\ \A a \in decisions.acceptances[h] : i \notin a.cited
  BY DEF Challenges, RowsWith
<1>3. /\ T = SurvivingFrom(K, h) /\ S = SurvivingFrom(held, h)
      /\ LineagesNow(h)' = LineagesFrom(K, h) /\ LineagesNow(h) = LineagesFrom(held, h)
  BY <1>1, AfterIngesting
<1>4. /\ v.now = now /\ v.lineage = LineagesNow(h) /\ v.surviving = S
      /\ v.proofs = ProofPairs(Hops(h))
      /\ w.now = now /\ w.lineage = LineagesNow(h)' /\ w.surviving = T
      /\ w.proofs = ProofPairs(Hops(h)) /\ w.hops = v.hops
  <2>1. StatementsFor(h, K, decisions.resets[h]) = StatementsFor(h, held, decisions.resets[h])
    BY <1>1, <1>2, BareRecordsBringNoStatements DEF StatementsFor
  <2> QED  BY <1>1, <2>1, ViewAfter, ViewParts
<1>5. /\ SameBut(e, S, T)
      /\ \A r \in S : r.doc # e => v.lineage[r.doc] = w.lineage[r.doc]
  <2>1. \A r \in S : r \in ConsideredFrom(held, h)
    BY <1>3 DEF SurvivingFrom, Survivors
  <2> QED  BY <1>1, <1>2, <1>3, <1>4, <2>1, SurvivingElsewhere
<1>6. B = BestRows(S, v) /\ C = BestRows(T, w)
  BY DEF BestNow
<1>7. Surviving(S) /\ Surviving(T) /\ Resolution(h)'
  <2>1. Resolution(h)'
    BY DEF Resolutions
  <2>2. Surviving(SurvivingNow(h))'
    BY <2>1 DEF Resolution
  <2>3. Surviving(T)
    BY <1>1, <2>2 DEF Surviving
  <2> QED  BY <2>1, <2>3, SurvivingRows
<1>8. TopNow(h)' = TopNow(h)
  BY <1>1, <1>2, AfterIngesting, PreferredElsewhere DEF TopNow
<1> HIDE DEF e, S, T, v, w, B, C
<1>9. /\ SameBut(e, B, C)
      /\ \A d \in DocsOf(S) : d # e => Settles(S, d, v) = Settles(T, d, w)
  <2>1. /\ \A r \in C : r.doc # e => r \in B
        /\ \A r \in B : r.doc # e => r \in C
        /\ \A d \in DocsOf(S) : d # e => Settles(S, d, v) = Settles(T, d, w)
    BY <1>4, <1>5, <1>6, BestRowsElsewhere
  <2> QED  BY <2>1 DEF SameBut
<1>10. /\ B \subseteq S /\ C \subseteq T
       /\ \A r \in B \cup C : RowOK(r)
       /\ \A q, r \in C : q.doc = r.doc => q = r
  <2>1. B \subseteq S /\ C \subseteq T
    BY <1>6, BestRowsOK
  <2> QED  BY <1>6, <1>7, <2>1, BestRowsUnique DEF Surviving
<1>11. \A r \in T \cup S : r.host = h /\ r.doc \in Doc /\ (r \in Rows(held) \/ r \in Rows(K))
  <2>1. \A L \in SUBSET Hash : \A r \in SurvivingFrom(L, h) : r \in Rows(L) /\ r.host = h
    BY DEF SurvivingFrom, Survivors, ConsideredFrom, Considered, Corroborated, Open
  <2>2. \A L \in SUBSET Hash : \A r \in Rows(L) : r.doc \in Doc
    BY RowsOK, VerifierAssumption
  <2> QED  BY <1>1, <1>3, <2>1, <2>2
<1>12. \A r \in B \cup C : r.doc = e => ~Fresh(r, now)
  <2> SUFFICES ASSUME NEW r \in T \cup S, r.doc = e  PROVE ~Fresh(r, now)
    BY <1>10
  <2>1. CASE r \in Rows(K)
    BY <1>2, <1>11, <2>1 DEF e
  <2>2. CASE r \in Rows(held)
    <3>1. r.hash \in K
      BY <1>1, <2>2, RowsNameTheirItem
    <3>2. PICK q \in Rows(K) : Alike(q, r)
      BY <1>1, <2>2, <3>1, AlikeElsewhere
    <3>3. ~Fresh(q, now)
      BY <1>2, <1>11, <3>2 DEF e, Alike
    <3> QED  BY <3>2, <3>3 DEF Fresh, Grade, Alike
  <2> QED  BY <1>11, <2>1, <2>2
<1>13. /\ ~TiedNow(h) /\ winner # {} /\ IncumbentNow(h) = {doc} /\ doc \in ResolvedDocs(h)
       /\ \E r \in B : r.doc = doc /\ doc \notin RewoundDocs(S, LineagesNow(h))
  BY BoundBefore DEF B, S
<1>14. PICK b \in B : b.doc = doc
  BY <1>13
<1>15. b \in C /\ C # {}
  BY <1>2, <1>9, <1>14 DEF SameBut, e
<1>16. /\ ~DocumentContest(Undominated(B, v), winner, {doc}, v)
       /\ doc \in AcceptedDoc(Maximal(B, Undominated(B, v)), {doc}, FALSE, v)
  BY <1>13 DEF TiedNow, ResolvedDocs, MaximalNow, UndominatedNow, B, v
<1>17. /\ DocumentContest(Undominated(C, w), winner, {doc}, w) => w.proofs # {}
       /\ AcceptedDoc(Maximal(C, Undominated(C, w)), {doc}, FALSE, w) = {doc}
  <2>1. IsFiniteSet(C)
    BY <1>7, <1>10, FS_Subset DEF Surviving
  <2>2. \A r \in B \cup C : <<doc, r.doc>> \notin v.proofs
    BY <1>4, <1>10, <1>11
  <2>3. \A r \in B : r.doc # e => v.lineage[r.doc] = w.lineage[r.doc]
    BY <1>5, <1>10
  <2>4. doc # e /\ v.now = w.now /\ v.proofs = w.proofs
    BY <1>2, <1>4 DEF e
  <2>5. \A r \in B \cup C : r.doc = e => ~Fresh(r, v.now)
    BY <1>4, <1>12
  <2> HIDE DEF winner
  <2>6. Challenged(e, doc, winner, B, C, v, w)
    BY <1>9, <1>10, <1>13, <1>15, <1>16, <2>1, <2>2, <2>3, <2>4, <2>5 DEF Challenged
  <2> HIDE DEF B, C, v, w, e
  <2>7. \A e2, doc2, winner2, B2, C2, v2, w2 :
           Challenged(e2, doc2, winner2, B2, C2, v2, w2) => Kept(doc2, winner2, C2, w2)
    BY ChallengerResolves DEF Kept
  <2>8. Kept(doc, winner, C, w)
    BY <2>6, <2>7
  <2> QED  BY <2>8 DEF Kept
<1>18. /\ IncumbentNow(h)' = {doc} /\ Winner(TopNow(h)') = winner
       /\ UndominatedNow(h)' = Undominated(C, w) /\ MaximalNow(h)' = Maximal(C, Undominated(C, w))
  <2>1. IncumbentNow(h) = {Last(ChainFrom(v.hops, d)) : d \in winner}
    BY <1>13 DEF IncumbentNow, Incumbent, v
  <2>2. IncumbentNow(h)' = {Last(ChainFrom(w.hops, d)) : d \in winner}
    BY <1>8, <1>13 DEF IncumbentNow, Incumbent, w
  <2> QED  BY <1>4, <1>8, <1>13, <2>1, <2>2 DEF UndominatedNow, MaximalNow, C, w
<1>19. CASE TiedNow(h)'
  <2>1. bindings'[h].contested
    BY <1>7, <1>15, <1>19 DEF Resolution, C
  <2>2. Disputed(i, h)
    <3> SUFFICES ASSUME ~Disputed(i, h)  PROVE FALSE
      OBVIOUS
    <3>1. Hops(h) = {}
      BY DEF Disputed
    <3>2. w.proofs = {}
      BY <1>4, <3>1 DEF ProofPairs
    <3>3. \A d, f \in TopNow(h)' : d = f
      BY <1>8, <1>13 DEF TiedNow
    <3>4. ASSUME NEW d \in DocsOf(C)
          PROVE  Settles(T, d, w)
      <4>1. PICK r \in C : r.doc = d
        BY DEF DocsOf
      <4>2. CASE d = e
        BY <1>1, <1>2, <1>3, <1>4, <1>7, <1>10, <4>1, <4>2, UndisputedChallengerSettles DEF e
      <4>3. CASE d # e
        <5>1. r \in B /\ d \in DocsOf(B) /\ d \in DocsOf(S)
          BY <1>9, <1>10, <4>1, <4>3 DEF SameBut, DocsOf
        <5>2. Settles(S, d, v)
          BY <1>13, <5>1 DEF TiedNow, S, v, B
        <5> QED  BY <1>9, <4>3, <5>1, <5>2
      <4> QED  BY <4>2, <4>3
    <3>5. ~DocumentContest(Undominated(C, w), winner, {doc}, w)
      BY <1>17, <3>2
    <3>6. ~TiedNow(h)'
      BY <1>18, <3>3, <3>4, <3>5 DEF TiedNow, C, T, w
    <3> QED  BY <1>19, <3>6
  <2> QED  BY <2>1, <2>2
<1>20. CASE ~TiedNow(h)'
  <2>1. ResolvedDocs(h)' = {doc}
    <3>1. (TiedNow(h)') = FALSE
      BY <1>20 DEF TiedNow
    <3> QED  BY <1>17, <1>18, <3>1 DEF ResolvedDocs, w
  <2>2. doc \notin RewoundDocs(T, LineagesNow(h)')
    <3>1. ASSUME NEW r \in T, r.doc = doc
          PROVE  r \in S /\ LineagesNow(h)'[r.doc] = LineagesNow(h)[r.doc]
      BY <1>2, <1>4, <1>5, <3>1 DEF SameBut, e
    <3> QED  BY <1>13, <3>1 DEF RewoundDocs, Retired, DocsOf
  <2>3. DocsOf({r \in C : r.doc \in {doc}}) \cap RewoundDocs(T, LineagesNow(h)') = {}
    BY <2>2 DEF DocsOf
  <2>4. ~bindings'[h].contested
    BY <1>7, <1>15, <1>20, <2>1, <2>3 DEF Resolution, C, T
  <2>5. PICK a \in bindings'[h].accepted : a.doc = doc
    BY <1>7, <1>14, <1>15, <2>1, <2>4 DEF Resolution, C
  <2>6. AtMostOne(bindings'[h].accepted)
    BY <1>7 DEF Resolution
  <2>7. Bound(bindings'[h]) = {doc}
    BY <2>5, <2>6 DEF Bound, AtMostOne
  <2> QED  BY <2>7
<1> QED  BY <1>19, <1>20

-----------------------------------------------------------------------------
\* Pending evidence never takes a binding over: a bare certificate of another
\* document that is not fresh, that no acceptance cites and that no proof leads to
\* leaves the accepted incumbent bound, and short of a signed dispute it does not
\* even contest the hostname (state.rs resolve_document; binding-cache B1).
THEOREM PendingNeverTakesOver == Spec => PendingNeverDisplaces
<1>1. IInv /\ HeldFinite /\ Resolutions' /\ [Next]_vars =>
         [\A i \in Ingestible, h \in Host, doc \in Doc :
             /\ Ingested(i) /\ Bound(bindings[h]) = {doc} /\ Incumbents(h) = {doc}
             /\ \A d \in Doc : <<doc, d>> \notin ProofPairs(Hops(h))
             /\ Challenges(i, h, doc)
             => \/ Bound(bindings'[h]) = {doc}
                \/ bindings'[h].contested /\ Disputed(i, h)]_vars
  BY ChallengerStep
<1>2. IInv /\ HeldFinite => Resolutions
  BY ResolutionsHold
<1> QED  BY <1>1, <1>2, StateInvariant, PTL DEF Spec, PendingNeverDisplaces

-----------------------------------------------------------------------------
\* Pruning.

\* Whatever a hostname's acceptance cites of the store, prune keeps.
LEMMA CitedIsKept ==
    ASSUME NEW H \in SUBSET Hash, NEW time, NEW dec,
           NEW h \in DOMAIN dec.acceptances, NEW a \in dec.acceptances[h]
    PROVE  a.cited \cap H \subseteq Prune(H, time, dec)
<1>1. a.cited \subseteq CitedAnywhere(dec)
  BY DEF CitedAnywhere
<1> QED  BY <1>1 DEF Prune

\* A prune adds nothing (prune.rs).
LEMMA PruneShrinks ==
    ASSUME NEW H, NEW time, NEW dec
    PROVE  Prune(H, time, dec) \subseteq H
BY DEF Prune

\* The device's inductive invariant holds with prunes too: a prune only takes items away,
\* and derives again.
LEMMA PrunedInvariance == PrunedSpec => []IInv
<1>1. PrunedInit => IInv
  BY InitInv DEF PrunedInit
<1>2. ASSUME IInv, [PrunedNext]_prunedVars  PROVE IInv'
  <2>1. CASE Next
    BY <1>2, <2>1, NextInv
  <2>2. CASE Reclaim
    BY <1>2, <2>2, PruneShrinks DEF Reclaim, Recompute, IInv, Inputs
  <2>3. CASE UNCHANGED prunedVars
    BY <1>2, <2>3 DEF prunedVars, IInv, Inputs
  <2> QED  BY <1>2, <2>1, <2>2, <2>3 DEF PrunedNext
<1> QED  BY <1>1, <1>2, PTL DEF PrunedSpec

\* Nothing but a prune takes an item away.
LEMMA ShrinkingIsReclaim ==
    ASSUME PrunedNext, held' # held, held' \subseteq held
    PROVE  held' = Prune(held, now, decisions)
BY DEF PrunedNext, Next, Ingest, Tick, Accept, MergeAcceptance, Reset, Claim, Pin, Unpin, Reclaim

\* A prune leaves every acceptance as much of a receipt as it was, and leaves the
\* rank of the receipts, so what the user accepted never changes with storage
\* (prune.rs: every record cited by an acceptance is retained).
THEOREM ReceiptsAlwaysSurvive == PrunedSpec => ReceiptsSurvive
<1> DEFINE KeepsOrReceipts(h) ==
        /\ Receipts(h, Extract(held'), decisions) = Receipts(h, Extract(held), decisions)
        /\ TopDocs(Receipts(h, Extract(held'), decisions), Rows(held'))
             = TopDocs(Receipts(h, Extract(held), decisions), Rows(held))
<1>1. ASSUME IInv, PrunedNext, held' # held, held' \subseteq held, NEW h \in Host
      PROVE  KeepsOrReceipts(h)
  <2>1. held' = Prune(held, now, decisions)
    BY <1>1, ShrinkingIsReclaim
  <2>2. held \in SUBSET Hash /\ held' \in SUBSET Hash /\ h \in DOMAIN decisions.acceptances
    BY <1>1, VerifierAssumption DEF IInv, Inputs
  <2>3. \A a \in decisions.acceptances[h] : \A j \in a.cited : j \in held <=> j \in held'
    BY <1>1, <2>1, <2>2, CitedIsKept
  <2>4. Receipts(h, Extract(held'), decisions) = Receipts(h, Extract(held), decisions)
    BY <2>2, <2>3, EvaluableElsewhere DEF Receipts
  <2>5. TopDocs(Receipts(h, Extract(held'), decisions), Rows(held'))
          = TopDocs(Receipts(h, Extract(held), decisions), Rows(held))
    BY <2>2, <2>3, PreferredElsewhere
  <2> QED  BY <2>4, <2>5
<1>2. IInv /\ [PrunedNext]_prunedVars =>
         [held' # held /\ held' \subseteq held => \A h \in Host : KeepsOrReceipts(h)]_prunedVars
  BY <1>1
<1> QED  BY <1>2, PrunedInvariance, PTL DEF PrunedSpec, ReceiptsSurvive

-----------------------------------------------------------------------------
\* What stands in for a row that is dropped.

\* Only additions make the store larger, and they add one item.
LEMMA HeldStaysFinite == PrunedSpec => []HeldFinite
<1>1. PrunedInit => HeldFinite
  BY FS_EmptySet DEF PrunedInit, Init, HeldFinite
<1>2. HeldFinite /\ [PrunedNext]_prunedVars => HeldFinite'
  <2> SUFFICES ASSUME HeldFinite, [PrunedNext]_prunedVars  PROVE HeldFinite'
    OBVIOUS
  <2>1. CASE [Next]_vars
    BY <2>1, FS_AddElement
       DEF HeldFinite, Next, vars, Ingest, Tick, Accept, MergeAcceptance, Reset, Claim, Pin, Unpin
  <2>2. CASE Reclaim
    BY <2>2, PruneShrinks, FS_Subset DEF Reclaim, HeldFinite
  <2> QED  BY <2>1, <2>2 DEF PrunedNext, prunedVars, vars
<1> QED  BY <1>1, <1>2, PTL DEF PrunedSpec

\* At least as good in every component that dominates compares, and better in one.
AsGood(o, r) ==
    /\ o.doc = r.doc /\ o.gen = r.gen /\ (r.att = "Certificate" => o.att = "Certificate")
    /\ o.from <= r.from /\ o.end >= r.end /\ o.serial >= r.serial /\ o.issued >= r.issued

Better(o, r) ==
    /\ AsGood(o, r)
    /\ o.from < r.from \/ o.end > r.end \/ o.serial > r.serial \/ o.issued > r.issued

\* From any row of a finite group, domination leads up to one nothing dominates.
LEMMA TopOfTheGroup ==
    ASSUME NEW g, IsFiniteSet(g), \A x \in g : RowOK(x), NEW r \in g
    PROVE  \E o \in g : AsGood(o, r) /\ \A p \in g : ~Dominates(p, o)
<1> DEFINE S == {o \in g : AsGood(o, r)}
           R == {pair \in S \X S : Better(pair[2], pair[1])}
<1>1. IsFiniteSet(S) /\ r \in S
  <2>1. AsGood(r, r)
    BY DEF AsGood, RowOK
  <2> QED  BY <2>1, FS_Subset
<1>2. \A x \in S : <<x, x>> \notin R
  BY DEF Better, RowOK
<1>3. ASSUME NEW x \in S, NEW y \in S, NEW z \in S, Better(y, x), Better(z, y)
      PROVE  Better(z, x)
  <2>1. RowOK(x) /\ RowOK(y) /\ RowOK(z)
    OBVIOUS
  <2> QED  BY <1>3, <2>1 DEF Better, AsGood, RowOK
<1>4. \A x, y, z \in S : <<x, y>> \in R /\ <<y, z>> \in R => <<x, z>> \in R
  BY <1>3
<1> HIDE DEF R
<1>5. PICK o \in S : \A y \in S : <<o, y>> \notin R
  BY <1>1, <1>2, <1>4, FiniteMaximum
<1>6. ASSUME NEW p \in g, Dominates(p, o)
      PROVE  FALSE
  <2>1. RowOK(p) /\ RowOK(o) /\ RowOK(r)
    OBVIOUS
  <2>2. Better(p, o)
    BY <1>6, <2>1 DEF Dominates, Better, AsGood, RowOK
  <2>3. AsGood(p, r)
    BY <2>1, <2>2 DEF Better, AsGood, RowOK
  <2> QED  BY <1>5, <2>2, <2>3 DEF R
<1> QED  BY <1>6

\* A prune never takes the last word of a generation: of every row it drops there
\* stays a row of the same binding whose window covers it and whose key is no
\* lower, a certificate for a certificate, or such a row lay beyond the horizon
\* (prune.rs: the frontier is kept, and no record goes unless one dominates it).
THEOREM PrunesLeaveAWitness == PrunedSpec => PruneKeepsWitness
<1>1. ASSUME IInv, HeldFinite, PrunedNext, held' # held, held' \subseteq held,
             NEW r \in Rows(held), r.hash \notin held'
      PROVE  \/ \E o \in Rows(held') : StandsIn(o, r)
             \/ \E o \in Rows(held) : StandsIn(o, r) /\ o.serial > now + Horizon
  <2> DEFINE g == {x \in Rows(held) : x.host = r.host /\ x.doc = r.doc}
  <2>1. /\ held' = Prune(held, now, decisions)
        /\ held \in SUBSET Hash /\ held' \in SUBSET Hash /\ now \in Nat
    BY <1>1, ShrinkingIsReclaim, VerifierAssumption DEF IInv, Inputs
  <2>2. /\ g \in SUBSET Rows(held) /\ g \in Groups(Rows(held)) /\ IsFiniteSet(g) /\ r \in g
        /\ \A x \in g : RowOK(x)
    BY <1>1, <2>1, RowsOK, FinitelyManyRows, FS_Subset DEF Groups, HeldFinite
  <2>3. PICK o \in g : AsGood(o, r) /\ \A p \in g : ~Dominates(p, o)
    BY <2>2, TopOfTheGroup
  <2>4. \A q \in Rows(Hash) \cup Rows(held) \cup Rows(held') : Alike(q, o) => StandsIn(q, r)
    BY <2>2, <2>3 DEF Alike, AsGood, StandsIn, KeyLess, RowOK
  <2>5. CASE o.serial > now + Horizon
    BY <2>3, <2>4, <2>5 DEF Alike
  <2>6. CASE ~(o.serial > now + Horizon)
    <3>1. o \in Frontier(g, now)
      BY <2>2, <2>3, <2>6, HorizonAssumption, <2>1 DEF Frontier, RowOK
    <3>2. o \in KeptRows(Rows(held), now)
      BY <2>2, <3>1 DEF KeptRows
    <3>3. o.hash \in held'
      BY <2>1, <2>2, <3>2, RowsOK DEF Prune
    <3> QED  BY <2>1, <2>3, <2>4, <3>3, AlikeElsewhere
  <2> QED  BY <2>5, <2>6
<1>2. IInv /\ HeldFinite /\ [PrunedNext]_prunedVars =>
         [held' # held /\ held' \subseteq held =>
             \A r \in Rows(held) : r.hash \notin held' =>
                 \/ \E o \in Rows(held') : StandsIn(o, r)
                 \/ \E o \in Rows(held) : StandsIn(o, r) /\ o.serial > now + Horizon]_prunedVars
  BY <1>1
<1> QED  BY <1>2, PrunedInvariance, HeldStaysFinite, PTL DEF PrunedSpec, PruneKeepsWitness


-----------------------------------------------------------------------------
\* One document's rows, when some are gone for which others speak.

\* Two spellings of one word of the zone.
Same(q, r) == q.doc = r.doc /\ q.gen = r.gen /\ SameKey(q, r)

\* The rows of A and those of B come in the same spellings.
Matched(A, B) ==
    /\ \A a \in A : \E b \in B : Same(a, b)
    /\ \A b \in B : \E a \in A : Same(a, b)

\* No spelling twice.
Distinct(A) == \A q, r \in A : Same(q, r) => q = r

\* t says what o says, with no component lower.
Above(t, o) ==
    t.doc = o.doc /\ t.gen = o.gen /\ t.end >= o.end /\ t.serial >= o.serial /\ t.issued >= o.issued

\* Nothing signed has r's generation descend from itself.
OffCycle(r, view) == <<r.gen, r.gen>> \notin view.lineage[r.doc].descents

\* t says what o says, and later.
Outspoken(t, o, view) == Above(t, o) /\ ~Same(o, t) /\ OffCycle(o, view)

\* T is S without rows for which rows of T speak.
Thinned(S, T, view) ==
    /\ Surviving(S) /\ T \subseteq S /\ view.now = now
    /\ \A r \in S \ T : \E o \in T : AsGood(o, r) /\ OffCycle(r, view)

\* Two views that differ in their rows alone.
Agree(v, w) ==
    /\ v.now = w.now /\ v.proofs = w.proofs /\ v.lineage = w.lineage
    /\ v.statements = w.statements /\ v.hops = w.hops

\* What the ladder reads of a row is its spelling.
LEMMA SameVerdicts ==
    ASSUME NEW S, Surviving(S), NEW v, NEW w, Agree(v, w), v.now = now,
           NEW l \in S, NEW l2 \in S, NEW r \in S, NEW r2 \in S, Same(l, l2), Same(r, r2)
    PROVE  LadderVerdict(l, r, v) = LadderVerdict(l2, r2, w)
<1>1. (Fresh(l, now) <=> Fresh(l2, now)) /\ (Fresh(r, now) <=> Fresh(r2, now))
  <2>1. \A x \in S : Fresh(x, now) <=> now <= x.end
    BY FreshByEnd
  <2> QED  BY <2>1 DEF Same, SameKey
<1>2. SignedOrder(l, r, v) = SignedOrder(l2, r2, w)
  BY DEF SignedOrder, Precedes, Same, Agree
<1>3. KeyVerdict(l, r) = KeyVerdict(l2, r2)
  <2>1. l.doc = l2.doc /\ l.end = l2.end /\ l.serial = l2.serial /\ l.issued = l2.issued
    BY DEF Same, SameKey
  <2>2. r.doc = r2.doc /\ r.end = r2.end /\ r.serial = r2.serial /\ r.issued = r2.issued
    BY DEF Same, SameKey
  <2> QED  BY <2>1, <2>2 DEF KeyVerdict, KeyLess, ZoneLess, SameKey
<1>4. v.now = now /\ w.now = now
  BY DEF Agree
<1> QED  BY <1>1, <1>2, <1>3, <1>4 DEF LadderVerdict, Compare, Fresh

\* The ladder never prefers one spelling to the same one.
LEMMA NoneBeatsItsSpelling ==
    ASSUME NEW S, Surviving(S), NEW view, view.now = now,
           NEW q \in S, NEW r \in S, Same(q, r)
    PROVE  LadderVerdict(q, r, view) # "Left"
<1>1. Fresh(q, now) <=> Fresh(r, now)
  <2>1. \A x \in S : Fresh(x, now) <=> now <= x.end
    BY FreshByEnd
  <2> QED  BY <2>1 DEF Same, SameKey
<1>2. Precedes(q, r, view) = Precedes(r, q, view)
  BY DEF Precedes, Same
<1>3. SignedOrder(q, r, view) \in {"Fork", "Silent"}
  BY <1>2 DEF SignedOrder
<1>4. KeyVerdict(q, r) = "Equal"
  <2>1. ~KeyLess(q, r) /\ ~KeyLess(r, q)
    BY KeysCompare DEF Surviving, Same
  <2> QED  BY <2>1 DEF KeyVerdict, Same
<1> QED  BY <1>1, <1>3, <1>4 DEF LadderVerdict, Compare, SignedVerdict

\* A row outspoken is beaten: rungs 0 and 2 favour the other, and rung 1 is silent.
LEMMA OutspokenLoses ==
    ASSUME NEW S, Surviving(S), NEW view, view.now = now,
           NEW t \in S, NEW o \in S, Outspoken(t, o, view)
    PROVE  KeyLess(o, t) /\ LadderVerdict(t, o, view) = "Left"
<1>1. RowOK(t) /\ RowOK(o) /\ t.doc = o.doc /\ t.gen = o.gen
  BY DEF Surviving, Outspoken, Above
<1>2. KeyLess(o, t)
  BY <1>1 DEF Outspoken, Above, Same, SameKey, KeyLess, RowOK
<1>3. SignedOrder(t, o, view) = "Silent"
  BY <1>1 DEF SignedOrder, Precedes, Outspoken, OffCycle
<1>4. Fresh(o, now) => Fresh(t, now)
  BY <1>1, FreshByEnd DEF Outspoken, Above, Surviving, RowOK
<1>5. KeyVerdict(t, o) = "Left"
  <2>1. ~KeyLess(t, o) /\ ~SameKey(t, o)
    BY <1>1, <1>2, KeysCompare
  <2> QED  BY <1>1, <1>2, <2>1 DEF KeyVerdict
<1>6. LadderVerdict(t, o, view) = "Left"
  BY <1>3, <1>4, <1>5 DEF LadderVerdict, Compare, Fresh
<1> QED  BY <1>2, <1>6

\* What beats a row is no weaker with every component raised.
LEMMA AboveBeatsToo ==
    ASSUME NEW S, Surviving(S), NEW view, view.now = now,
           NEW t \in S, NEW o \in S, NEW a \in S, a.doc = o.doc,
           Above(t, o), LadderVerdict(o, a, view) = "Left"
    PROVE  LadderVerdict(t, a, view) = "Left"
<1>1. RowOK(t) /\ RowOK(o) /\ RowOK(a) /\ t.doc = o.doc /\ t.gen = o.gen
  BY DEF Surviving, Above
<1>2. SignedOrder(t, a, view) = SignedOrder(o, a, view)
  BY <1>1 DEF SignedOrder, Precedes
<1>3. Fresh(o, now) => Fresh(t, now)
  BY <1>1, FreshByEnd DEF Above, Surviving, RowOK
<1>4. KeyVerdict(o, a) = "Left" => KeyVerdict(t, a) = "Left"
  <2>1. KeyLess(a, o) => KeyLess(a, t)
    BY <1>1 DEF Above, KeyLess, RowOK
  <2>2. /\ KeyLess(a, o) \/ KeyLess(o, a) \/ SameKey(o, a)
        /\ KeyLess(a, t) => ~KeyLess(t, a) /\ ~SameKey(t, a)
    BY <1>1, KeysCompare
  <2>3. KeyVerdict(o, a) = "Left" => KeyLess(a, o)
    BY <2>2 DEF KeyVerdict
  <2>4. KeyLess(a, t) => KeyVerdict(t, a) = "Left"
    BY <1>1, <2>2 DEF KeyVerdict
  <2> QED  BY <2>1, <2>3, <2>4
<1>5. CASE SignedOrder(o, a, view) = "Silent"
  BY <1>2, <1>3, <1>4, <1>5 DEF LadderVerdict, Compare, Fresh
<1>6. CASE SignedOrder(o, a, view) # "Silent"
  BY <1>2, <1>3, <1>6 DEF LadderVerdict, Compare, Fresh
<1> QED  BY <1>5, <1>6

-----------------------------------------------------------------------------
\* A and B are the spellings of one document in S and in what is left of it.
Paired(A, B, S, view) ==
    /\ A \cup B \subseteq S /\ Distinct(A) /\ Distinct(B)
    /\ \A q, r \in A \cup B : q.doc = r.doc
    /\ \A b \in B : \E a \in A : Same(a, b)
    /\ \A a \in A : \E b \in B : Same(a, b) \/ Outspoken(b, a, view)

\* Of equal spellings the smallest hash is kept, so there is one of each.
LEMMA SpellingsDistinct ==
    ASSUME NEW S, Surviving(S), NEW doc
    PROVE  Distinct(Spellings(S, doc))
<1> SUFFICES ASSUME NEW q \in Spellings(S, doc), NEW r \in Spellings(S, doc), Same(q, r)
             PROVE  q = r
  BY DEF Distinct
<1>1. q \in S /\ r \in S /\ q.doc = doc /\ r.doc = doc
  BY DEF Spellings
<1>2. RowOK(q) /\ RowOK(r) /\ SameKey(r, q) /\ SameKey(q, r) /\ q.gen = r.gen
  BY <1>1 DEF Surviving, Same, SameKey
<1>3. q.hash <= r.hash /\ r.hash <= q.hash
  BY <1>1, <1>2 DEF Spellings
<1>4. q.hash = r.hash
  BY <1>2, <1>3 DEF RowOK
<1> QED  BY <1>1, <1>4 DEF Surviving

\* Rows remain rows when others go.
LEMMA ThinnedSurviving ==
    ASSUME NEW S, NEW T, NEW view, Thinned(S, T, view)
    PROVE  Surviving(T)
BY FS_Subset DEF Thinned, Surviving

\* A document's spellings in the thinner set are among those of the fuller one, and
\* outspeak what they are not.
LEMMA SpellingsPaired ==
    ASSUME NEW S, NEW T, NEW view, Thinned(S, T, view), NEW doc
    PROVE  Paired(Spellings(S, doc), Spellings(T, doc), S, view)
<1> DEFINE A == Spellings(S, doc)
           B == Spellings(T, doc)
<1>1. Surviving(S) /\ Surviving(T) /\ T \subseteq S
  BY ThinnedSurviving DEF Thinned
<1>2. A \cup B \subseteq S /\ A \subseteq S /\ B \subseteq T /\ \A q \in A \cup B : q.doc = doc
  BY <1>1 DEF Spellings
<1>3. Distinct(A) /\ Distinct(B)
  BY <1>1, SpellingsDistinct
<1>4. ASSUME NEW b \in B  PROVE \E a \in A : Same(a, b)
  BY <1>1, <1>2, HasSpelling DEF Same, Spellings
<1>5. ASSUME NEW a \in A  PROVE \E b \in B : Same(a, b) \/ Outspoken(b, a, view)
  <2>1. a \in S /\ a.doc = doc /\ RowOK(a)
    BY <1>1, <1>2 DEF Surviving
  <2>2. CASE a \in T
    <3>1. PICK b \in B : b.gen = a.gen /\ SameKey(b, a)
      BY <1>1, <2>1, <2>2, HasSpelling
    <3> QED  BY <1>2, <2>1, <3>1 DEF Same, SameKey
  <2>3. CASE a \notin T
    <3>1. PICK o \in T : AsGood(o, a) /\ OffCycle(a, view)
      BY <2>1, <2>3 DEF Thinned
    <3>2. o.doc = doc /\ o.gen = a.gen
      BY <2>1, <3>1 DEF AsGood
    <3>3. PICK b \in B : b.gen = o.gen /\ SameKey(b, o)
      BY <1>1, <3>2, HasSpelling
    <3>4. Above(b, a)
      BY <1>2, <2>1, <3>1, <3>2, <3>3 DEF Above, AsGood, SameKey
    <3> QED  BY <3>1, <3>4 DEF Outspoken
  <2> QED  BY <2>2, <2>3
<1> QED  BY <1>2, <1>3, <1>4, <1>5 DEF Paired

\* Spelling the same is an equivalence.
LEMMA SameIsEquivalence ==
    /\ \A q : Same(q, q)
    /\ \A q, r : Same(q, r) => Same(r, q)
    /\ \A q, r, s : Same(q, r) /\ Same(r, s) => Same(q, s)
BY DEF Same, SameKey

\* What is outspoken dominates nothing that its better does not, so the undominated
\* rows are spelled the same.
LEMMA UndominatedPaired ==
    ASSUME NEW S, Surviving(S), NEW v, NEW w, Agree(v, w), v.now = now,
           NEW A, NEW B, Paired(A, B, S, v)
    PROVE  Matched(Undominated(A, v), Undominated(B, w))
<1>1. /\ A \subseteq S /\ B \subseteq S /\ Agree(v, v) /\ w.now = now
      /\ \A q, r \in A \cup B : q.doc = r.doc
      /\ \A b \in B : \E a \in A : Same(a, b)
      /\ \A a \in A : \E b \in B : Same(a, b) \/ Outspoken(b, a, v)
  BY DEF Paired, Agree
<1> DEFINE Equally(x, y) ==
        \A l, l2, r, r2 \in S :
            Same(l, l2) /\ Same(r, r2) => LadderVerdict(l, r, x) = LadderVerdict(l2, r2, y)
<1>9. Equally(v, w) /\ Equally(v, v)
  BY <1>1, SameVerdicts
<1>2. ASSUME NEW a \in Undominated(A, v)  PROVE \E b \in Undominated(B, w) : Same(a, b)
  <2>1. a \in A /\ \A o \in A : o # a => LadderVerdict(o, a, v) # "Left"
    BY DEF Undominated
  <2>2. PICK b \in B : Same(a, b) \/ Outspoken(b, a, v)
    BY <1>1, <2>1
  <2>3. PICK t \in A : Same(t, b)
    BY <1>1
  <2>4. ~Outspoken(b, a, v)
    <3>1. SUFFICES ASSUME Outspoken(b, a, v)  PROVE FALSE
      OBVIOUS
    <3>2. LadderVerdict(b, a, v) = "Left"
      BY <1>1, <2>1, <3>1, OutspokenLoses
    <3>3. LadderVerdict(t, a, v) = "Left"
      BY <1>1, <2>1, <2>3, <3>2, <1>9, SameIsEquivalence
    <3>4. LadderVerdict(a, a, v) # "Left"
      BY <1>1, <2>1, NoneBeatsItsSpelling, SameIsEquivalence
    <3> QED  BY <2>1, <3>3, <3>4
  <2>5. ASSUME NEW o \in B, o # b, LadderVerdict(o, b, w) = "Left"  PROVE FALSE
    <3>1. PICK s \in A : Same(s, o)
      BY <1>1
    <3>2. s # a
      BY <2>2, <2>4, <2>5, <3>1, SameIsEquivalence DEF Paired, Distinct
    <3>3. LadderVerdict(s, a, v) = "Left"
      BY <1>1, <2>1, <2>2, <2>4, <2>5, <3>1, <1>9
    <3> QED  BY <2>1, <3>2, <3>3
  <2> QED  BY <2>2, <2>4, <2>5 DEF Undominated
<1>3. ASSUME NEW b \in Undominated(B, w)  PROVE \E a \in Undominated(A, v) : Same(a, b)
  <2>1. b \in B /\ \A o \in B : o # b => LadderVerdict(o, b, w) # "Left"
    BY DEF Undominated
  <2>2. PICK a \in A : Same(a, b)
    BY <1>1, <2>1
  <2>3. ASSUME NEW o \in A, o # a, LadderVerdict(o, a, v) = "Left"  PROVE FALSE
    <3>1. PICK t \in B : Same(o, t) \/ Outspoken(t, o, v)
      BY <1>1
    <3>2. LadderVerdict(t, a, v) = "Left"
      <4>1. CASE Same(o, t)
        <5>1. LadderVerdict(o, a, v) = LadderVerdict(t, a, v)
          BY <1>1, <4>1, <1>9, SameIsEquivalence
        <5> QED  BY <2>3, <5>1
      <4>2. CASE Outspoken(t, o, v)
        <5>1. Above(t, o) /\ a.doc = o.doc
          BY <1>1, <4>2 DEF Outspoken
        <5> QED  BY <1>1, <2>3, <5>1, AboveBeatsToo
      <4> QED  BY <3>1, <4>1, <4>2
    <3>3. LadderVerdict(t, a, v) = LadderVerdict(t, b, w)
      BY <1>1, <2>1, <2>2, <1>9, SameIsEquivalence
    <3>4. LadderVerdict(b, b, w) # "Left"
      BY <1>1, <2>1, NoneBeatsItsSpelling, SameIsEquivalence
    <3> QED  BY <2>1, <3>2, <3>3, <3>4
  <2> QED  BY <2>2, <2>3 DEF Undominated
<1> QED  BY <1>2, <1>3 DEF Matched

\* The row above all others (best_of_document, where nothing settles it).
Greatest(A) == {r \in A : \A o \in A : o = r \/ RowLess(o, r)}

\* The greatest row is never an outspoken one.
LEMMA GreatestPaired ==
    ASSUME NEW S, Surviving(S), NEW view, view.now = now,
           NEW A, NEW B, Paired(A, B, S, view)
    PROVE  Matched(Greatest(A), Greatest(B))
<1>1. /\ A \subseteq S /\ B \subseteq S
      /\ \A q, r \in A \cup B : q.doc = r.doc
      /\ \A b \in B : \E a \in A : Same(a, b)
      /\ \A a \in A : \E b \in B : Same(a, b) \/ Outspoken(b, a, view)
      /\ \A r \in A \cup B : RowOK(r)
      /\ \A q, r \in A : Same(q, r) => q = r
      /\ \A q, r \in B : Same(q, r) => q = r
  BY DEF Paired, Surviving, Distinct
<1>2. ASSUME NEW q \in A \cup B, NEW r \in A \cup B, NEW q2 \in A \cup B, NEW r2 \in A \cup B,
             Same(q, q2), Same(r, r2), RowLess(q, r), ~Same(q, r)
      PROVE  RowLess(q2, r2)
  <2>1. q.gen = q2.gen /\ q.end = q2.end /\ q.serial = q2.serial /\ q.issued = q2.issued
    BY <1>2 DEF Same, SameKey
  <2>2. r.gen = r2.gen /\ r.end = r2.end /\ r.serial = r2.serial /\ r.issued = r2.issued
    BY <1>2 DEF Same, SameKey
  <2>3. KeyLess(q, r) \/ (SameKey(q, r) /\ q.gen < r.gen)
    BY <1>1, <1>2 DEF RowLess, Same
  <2> QED  BY <2>1, <2>2, <2>3 DEF RowLess, KeyLess, SameKey
<1>3. ASSUME NEW q \in A \cup B, NEW r \in A \cup B, KeyLess(q, r)
      PROVE  q # r /\ ~RowLess(r, q)
  <2>1. ~KeyLess(r, q) /\ ~SameKey(r, q) /\ ~SameKey(q, r)
    BY <1>1, <1>3, KeysCompare
  <2> QED  BY <2>1 DEF RowLess, SameKey
<1>4. ASSUME NEW q \in A \cup B, NEW r \in A \cup B, NEW s \in A \cup B,
             KeyLess(q, r), r = s \/ RowLess(r, s)
      PROVE  KeyLess(q, s)
  <2>1. KeyLess(r, s) \/ SameKey(r, s)
    BY <1>4 DEF RowLess, SameKey
  <2>2. RowOK(q) /\ RowOK(r) /\ RowOK(s)
    BY <1>1
  <2> QED  BY <1>4, <2>1, <2>2 DEF KeyLess, SameKey, RowOK
<1>5. ASSUME NEW a \in Greatest(A)  PROVE \E b \in Greatest(B) : Same(a, b)
  <2>1. a \in A /\ \A o \in A : o = a \/ RowLess(o, a)
    BY DEF Greatest
  <2>2. PICK b \in B : Same(a, b) \/ Outspoken(b, a, view)
    BY <1>1, <2>1
  <2>3. PICK t \in A : Same(t, b)
    BY <1>1
  <2>4. ~Outspoken(b, a, view)
    <3>1. SUFFICES ASSUME Outspoken(b, a, view)  PROVE FALSE
      OBVIOUS
    <3>2. KeyLess(a, b)
      BY <1>1, <2>1, <3>1, OutspokenLoses
    <3>3. KeyLess(a, t)
      BY <2>3, <3>2 DEF Same, SameKey, KeyLess
    <3> QED  BY <1>3, <2>1, <3>3
  <2>5. ASSUME NEW o \in B  PROVE o = b \/ RowLess(o, b)
    <3>1. PICK s \in A : Same(s, o)
      BY <1>1
    <3>2. CASE s = a
      BY <1>1, <2>2, <2>4, <3>1, <3>2, SameIsEquivalence
    <3>3. CASE s # a
      <4>1. RowLess(s, a) /\ ~Same(s, a)
        BY <1>1, <2>1, <3>3
      <4> QED  BY <1>2, <2>1, <2>2, <2>4, <3>1, <4>1
    <3> QED  BY <3>2, <3>3
  <2> QED  BY <2>2, <2>4, <2>5 DEF Greatest
<1>6. ASSUME NEW b \in Greatest(B)  PROVE \E a \in Greatest(A) : Same(a, b)
  <2>1. b \in B /\ \A o \in B : o = b \/ RowLess(o, b)
    BY DEF Greatest
  <2>2. PICK a \in A : Same(a, b)
    BY <1>1, <2>1
  <2>3. ASSUME NEW o \in A  PROVE o = a \/ RowLess(o, a)
    <3>1. PICK t \in B : Same(o, t) \/ Outspoken(t, o, view)
      BY <1>1
    <3>2. CASE Same(o, t)
      <4>1. CASE t = b
        BY <1>1, <2>2, <3>2, <4>1, SameIsEquivalence
      <4>2. CASE t # b
        <5>1. RowLess(t, b) /\ ~Same(t, b)
          BY <1>1, <2>1, <4>2
        <5> QED  BY <1>2, <2>1, <2>2, <3>2, <5>1, SameIsEquivalence
      <4> QED  BY <4>1, <4>2
    <3>3. CASE Outspoken(t, o, view)
      <4>1. KeyLess(o, t)
        BY <1>1, <3>3, OutspokenLoses
      <4>2. KeyLess(o, b)
        BY <1>4, <2>1, <4>1
      <4> QED  BY <2>2, <4>2 DEF Same, SameKey, KeyLess, RowLess
    <3> QED  BY <3>1, <3>2, <3>3
  <2> QED  BY <2>2, <2>3 DEF Greatest
<1> QED  BY <1>5, <1>6 DEF Matched

\* Being the only row depends on spellings alone.
LEMMA SingleMatched ==
    ASSUME NEW A, NEW B, Distinct(A), Distinct(B), Matched(A, B), IsSingle(A)
    PROVE  IsSingle(B)
<1>1. PICK a \in A : A = {a}
  BY DEF IsSingle
<1>2. PICK b \in B : Same(a, b)
  BY <1>1 DEF Matched
<1>3. \A c \in B : c = b
  BY <1>1, <1>2, SameIsEquivalence DEF Matched, Distinct
<1> QED  BY <1>2, <1>3 DEF IsSingle

\* Each document has the same best row in either store, up to its spelling.
LEMMA BestPaired ==
    ASSUME NEW S, NEW T, NEW v, NEW w, Thinned(S, T, v), Agree(v, w), NEW doc
    PROVE  /\ Settles(S, doc, v) = Settles(T, doc, w)
           /\ Matched(BestOf(S, doc, v), BestOf(T, doc, w))
<1> DEFINE A == Spellings(S, doc)
           B == Spellings(T, doc)
<1>1. Surviving(S) /\ Surviving(T) /\ v.now = now /\ Paired(A, B, S, v)
  BY SpellingsPaired, ThinnedSurviving DEF Thinned
<1>2. Matched(Undominated(A, v), Undominated(B, w)) /\ Matched(Greatest(A), Greatest(B))
  BY <1>1, UndominatedPaired, GreatestPaired
<1>3. Matched(Undominated(B, w), Undominated(A, v))
  BY <1>2, SameIsEquivalence DEF Matched
<1>4. Distinct(Undominated(A, v)) /\ Distinct(Undominated(B, w))
  BY <1>1 DEF Paired, Distinct, Undominated
<1>5. IsSingle(Undominated(A, v)) <=> IsSingle(Undominated(B, w))
  BY <1>2, <1>3, <1>4, SingleMatched
<1> QED  BY <1>2, <1>5 DEF Settles, BestOf, Greatest, IsSingle

-----------------------------------------------------------------------------
\* The documents' best rows against one another.

\* What stage 5 is given: one row for each document.
OnePerDoc(A) == \A q, r \in A : q.doc = r.doc => q = r

\* Rows spelled the same are of the same documents.
LEMMA MatchedDocs ==
    ASSUME NEW A, NEW B, Matched(A, B)
    PROVE  DocsOf(A) = DocsOf(B)
BY DEF Matched, DocsOf, Same

\* Matching holds both ways.
LEMMA MatchedBack ==
    ASSUME NEW A, NEW B, Matched(A, B)
    PROVE  Matched(B, A)
BY SameIsEquivalence DEF Matched

\* A certificate is stood for by a certificate, so no candidate goes.
LEMMA ThinnedCandidates ==
    ASSUME NEW S, NEW T, NEW view, Thinned(S, T, view)
    PROVE  Candidates(S) = Candidates(T)
BY DEF Thinned, Candidates, DocsOf, Certificates, AsGood

\* The candidates' best rows are spelled the same.
LEMMA BestRowsPaired ==
    ASSUME NEW S, NEW T, NEW v, NEW w, Thinned(S, T, v), Agree(v, w)
    PROVE  /\ Matched(BestRows(S, v), BestRows(T, w))
           /\ OnePerDoc(BestRows(S, v)) /\ OnePerDoc(BestRows(T, w))
           /\ BestRows(S, v) \cup BestRows(T, w) \subseteq S
<1>1. Surviving(S) /\ Surviving(T) /\ T \subseteq S
  BY ThinnedSurviving DEF Thinned
<1>2. \A doc : Matched(BestOf(S, doc, v), BestOf(T, doc, w))
  BY BestPaired
<1>3. Candidates(S) = Candidates(T)
  BY ThinnedCandidates
<1>4. Matched(BestRows(S, v), BestRows(T, w))
  BY <1>2, <1>3 DEF BestRows, Matched
<1>5. OnePerDoc(BestRows(S, v)) /\ OnePerDoc(BestRows(T, w))
  <2>1. (\A r \in S : RowOK(r)) /\ (\A r \in T : RowOK(r))
    BY <1>1 DEF Surviving
  <2> QED  BY <2>1, BestRowsUnique DEF OnePerDoc
<1>6. BestRows(S, v) \subseteq S /\ BestRows(T, w) \subseteq T
  BY BestRowsOK
<1> QED  BY <1>1, <1>4, <1>5, <1>6

\* A document undominated among them is undominated among their doubles.
LEMMA BeatenAlike ==
    ASSUME NEW S, Surviving(S), NEW v, NEW w, Agree(v, w), v.now = now,
           NEW B \in SUBSET S, NEW C \in SUBSET S,
           Matched(B, C), OnePerDoc(B), OnePerDoc(C), NEW a \in Undominated(B, v)
    PROVE  \E c \in Undominated(C, w) : Same(a, c)
<1>1. a \in B /\ \A o \in B : o # a => LadderVerdict(o, a, v) # "Left"
  BY DEF Undominated
<1>2. PICK c \in C : Same(a, c)
  BY <1>1 DEF Matched
<1>3. \A l, l2, r, r2 \in S :
         Same(l, l2) /\ Same(r, r2) => LadderVerdict(l, r, v) = LadderVerdict(l2, r2, w)
  BY SameVerdicts
<1>4. ASSUME NEW o \in C, o # c, LadderVerdict(o, c, w) = "Left"  PROVE FALSE
  <2>1. PICK s \in B : Same(s, o)
    BY DEF Matched
  <2>2. s # a
    BY <1>2, <1>4, <2>1 DEF Same, OnePerDoc
  <2>3. LadderVerdict(s, a, v) = LadderVerdict(o, c, w)
    BY <1>1, <1>2, <1>3, <2>1
  <2> QED  BY <1>1, <1>4, <2>2, <2>3
<1> QED  BY <1>2, <1>4 DEF Undominated

\* The documents that no other dominates are the same.
LEMMA UndominatedMatched ==
    ASSUME NEW S, Surviving(S), NEW v, NEW w, Agree(v, w), v.now = now,
           NEW B \in SUBSET S, NEW C \in SUBSET S,
           Matched(B, C), OnePerDoc(B), OnePerDoc(C)
    PROVE  Matched(Undominated(B, v), Undominated(C, w))
<1>1. Agree(w, v) /\ w.now = now /\ Matched(C, B)
  BY MatchedBack DEF Agree
<1>2. \A a \in Undominated(B, v) : \E c \in Undominated(C, w) : Same(a, c)
  BY BeatenAlike
<1>3. \A c \in Undominated(C, w) : \E a \in Undominated(B, v) : Same(c, a)
  BY <1>1, BeatenAlike
<1> QED  BY <1>2, <1>3, SameIsEquivalence DEF Matched

\* So is the first of them.
LEMMA MaximalMatched ==
    ASSUME NEW B, NEW C, NEW U, NEW V, Matched(B, C), Matched(U, V)
    PROVE  Matched(Maximal(B, U), Maximal(C, V))
<1>1. \A P, Q : Matched(P, Q) => Matched(FirstByDoc(P), FirstByDoc(Q))
  <2> SUFFICES ASSUME NEW P, NEW Q, Matched(P, Q)
               PROVE  Matched(FirstByDoc(P), FirstByDoc(Q))
    OBVIOUS
  <2>1. \A p \in FirstByDoc(P) : \E q \in FirstByDoc(Q) : Same(p, q)
    BY DEF Matched, FirstByDoc, Same
  <2>2. \A q \in FirstByDoc(Q) : \E p \in FirstByDoc(P) : Same(p, q)
    BY DEF Matched, FirstByDoc, Same
  <2> QED  BY <2>1, <2>2 DEF Matched
<1>2. U = {} <=> V = {}
  BY DEF Matched
<1> QED  BY <1>1, <1>2 DEF Maximal

\* Two resolutions that say the same.
Equivalent(x, y) ==
    /\ x.docs = y.docs /\ Matched(x.bound, y.bound) /\ x.contested = y.contested
    /\ x.winner = y.winner /\ x.pending = y.pending

\* resolve_document decides the same: contest, accepted document, pending ones.
LEMMA ResolvesAlike ==
    ASSUME NEW v, NEW w, Agree(v, w), Thinned(v.surviving, w.surviving, v),
           NEW B \in SUBSET v.surviving, NEW C \in SUBSET v.surviving,
           Matched(B, C), OnePerDoc(B), OnePerDoc(C), NEW top
    PROVE  Equivalent(ResolveTop(B, Undominated(B, v), top, v),
                      ResolveTop(C, Undominated(C, w), top, w))
<1> DEFINE S == v.surviving
           U == Undominated(B, v)
           V == Undominated(C, w)
           M == Maximal(B, U)
           N == Maximal(C, V)
           winner == Winner(top)
           inc == Incumbent(winner, M, v)
           tied == \E d, e \in top : d # e
<1>1. Surviving(S) /\ v.now = now /\ w.now = now
  BY DEF Thinned, Agree
<1>2. Matched(U, V) /\ Matched(M, N) /\ U \subseteq B /\ V \subseteq C
  BY <1>1, UndominatedMatched, MaximalMatched DEF Undominated
<1>3. DocsOf(B) = DocsOf(C) /\ DocsOf(M) = DocsOf(N)
  BY <1>2, MatchedDocs
<1>4. inc = Incumbent(winner, N, w)
  BY <1>3 DEF Incumbent, Agree
<1>5. \A q, r \in S : Same(q, r) => (Fresh(q, now) <=> Fresh(r, now))
  <2>1. \A x \in S : Fresh(x, now) <=> now <= x.end
    BY <1>1, FreshByEnd
  <2> QED  BY <2>1 DEF Same, SameKey
<1>6. M \subseteq B /\ N \subseteq C
  BY <1>2 DEF Maximal, FirstByDoc
<1>7. \A q, r \in S : Same(q, r) => (Eligible(q, inc, v) <=> Eligible(r, inc, w))
  BY <1>1, <1>5 DEF Eligible, Same, Agree
<1>8. DocumentContest(U, winner, inc, v) <=> DocumentContest(V, winner, inc, w)
  <2>1. U = {} <=> V = {}
    BY <1>2 DEF Matched
  <2>2. (\E l, r \in U : l.doc # r.doc /\ Eligible(l, inc, v) /\ Eligible(r, inc, v))
          <=> (\E l, r \in V : l.doc # r.doc /\ Eligible(l, inc, w) /\ Eligible(r, inc, w))
    <3>1. U \subseteq S /\ V \subseteq S
      BY <1>2
    <3>2. \A l \in U : \E m \in V : l.doc = m.doc /\ (Eligible(l, inc, v) <=> Eligible(m, inc, w))
      BY <1>2, <1>7, <3>1 DEF Matched, Same
    <3>3. \A m \in V : \E l \in U : l.doc = m.doc /\ (Eligible(l, inc, v) <=> Eligible(m, inc, w))
      BY <1>2, <1>7, <3>1 DEF Matched, Same
    <3> QED  BY <3>2, <3>3
  <2>3. IsSingle(U) <=> IsSingle(V)
    <3>1. Distinct(U) /\ Distinct(V) /\ Matched(V, U)
      BY <1>2, MatchedBack DEF Distinct, OnePerDoc, Same
    <3> QED  BY <1>2, <3>1, SingleMatched
  <2> QED  BY <2>1, <2>2, <2>3 DEF DocumentContest
<1>9. \A doc : Settles(v.surviving, doc, v) = Settles(w.surviving, doc, w)
  BY BestPaired
<1> DEFINE contest1 == \/ tied
                       \/ \E doc \in DocsOf(B) : ~Settles(v.surviving, doc, v)
                       \/ DocumentContest(U, winner, inc, v)
           contest2 == \/ tied
                       \/ \E doc \in DocsOf(C) : ~Settles(w.surviving, doc, w)
                       \/ DocumentContest(V, winner, inc, w)
<1>10. contest1 = contest2
  BY <1>3, <1>8, <1>9
<1>11. AcceptedDoc(M, inc, contest1, v) = AcceptedDoc(N, inc, contest2, w)
  <2>1. (\E r \in M : Eligible(r, inc, v)) <=> (\E r \in N : Eligible(r, inc, w))
    <3>1. M \subseteq S /\ N \subseteq S
      BY <1>6
    <3> QED  BY <1>2, <1>7, <3>1 DEF Matched
  <2> HIDE DEF contest1, contest2, M, N, inc
  <2> QED  BY <1>3, <1>10, <2>1 DEF AcceptedDoc
<1> DEFINE docs == AcceptedDoc(M, inc, contest1, v)
<1>12. PendingDocs(B, docs, inc, v) = PendingDocs(C, docs, inc, w)
  <2> HIDE DEF docs, inc
  <2>1. B \subseteq S /\ C \subseteq S /\ v.proofs = w.proofs
    BY DEF Agree
  <2>2. \A b \in B : \E c \in C : b.doc = c.doc /\ (Fresh(b, v.now) <=> Fresh(c, w.now))
    BY <1>1, <1>5, <2>1 DEF Matched, Same
  <2>3. \A c \in C : \E b \in B : b.doc = c.doc /\ (Fresh(b, v.now) <=> Fresh(c, w.now))
    BY <1>1, <1>5, <2>1 DEF Matched, Same
  <2> QED  BY <2>1, <2>2, <2>3 DEF PendingDocs, DocsOf
<1>13. Matched({r \in B : r.doc \in docs}, {r \in C : r.doc \in docs})
  <2> HIDE DEF docs
  <2> QED  BY DEF Matched, Same
<1> HIDE DEF contest1, contest2, docs, inc, U, V, M, N
<1>14. Equivalent(Settle(docs, contest1, B, inc, winner, v),
                  Settle(docs, contest2, C, inc, winner, w))
  BY <1>10, <1>12, <1>13 DEF Equivalent, Settle
<1> USE DEF contest1, contest2, docs, inc, U, V, M, N
<1>15. ResolveTop(B, U, top, v) = Settle(docs, contest1, B, inc, winner, v)
  BY DEF ResolveTop, Resolve
<1>16. ResolveTop(C, V, top, w)
         = Settle(AcceptedDoc(N, Incumbent(winner, N, w), contest2, w), contest2, C, inc, winner, w)
  BY <1>4 DEF ResolveTop, Resolve
<1> QED  BY <1>4, <1>11, <1>14, <1>15, <1>16

-----------------------------------------------------------------------------
\* Stages 6 to 8 read no more than that.

\* A fresh row is stood for by a fresh one.
LEMMA FreshSupportThinned ==
    ASSUME NEW S, NEW T, NEW view, Thinned(S, T, view), NEW doc
    PROVE  FreshSupport(S, doc, now) <=> FreshSupport(T, doc, now)
<1>1. Surviving(S) /\ Surviving(T) /\ T \subseteq S
  BY ThinnedSurviving DEF Thinned
<1>2. \A r \in S : RowOK(r) /\ (Fresh(r, now) <=> now <= r.end)
  BY <1>1, FreshByEnd DEF Surviving
<1>3. ASSUME NEW r \in S, r.doc = doc, Fresh(r, now)
      PROVE  \E o \in T : o.doc = doc /\ Fresh(o, now)
  <2>1. CASE r \in T
    BY <1>3, <2>1
  <2>2. CASE r \notin T
    <3>1. PICK o \in T : AsGood(o, r)
      BY <2>2 DEF Thinned
    <3>2. o.doc = doc /\ o.end >= r.end /\ RowOK(o) /\ RowOK(r) /\ now \in Nat
      BY <1>1, <1>2, <1>3, <3>1 DEF AsGood, Surviving
    <3>3. now <= o.end
      BY <1>2, <1>3, <3>2 DEF RowOK
    <3> QED  BY <1>1, <1>2, <3>2, <3>3
  <2> QED  BY <2>1, <2>2
<1> QED  BY <1>1, <1>3 DEF FreshSupport

\* Continuity and grade ask for fresh support and a best row's generation only.
LEMMA GradedAlike ==
    ASSUME NEW v, NEW w, Agree(v, w), Thinned(v.surviving, w.surviving, v), NEW winner, NEW doc
    PROVE  /\ ContinuityGrade(winner, doc, v) = ContinuityGrade(winner, doc, w)
           /\ \A c : Grading(doc, c, v) = Grading(doc, c, w)
<1>1. v.now = now /\ w.now = now /\ v.hops = w.hops /\ v.statements = w.statements
  BY DEF Thinned, Agree
<1>2. \A d : FreshSupport(v.surviving, d, now) <=> FreshSupport(w.surviving, d, now)
  BY FreshSupportThinned
<1>3. \A base, next : FullyChecked(base, next, v) <=> FullyChecked(base, next, w)
  <2> SUFFICES ASSUME NEW base, NEW next
               PROVE  FullyChecked(base, next, v) <=> FullyChecked(base, next, w)
    OBVIOUS
  <2>1. Matched(BestOf(v.surviving, base, v), BestOf(w.surviving, base, w))
    BY BestPaired
  <2>2. (\E r \in v.surviving : r.doc = base /\ Fresh(r, v.now))
          <=> (\E r \in w.surviving : r.doc = base /\ Fresh(r, w.now))
    BY <1>1, <1>2 DEF FreshSupport
  <2>3. (\E r \in BestOf(v.surviving, base, v), s \in v.statements :
             /\ Content[s].pred = base /\ Content[s].succ = next /\ r.gen \in Content[s].path)
          <=> (\E r \in BestOf(w.surviving, base, w), s \in w.statements :
             /\ Content[s].pred = base /\ Content[s].succ = next /\ r.gen \in Content[s].path)
    BY <1>1, <2>1 DEF Matched, Same
  <2> QED  BY <2>2, <2>3 DEF FullyChecked
<1>4. \A chain : ContinuityAlong(chain, doc, v) = ContinuityAlong(chain, doc, w)
  BY <1>3 DEF ContinuityAlong
<1>5. ContinuityGrade(winner, doc, v) = ContinuityGrade(winner, doc, w)
  BY <1>1, <1>4 DEF ContinuityGrade
<1>6. \A c : Grading(doc, c, v) = Grading(doc, c, w)
  BY <1>1, <1>2 DEF Grading
<1> QED  BY <1>5, <1>6

\* Tenure spans the dropped rows' windows: each lies within one that stays.
LEMMA TenureThinned ==
    ASSUME NEW S, NEW T, NEW view, Thinned(S, T, view), NEW docs
    PROVE  Tenure({r \in S : r.doc \in docs}) = Tenure({r \in T : r.doc \in docs})
<1> DEFINE A == {r \in S : r.doc \in docs}
           B == {r \in T : r.doc \in docs}
           first(R) == {x \in R : \A y \in R : x.from <= y.from}
           last(R)  == {x \in R : \A y \in R : y.end <= x.end}
<1>1. /\ B \subseteq A /\ \A r \in A : r.from \in Nat /\ r.end \in Nat
  BY DEF Thinned, Surviving, RowOK
<1>2. \A a \in A : \E b \in B : b.from <= a.from /\ b.end >= a.end
  <2> SUFFICES ASSUME NEW a \in A  PROVE \E b \in B : b.from <= a.from /\ b.end >= a.end
    OBVIOUS
  <2>1. CASE a \in T
    BY <1>1, <2>1
  <2>2. CASE a \notin T
    BY <2>2 DEF Thinned, AsGood
  <2> QED  BY <2>1, <2>2
<1> HIDE DEF A, B
<1>3. \A a \in first(A) : \E b \in first(B) : b.from = a.from
  BY <1>1, <1>2
<1>4. \A b \in first(B) : b \in first(A)
  BY <1>1, <1>2
<1>5. \A a \in last(A) : \E b \in last(B) : b.end = a.end
  BY <1>1, <1>2
<1>6. \A b \in last(B) : b \in last(A)
  BY <1>1, <1>2
<1> HIDE DEF first, last
<1>7. {[from |-> l.from, end |-> r.end] : l \in first(A), r \in last(A)}
        = {[from |-> l.from, end |-> r.end] : l \in first(B), r \in last(B)}
  BY <1>3, <1>4, <1>5, <1>6
<1> USE DEF first, last, A, B
<1> QED  BY <1>7 DEF Tenure

\* A surviving rewind is stood for by a surviving rewind.
LEMMA RewoundThinned ==
    ASSUME NEW v, NEW w, Agree(v, w), Thinned(v.surviving, w.surviving, v)
    PROVE  RewoundDocs(v.surviving, v.lineage) = RewoundDocs(w.surviving, w.lineage)
<1>1. w.surviving \subseteq v.surviving /\ v.lineage = w.lineage
  BY DEF Thinned, Agree
<1>2. ASSUME NEW r \in v.surviving, Retired(r, v.lineage)
      PROVE  \E o \in w.surviving : o.doc = r.doc /\ Retired(o, w.lineage)
  <2>1. CASE r \in w.surviving
    BY <1>1, <1>2, <2>1
  <2>2. CASE r \notin w.surviving
    BY <1>1, <1>2, <2>2 DEF Thinned, AsGood, Retired
  <2> QED  BY <2>1, <2>2
<1> QED  BY <1>1, <1>2 DEF RewoundDocs, DocsOf

\* Equivalent resolutions conclude in the same derived state.
LEMMA ConcludesEqually ==
    ASSUME NEW v, NEW w, Agree(v, w), Thinned(v.surviving, w.surviving, v),
           GradedForks(v.considered, v.lineage, v.now) = GradedForks(w.considered, w.lineage, w.now),
           NEW x, NEW y, Equivalent(x, y), NEW losing, NEW claims, NEW pinned
    PROVE  ConcludeFrom(x, losing, claims, pinned, v) = ConcludeFrom(y, losing, claims, pinned, w)
<1> DEFINE m == Masked(x, v)
           shown == IF m THEN {} ELSE x.bound
           shown2 == IF m THEN {} ELSE y.bound
<1>1. /\ x.docs = y.docs /\ Matched(x.bound, y.bound) /\ x.contested = y.contested
      /\ x.winner = y.winner /\ x.pending = y.pending
      /\ v.now = w.now /\ v.lineage = w.lineage /\ v.hops = w.hops
  BY DEF Equivalent, Agree
<1>2. DocsOf(x.bound) = DocsOf(y.bound)
  BY <1>1, MatchedDocs
<1>3. m = Masked(y, w)
  BY <1>1, <1>2, RewoundThinned DEF Masked
<1>4. Matched(shown, shown2)
  BY <1>1 DEF Matched
<1>5. DocsOf(shown) = DocsOf(shown2)
  BY <1>4, MatchedDocs
<1>6. {r.serial : r \in shown} = {r.serial : r \in shown2}
  BY <1>4 DEF Matched, Same, SameKey
<1>7. {AcceptedBinding(r, ContinuityGrade(x.winner, r.doc, v), v) : r \in shown}
        = {AcceptedBinding(r, ContinuityGrade(y.winner, r.doc, w), w) : r \in shown2}
  <2>1. \A q, r : Same(q, r) =>
           AcceptedBinding(q, ContinuityGrade(x.winner, q.doc, v), v)
             = AcceptedBinding(r, ContinuityGrade(y.winner, r.doc, w), w)
    <3> SUFFICES ASSUME NEW q, NEW r, Same(q, r)
                 PROVE  AcceptedBinding(q, ContinuityGrade(x.winner, q.doc, v), v)
                          = AcceptedBinding(r, ContinuityGrade(y.winner, r.doc, w), w)
      OBVIOUS
    <3>1. q.doc = r.doc /\ q.gen = r.gen
      BY DEF Same
    <3>2. ContinuityGrade(x.winner, q.doc, v) = ContinuityGrade(x.winner, q.doc, w)
      BY GradedAlike
    <3>3. \A c : Grading(q.doc, c, v) = Grading(q.doc, c, w)
      BY GradedAlike
    <3> QED  BY <1>1, <3>1, <3>2, <3>3 DEF AcceptedBinding
  <2> HIDE DEF shown, shown2
  <2> QED  BY <1>4, <2>1 DEF Matched
<1>8. Tenure({r \in v.surviving : r.doc \in DocsOf(x.bound)})
        = Tenure({r \in w.surviving : r.doc \in DocsOf(y.bound)})
  <2>1. \A docs : Tenure({r \in v.surviving : r.doc \in docs})
                    = Tenure({r \in w.surviving : r.doc \in docs})
    BY TenureThinned
  <2> QED  BY <1>2, <2>1
<1>9. ConcludeFrom(x, losing, claims, pinned, v) = Conclude(x, m, losing, claims, pinned, v)
  BY DEF ConcludeFrom
<1>10. ConcludeFrom(y, losing, claims, pinned, w) = Conclude(y, m, losing, claims, pinned, w)
  BY <1>3 DEF ConcludeFrom
<1>11. Conclude(x, m, losing, claims, pinned, v) =
    [accepted   |-> {AcceptedBinding(r, ContinuityGrade(x.winner, r.doc, v), v) : r \in shown},
     contested  |-> m,
     divergence |-> DivergenceFrom(DocsOf(shown), claims, pinned),
     serial     |-> {r.serial : r \in shown},
     forks      |-> LineageForks(v.lineage) \cup GradedForks(v.considered, v.lineage, v.now),
     losing     |-> losing,
     pending    |-> x.pending,
     successionForks |-> SuccessionForks(v.hops),
     tenure     |-> Tenure({r \in v.surviving : r.doc \in DocsOf(x.bound)})]
  BY DEF Conclude
<1>12. Conclude(y, m, losing, claims, pinned, w) =
    [accepted   |-> {AcceptedBinding(r, ContinuityGrade(y.winner, r.doc, w), w) : r \in shown2},
     contested  |-> m,
     divergence |-> DivergenceFrom(DocsOf(shown2), claims, pinned),
     serial     |-> {r.serial : r \in shown2},
     forks      |-> LineageForks(w.lineage) \cup GradedForks(w.considered, w.lineage, w.now),
     losing     |-> losing,
     pending    |-> y.pending,
     successionForks |-> SuccessionForks(w.hops),
     tenure     |-> Tenure({r \in w.surviving : r.doc \in DocsOf(y.bound)})]
  BY DEF Conclude
<1> HIDE DEF m, shown, shown2
<1> QED  BY <1>1, <1>5, <1>6, <1>7, <1>8, <1>9, <1>10, <1>11, <1>12

\* Stages 5 to 8 together.
LEMMA JudgedAlike ==
    ASSUME NEW v, NEW w, Agree(v, w), Thinned(v.surviving, w.surviving, v),
           GradedForks(v.considered, v.lineage, v.now) = GradedForks(w.considered, w.lineage, w.now),
           NEW receipts, NEW ev, NEW ev2,
           TopDocs(receipts, ev.rows) = TopDocs(receipts, ev2.rows), NEW claims, NEW pinned
    PROVE  JudgeView(v, receipts, ev, claims, pinned) = JudgeView(w, receipts, ev2, claims, pinned)
<1> DEFINE B == BestRows(v.surviving, v)
           C == BestRows(w.surviving, w)
           top == TopDocs(receipts, ev.rows)
<1>1. /\ Matched(B, C) /\ OnePerDoc(B) /\ OnePerDoc(C)
      /\ B \in SUBSET v.surviving /\ C \in SUBSET v.surviving
  BY BestRowsPaired
<1>2. B = {} <=> C = {}
  BY <1>1 DEF Matched
<1>3. LosingDocs(receipts, ev.rows) = LosingDocs(receipts, ev2.rows)
  BY DEF LosingDocs
<1>4. \A x, y, losing : Equivalent(x, y) =>
         ConcludeFrom(x, losing, claims, pinned, v) = ConcludeFrom(y, losing, claims, pinned, w)
  BY ConcludesEqually
<1>5. CASE B = {}
  <2>1. Equivalent(Settle({}, FALSE, {}, {}, {}, v), Settle({}, FALSE, {}, {}, {}, w))
    BY DEF Equivalent, Settle, Matched, PendingDocs, DocsOf
  <2>2. ConcludeFrom(Settle({}, FALSE, {}, {}, {}, v), {}, claims, pinned, v)
          = ConcludeFrom(Settle({}, FALSE, {}, {}, {}, w), {}, claims, pinned, w)
    BY <2>1, <1>4
  <2> QED  BY <1>2, <1>5, <2>2 DEF JudgeView, Judge
<1>6. CASE B # {}
  <2>1. Equivalent(ResolveTop(B, Undominated(B, v), top, v),
                   ResolveTop(C, Undominated(C, w), top, w))
    BY <1>1, ResolvesAlike
  <2> HIDE DEF B, C
  <2>2. ConcludeFrom(ResolveTop(B, Undominated(B, v), top, v),
                     LosingDocs(receipts, ev.rows), claims, pinned, v)
          = ConcludeFrom(ResolveTop(C, Undominated(C, w), top, w),
                         LosingDocs(receipts, ev.rows), claims, pinned, w)
    BY <2>1, <1>4
  <2> USE DEF B, C
  <2> QED  BY <1>2, <1>3, <1>6, <2>2 DEF JudgeView, Judge
<1> QED  BY <1>5, <1>6

-----------------------------------------------------------------------------
\* What the premises of PruneExact say of the stages.

\* What full remembers: all that is held, and no more than ever was.
Remembered == held \subseteq full /\ full \subseteq Ingestible /\ IsFiniteSet(full)

\* It does, whatever is ingested and pruned.
LEMMA FullRemembers == PrunedSpec => []Remembered
<1>1. PrunedInit => Remembered
  BY FS_EmptySet DEF PrunedInit, Init, Remembered
<1>2. Remembered /\ IInv' /\ HeldFinite' /\ [PrunedNext]_prunedVars => Remembered'
  <2> SUFFICES ASSUME Remembered, IInv', HeldFinite', [PrunedNext]_prunedVars
               PROVE  Remembered'
    OBVIOUS
  <2>1. CASE Next /\ full' = full \cup held'
    BY <2>1, FS_Union DEF Remembered, IInv, Inputs, HeldFinite
  <2>2. CASE Reclaim
    BY <2>2, PruneShrinks DEF Reclaim, Remembered
  <2>3. CASE UNCHANGED prunedVars
    BY <2>3 DEF prunedVars, Remembered
  <2> QED  BY <2>1, <2>2, <2>3 DEF PrunedNext
<1> QED  BY <1>1, <1>2, PrunedInvariance, HeldStaysFinite, PTL DEF PrunedSpec

\* Where refreshes are vouched for as before, what is held has the rows it had.
LEMMA RowsOfTheRest ==
    ASSUME NEW F \in SUBSET Hash, NEW H \in SUBSET F,
           {r \in RefreshRows(F) : r.hash \in H} = RefreshRows(H)
    PROVE  Rows(H) = {r \in Rows(F) : r.hash \in H}
<1>1. H \in SUBSET Hash
  OBVIOUS
<1>2. \A r \in CertificateRows(H) : r \in CertificateRows(F) /\ r.hash \in H
  BY <1>1, CertificateRowsOK, CertificateRowsElsewhere
<1>3. \A r \in CertificateRows(F) : r.hash \in H => r \in CertificateRows(H)
  BY <1>1, CertificateRowsElsewhere
<1> QED  BY <1>2, <1>3 DEF Rows

\* A row that stands for another before stage 4.
Replaces(o, r) ==
    /\ AsGood(o, r) /\ (Fresh(o, now) => o.onPath) /\ ~OnCycle(InForce(o.doc), o.gen)

\* Stages 2 and 3: each considered row that is gone has one in its place, and the
\* lineages are the same.
LEMMA ConsideredStand ==
    ASSUME IInv, Remembered, NEW h \in Host, DominatorsStand(h), NothingElseDropped(h)
    PROVE  /\ ConsideredFrom(held, h) \subseteq ConsideredFrom(full, h)
           /\ \A r \in ConsideredFrom(full, h) \ ConsideredFrom(held, h) :
                 \E o \in ConsideredFrom(held, h) : Replaces(o, r)
           /\ \A r \in ConsideredFrom(full, h) :
                 RowOK(r) /\ r.from <= now /\ r \in Rows(full)
           /\ LineagesFrom(full, h) = LineagesFrom(held, h)
<1> DEFINE X == decisions.resets[h]
           OF == Open(Rows(full), h, now, X)
           OH == Open(Rows(held), h, now, X)
<1>1. full \in SUBSET Hash /\ held \in SUBSET full /\ held \in SUBSET Hash /\ now \in Nat
  BY VerifierAssumption DEF Remembered, IInv, Inputs
<1>2. Rows(held) = {r \in Rows(full) : r.hash \in held}
  BY <1>1, RowsOfTheRest DEF NothingElseDropped
<1>3. OH = {r \in OF : r.hash \in held} /\ Speaking(h) = OH
  BY <1>2, SpeakingIsOpen DEF Open
<1>4. \A r \in OF : RowOK(r) /\ r.from <= now /\ r \in Rows(full)
  <2>1. \A r \in Rows(full) : RowOK(r)
    BY <1>1, RowsOK
  <2> QED  BY <1>1, <2>1 DEF Open, Deferred, Grade, RowOK
<1>5. ASSUME NEW r \in OF, r \notin OH
      PROVE  \E o \in OH : Replaces(o, r)
  <2>1. r \in Missing(h) /\ ~Deferred(r, now)
    BY <1>3, <1>5 DEF Missing, Open
  <2>2. PICK o \in OH : /\ Dominates(o, r) /\ (Fresh(o, now) => o.onPath)
                        /\ ~OnCycle(InForce(o.doc), o.gen)
    BY <1>3, <2>1 DEF DominatorsStand
  <2>3. RowOK(o) /\ RowOK(r)
    BY <1>3, <1>4, <1>5
  <2>4. AsGood(o, r)
    BY <2>2, <2>3 DEF Dominates, AsGood, RowOK
  <2> QED  BY <2>2, <2>4 DEF Replaces
<1>6. DocsOf(Certificates(OF)) = DocsOf(Certificates(OH))
  <2>1. ASSUME NEW r \in OF, r.att = "Certificate"
        PROVE  \E o \in OH : o.doc = r.doc /\ o.att = "Certificate"
    BY <1>5, <2>1 DEF Replaces, AsGood
  <2> QED  BY <1>3, <2>1 DEF DocsOf, Certificates
<1>7. /\ ConsideredFrom(full, h) = {r \in OF : r.doc \in DocsOf(Certificates(OH))}
      /\ ConsideredFrom(held, h) = {r \in OH : r.doc \in DocsOf(Certificates(OH))}
  BY <1>6 DEF ConsideredFrom, Considered, Corroborated
<1>8. ConsideredFrom(held, h) \subseteq ConsideredFrom(full, h)
  BY <1>3, <1>7
<1>9. ASSUME NEW r \in ConsideredFrom(full, h), r \notin ConsideredFrom(held, h)
      PROVE  \E o \in ConsideredFrom(held, h) : Replaces(o, r)
  <2>1. r \in OF /\ r \notin OH
    BY <1>7, <1>9
  <2>2. PICK o \in OH : Replaces(o, r)
    BY <1>5, <2>1
  <2> QED  BY <1>7, <2>2 DEF Replaces, AsGood
<1>10. LineagesFrom(full, h) = LineagesFrom(held, h)
  <2>1. DocsOf(ConsideredFrom(full, h)) = DocsOf(ConsideredFrom(held, h))
    BY <1>8, <1>9 DEF DocsOf, Replaces, AsGood
  <2>2. \A doc : Edges(full, decisions, doc) = Edges(held, decisions, doc)
    BY DEF NothingElseDropped, Edges
  <2> QED  BY <2>1, <2>2 DEF LineagesFrom, LineageOf
<1> QED  BY <1>4, <1>7, <1>8, <1>9, <1>10

\* Stage 4: what takes a survivor's place survives, and the same forks are graded.
LEMMA SurvivorsStand ==
    ASSUME IInv, Remembered, NEW h \in Host, DominatorsStand(h), NothingElseDropped(h),
           NEW view, view.now = now, view.lineage = LineagesFrom(held, h)
    PROVE  /\ Thinned(SurvivingFrom(full, h), SurvivingFrom(held, h), view)
           /\ GradedForks(ConsideredFrom(full, h), view.lineage, now)
                = GradedForks(ConsideredFrom(held, h), view.lineage, now)
<1> DEFINE L  == LineagesFrom(held, h)
           CF == ConsideredFrom(full, h)
           CH == ConsideredFrom(held, h)
           S  == SurvivingFrom(full, h)
           T  == SurvivingFrom(held, h)
<1>1. /\ CH \subseteq CF /\ now \in Nat /\ full \in SUBSET Hash
      /\ \A r \in CF \ CH : \E o \in CH : Replaces(o, r)
      /\ \A r \in CF : RowOK(r) /\ r.from <= now /\ r \in Rows(full)
      /\ LineagesFrom(full, h) = L
  BY ConsideredStand, VerifierAssumption DEF Remembered, IInv, Inputs
<1>2. S = Survivors(CF, L, now) /\ T = Survivors(CH, L, now)
  BY <1>1 DEF SurvivingFrom
<1>3. \A r \in CF, o \in CH : Replaces(o, r) =>
         /\ o.doc = r.doc /\ o.gen = r.gen /\ ~OffPath(o, now)
         /\ Retired(o, L) <=> Retired(r, L)
         /\ Fresh(r, now) => Fresh(o, now)
  <2> SUFFICES ASSUME NEW r \in CF, NEW o \in CH, Replaces(o, r)
               PROVE  /\ o.doc = r.doc /\ o.gen = r.gen /\ ~OffPath(o, now)
                      /\ Retired(o, L) <=> Retired(r, L)
                      /\ Fresh(r, now) => Fresh(o, now)
    OBVIOUS
  <2>1. o.doc = r.doc /\ o.gen = r.gen /\ o.end >= r.end
    BY DEF Replaces, AsGood
  <2>2. RowOK(o) /\ RowOK(r) /\ o.from <= now /\ r.from <= now
    BY <1>1
  <2>3. Fresh(r, now) => Fresh(o, now)
    BY <1>1, <2>1, <2>2 DEF Fresh, Grade, RowOK
  <2>4. Retired(o, L) <=> Retired(r, L)
    BY <2>1 DEF Retired
  <2> QED  BY <2>1, <2>3, <2>4 DEF Replaces, OffPath
<1>4. \A r : MovedOn(r, L, CF) <=> MovedOn(r, L, CH)
  <2>1. \A x \in CF : \E o \in CH : o.doc = x.doc /\ o.gen = x.gen
    BY <1>1, <1>3
  <2>2. CH \subseteq CF
    BY <1>1
  <2> HIDE DEF CF, CH, L
  <2> QED  BY <2>1, <2>2 DEF MovedOn
<1>5. T \subseteq S /\ S \subseteq CF
  BY <1>1, <1>2, <1>4 DEF Survivors
<1>6. ASSUME NEW r \in S, r \notin T
      PROVE  \E o \in T : AsGood(o, r) /\ OffCycle(r, view)
  <2>1. r \in CF /\ r \notin CH
    BY <1>2, <1>4, <1>5, <1>6 DEF Survivors
  <2>2. PICK o \in CH : Replaces(o, r)
    BY <1>1, <2>1
  <2>3. /\ o.doc = r.doc /\ o.gen = r.gen /\ ~OffPath(o, now)
        /\ Retired(o, L) <=> Retired(r, L)
        /\ Fresh(r, now) => Fresh(o, now)
    BY <1>3, <2>1, <2>2
  <2>4. MovedOn(o, L, CH) <=> MovedOn(r, L, CH)
    BY <2>3 DEF MovedOn
  <2>5. o \in T
    BY <1>2, <1>4, <1>6, <2>3, <2>4 DEF Survivors
  <2>6. L[o.doc] = LineageView(InForce(o.doc))
    <3>1. o \in ConsideredNow(h) /\ LineagesNow(h) = L
      BY DEF ConsideredNow, ConsideredFrom, LineagesNow, LineagesFrom
    <3> QED  BY <3>1, LineageInForce
  <2>7. OffCycle(r, view)
    BY <2>2, <2>3, <2>6, Descents DEF OffCycle, Replaces, OnCycle, Descends
  <2> QED  BY <2>2, <2>5, <2>7 DEF Replaces
<1>7. Surviving(S)
  <2>1. IsFiniteSet(S)
    <3>1. S \in SUBSET Rows(full)
      BY <1>1, <1>5
    <3> QED  BY <1>1, <3>1, FinitelyManyRows, FS_Subset DEF Remembered
  <2>2. \A q, r \in S : q.hash = r.hash /\ q.doc = r.doc => q = r
    BY <1>1, <1>5, OneRow
  <2> QED  BY <1>1, <1>5, <2>1, <2>2 DEF Surviving
<1>8. Thinned(S, T, view)
  BY <1>5, <1>6, <1>7 DEF Thinned
<1>9. GradedForks(CF, L, now) = GradedForks(CH, L, now)
  <2> DEFINE Graded(x) == /\ ~OffPath(x, now)
                          /\ \/ Retired(x, L) /\ Fresh(x, now)
                             \/ x.gen \in L[x.doc].implicated
  <2>1. \A x \in CF : Graded(x) => \E o \in CH : o.doc = x.doc /\ o.gen = x.gen /\ Graded(o)
    <3> SUFFICES ASSUME NEW x \in CF, Graded(x)
                 PROVE  \E o \in CH : o.doc = x.doc /\ o.gen = x.gen /\ Graded(o)
      OBVIOUS
    <3>1. CASE x \in CH
      BY <3>1
    <3>2. CASE x \notin CH
      BY <1>1, <1>3, <3>2
    <3> QED  BY <3>1, <3>2
  <2>2. CH \subseteq CF
    BY <1>1
  <2>3. /\ GradedForks(CF, L, now) = {[doc |-> r.doc, at |-> r.gen] : r \in {x \in CF : Graded(x)}}
        /\ GradedForks(CH, L, now) = {[doc |-> r.doc, at |-> r.gen] : r \in {x \in CH : Graded(x)}}
    BY DEF GradedForks
  <2> HIDE DEF CF, CH, L, Graded
  <2> QED  BY <2>1, <2>2, <2>3
<1> QED  BY <1>8, <1>9

\* The view that stages 5 to 8 are given.
ViewFrom(H, h) == View(ConsideredFrom(H, h), StatementsFor(h, H, decisions.resets[h]),
                       Extract(H), now, decisions)

\* Its fields.
LEMMA ViewFromParts ==
    ASSUME NEW H, NEW h
    PROVE  /\ ViewFrom(H, h).considered = ConsideredFrom(H, h)
           /\ ViewFrom(H, h).surviving = SurvivingFrom(H, h)
           /\ ViewFrom(H, h).lineage = LineagesFrom(H, h)
           /\ ViewFrom(H, h).now = now
           /\ ViewFrom(H, h).statements = StatementsFor(h, H, decisions.resets[h])
           /\ ViewFrom(H, h).hops = HopsOf(StatementsFor(h, H, decisions.resets[h]))
           /\ ViewFrom(H, h).proofs = ProofPairs(HopsOf(StatementsFor(h, H, decisions.resets[h])))
BY DEF ViewFrom, View, ViewOf, SurvivingFrom, LineagesFrom, Extract

\* Receipts and their rank, where nothing cited is gone.
LEMMA ReceiptsOfTheRest ==
    ASSUME IInv, Remembered, NEW h \in Host, NothingElseDropped(h)
    PROVE  /\ Receipts(h, Extract(full), decisions) = Receipts(h, Extract(held), decisions)
           /\ TopDocs(Receipts(h, Extract(full), decisions), Rows(full))
                = TopDocs(Receipts(h, Extract(held), decisions), Rows(held))
<1>1. full \in SUBSET Hash /\ held \in SUBSET Hash
  BY VerifierAssumption DEF Remembered, IInv, Inputs
<1>2. \A a \in decisions.acceptances[h] : \A j \in a.cited : j \in full <=> j \in held
  BY DEF NothingElseDropped, Remembered
<1>3. Receipts(h, Extract(full), decisions) = Receipts(h, Extract(held), decisions)
  BY <1>1, <1>2, EvaluableElsewhere DEF Receipts
<1>4. TopDocs(Receipts(h, Extract(full), decisions), Rows(full))
        = TopDocs(Receipts(h, Extract(held), decisions), Rows(held))
  BY <1>1, <1>2, PreferredElsewhere
<1> QED  BY <1>3, <1>4

\* All stages together: the pruned and the full store derive the same.
LEMMA PruneExactStep == IInv /\ Remembered => PruneExact
<1> SUFFICES ASSUME IInv, Remembered, NEW h \in Host, DominatorsStand(h), NothingElseDropped(h)
             PROVE  bindings[h] = Derive(h, Extract(full), now, decisions,
                                         Pins(h, decisions, targets))
  BY DEF PruneExact
<1> DEFINE v == ViewFrom(full, h)
           w == ViewFrom(held, h)
           receipts == Receipts(h, Extract(held), decisions)
           claims == decisions.claims[h]
           pinned == Pins(h, decisions, targets)
<1>1. LineagesFrom(full, h) = LineagesFrom(held, h)
  BY ConsideredStand
<1>2. Agree(v, w)
  BY <1>1, ViewFromParts DEF Agree, NothingElseDropped
<1>3. v.now = now /\ v.lineage = LineagesFrom(held, h) /\ w.now = now /\ w.lineage = LineagesFrom(held, h)
  BY <1>1, ViewFromParts
<1>4. /\ Thinned(v.surviving, w.surviving, v)
      /\ GradedForks(v.considered, v.lineage, v.now) = GradedForks(w.considered, w.lineage, w.now)
  <2>1. /\ v.surviving = SurvivingFrom(full, h) /\ w.surviving = SurvivingFrom(held, h)
        /\ v.considered = ConsideredFrom(full, h) /\ w.considered = ConsideredFrom(held, h)
    BY ViewFromParts
  <2> HIDE DEF v, w
  <2> QED  BY <1>3, <2>1, SurvivorsStand
<1>5. Receipts(h, Extract(full), decisions) = receipts
  BY ReceiptsOfTheRest
<1>6. TopDocs(receipts, Extract(full).rows) = TopDocs(receipts, Extract(held).rows)
  BY <1>5, ReceiptsOfTheRest DEF Extract
<1>7. JudgeView(v, receipts, Extract(full), claims, pinned)
        = JudgeView(w, receipts, Extract(held), claims, pinned)
  <2> HIDE DEF v, w, receipts
  <2> QED  BY <1>2, <1>4, <1>6, JudgedAlike
<1>8. bindings[h] = Derive(h, Extract(held), now, decisions, pinned)
  BY DEF IInv, Compute
<1>9. /\ Derive(h, Extract(held), now, decisions, pinned) = JudgeView(w, receipts, Extract(held), claims, pinned)
      /\ Derive(h, Extract(full), now, decisions, pinned)
           = JudgeView(v, Receipts(h, Extract(full), decisions), Extract(full), claims, pinned)
  BY DEF Derive, ViewFrom, ConsideredFrom, Extract
<1> QED  BY <1>5, <1>7, <1>8, <1>9

\* PruneExact for every store, clock and decision document: what a device derives after any
\* number of prunes is what it would derive had it pruned nothing, wherever the dominators
\* of the dropped rows count and the dropped items brought nothing but rows (prune.rs:47).
THEOREM PruningIsExact == PrunedSpec => []PruneExact
BY PruneExactStep, PrunedInvariance, FullRemembers, PTL

-----------------------------------------------------------------------------
\* Safety with prunes at any moment.

\* What holds of one device's state in every behaviour without prunes holds with
\* prunes at any moment, on what is left: whatever is dropped, the bindings stay
\* derived, and each of these follows from that alone (prune.rs may lose an answer,
\* and PruneUnobservable shows that it does, but never makes a wrong one).
THEOREM SafetyOutlastsPruning ==
    PrunedSpec => [](/\ TypeOK /\ AcceptedIsAttested /\ RetiredOnlyInDispute /\ MergeRepairs
                     /\ FreshWins /\ DisplacedOnlyByFresh /\ ContestNeedsDispute
                     /\ ResetLeavesNoTrace)
<1>1. IInv /\ HeldFinite =>
         /\ TypeOK /\ AcceptedIsAttested /\ RetiredOnlyInDispute /\ MergeRepairs
         /\ FreshWins /\ DisplacedOnlyByFresh /\ ContestNeedsDispute /\ ResetLeavesNoTrace
  BY AttestedInEveryState, TypedInEveryState, ResetInEveryState, FreshInEveryState,
     ContestInEveryState, DisplacedInEveryState, RetiredInEveryState, MergeInEveryState
<1> QED  BY <1>1, PrunedInvariance, HeldStaysFinite, PTL

\* A prune brings no item and touches neither claims nor pins, so of a step of a device
\* that prunes only those of Next are left to ask about.
LEMMA PrunesBringNothing ==
    ASSUME IInv, [PrunedNext]_prunedVars
    PROVE  \/ [Next]_vars
           \/ /\ UNCHANGED <<targets, decisions>>
              /\ \A i \in Ingestible : ~Ingested(i)
<1>1. CASE Reclaim
  BY <1>1, PruneShrinks DEF Reclaim, Ingested
<1> QED  BY <1>1 DEF PrunedNext, prunedVars, vars

\* What no step of a device may do, none does that prunes at any moment either: an item of
\* another hostname moves nothing here, a claim or a pin never prompts, and a challenger
\* that is neither fresh, nor proved, nor accepted takes nothing over, whatever was dropped
\* before it came (prune.rs leaves no trace of what it drops in the rows that stay).
THEOREM IsolationOutlastsPruning ==
    PrunedSpec => HostsAreIsolated /\ IntroductionsOnlyBadge /\ PendingNeverDisplaces
<1>1. IInv /\ [PrunedNext]_prunedVars =>
         [\A i \in Ingestible, h \in Host :
             Ingested(i) /\ ~Concerns(i, h) => bindings'[h] = bindings[h]]_vars
  BY PrunesBringNothing, IsolatedStep
<1>2. IInv /\ [PrunedNext]_prunedVars =>
         [targets' # targets \/ decisions'.claims # decisions.claims =>
             \A h \in Host : \A e \in HostDiff(bindings[h], bindings'[h]) : ~MayPrompt(e)]_vars
  BY PrunesBringNothing, IntroducedStep
<1>3. IInv /\ HeldFinite /\ Resolutions' /\ [PrunedNext]_prunedVars =>
         [\A i \in Ingestible, h \in Host, doc \in Doc :
             /\ Ingested(i) /\ Bound(bindings[h]) = {doc} /\ Incumbents(h) = {doc}
             /\ \A d \in Doc : <<doc, d>> \notin ProofPairs(Hops(h))
             /\ Challenges(i, h, doc)
             => \/ Bound(bindings'[h]) = {doc}
                \/ bindings'[h].contested /\ Disputed(i, h)]_vars
  BY PrunesBringNothing, ChallengerStep
<1>4. IInv /\ HeldFinite => Resolutions
  BY ResolutionsHold
<1> QED
  BY <1>1, <1>2, <1>3, <1>4, PrunedInvariance, HeldStaysFinite, PTL
     DEF PrunedSpec, HostsAreIsolated, IntroductionsOnlyBadge, PendingNeverDisplaces
=============================================================================
