--------------------------- MODULE VerifierProofs ---------------------------
(***************************************************************************)
(* What holds of one device for every store content, every set of hosts,   *)
(* documents and decisions, and every clock. The bindings are always what  *)
(* derive makes of the other variables; the rest is a walk through derive, *)
(* stage by stage, from a binding back to the rows that made it. The last  *)
(* part is about the two graphs of signed statements, whatever edges they  *)
(* have: what the greedy walks over them (chain_from, find_cycle) find,    *)
(* and what follows when a lineage has no cycle.                           *)
(***************************************************************************)
EXTENDS VerifierSafety, FiniteSetTheorems, TLAPS

-----------------------------------------------------------------------------
\* The ladder is a fair judge: its keys are totally ordered, its verdict does not depend
\* on who stands left, and nothing overrides freshness.

\* What compare may be given: the fields the ladder reads, as integers.
Keyed(r) ==
    /\ r.from \in Int /\ r.end \in Int
    /\ r.serial \in Int /\ r.issued \in Int

\* Zone-state keys are strictly and totally ordered (zone_state_key.rs, the
\* derived Ord): no two keys are each below the other, and two that are not
\* ordered are equal in every part.
THEOREM KeyOrderTotal ==
    ASSUME NEW k, NEW l, Keyed(k), Keyed(l)
    PROVE  /\ ~(KeyLess(k, l) /\ KeyLess(l, k))
           /\ KeyLess(k, l) \/ KeyLess(l, k) \/ SameKey(k, l)
           /\ SameKey(k, l) => ~KeyLess(k, l) /\ ~KeyLess(l, k)
BY DEF Keyed, KeyLess, SameKey

\* Zone-state keys are transitively ordered.
THEOREM KeyOrderTransitive ==
    ASSUME NEW k, NEW l, NEW m, Keyed(k), Keyed(l), Keyed(m),
           KeyLess(k, l), KeyLess(l, m)
    PROVE  KeyLess(k, m)
BY DEF Keyed, KeyLess

-----------------------------------------------------------------------------
\* The signed rung read from the other side.
LEMMA SignedMirror ==
    ASSUME NEW c \in Continuity, c # "Silent"
    PROVE  SignedVerdict(Mirror(c)) = Mirror(SignedVerdict(c))
BY DEF Continuity, SignedVerdict, Mirror

\* The key rung read from the other side.
LEMMA KeyMirror ==
    ASSUME NEW l, NEW r, Keyed(l), Keyed(r)
    PROVE  /\ KeyVerdict(r, l) = Mirror(KeyVerdict(l, r))
           /\ KeyVerdict(l, r) \in {"Equal", "Equivocation", "Left", "Right"}
<1>1. CASE l.doc = r.doc
  <2>1. CASE KeyLess(r, l)
    <3>1. ~KeyLess(l, r) /\ ~SameKey(l, r) /\ ~SameKey(r, l)
      BY <2>1 DEF Keyed, KeyLess, SameKey
    <3>2. KeyVerdict(l, r) = "Left" /\ KeyVerdict(r, l) = "Right"
      BY <1>1, <2>1, <3>1 DEF KeyVerdict
    <3> QED  BY <3>2 DEF Mirror
  <2>2. CASE KeyLess(l, r)
    <3>1. ~KeyLess(r, l) /\ ~SameKey(l, r) /\ ~SameKey(r, l)
      BY <2>2 DEF Keyed, KeyLess, SameKey
    <3>2. KeyVerdict(l, r) = "Right" /\ KeyVerdict(r, l) = "Left"
      BY <1>1, <2>2, <3>1 DEF KeyVerdict
    <3> QED  BY <3>2 DEF Mirror
  <2>3. CASE ~KeyLess(l, r) /\ ~KeyLess(r, l)
    <3>1. SameKey(l, r) /\ SameKey(r, l)
      BY <2>3 DEF Keyed, KeyLess, SameKey
    <3>2. KeyVerdict(l, r) = "Equal" /\ KeyVerdict(r, l) = "Equal"
      BY <1>1, <2>3, <3>1 DEF KeyVerdict
    <3> QED  BY <3>2 DEF Mirror
  <2> QED  BY <2>1, <2>2, <2>3
<1>2. CASE l.doc # r.doc
  <2>1. ~(ZoneLess(l, r) /\ ZoneLess(r, l))
    BY DEF Keyed, ZoneLess
  <2> QED  BY <1>2, <2>1 DEF KeyVerdict, Mirror
<1> QED  BY <1>1, <1>2

\* Swapping the contenders swaps the verdict (ladder.rs, compare): which of two
\* records is newer never depends on which the caller holds, whatever the
\* statements say of them and whatever the clock reads.
THEOREM CompareMirror ==
    ASSUME NEW l, NEW r, Keyed(l), Keyed(r), NEW c \in Continuity, NEW clock
    PROVE  Compare(r, l, Mirror(c), clock) = Mirror(Compare(l, r, c, clock))
<1>1. CASE Fresh(l, clock) # Fresh(r, clock)
  BY <1>1 DEF Compare, Mirror, Fresh
<1>2. CASE Fresh(l, clock) = Fresh(r, clock)
  <2>1. Mirror(c) # "Silent" <=> c # "Silent"
    BY DEF Continuity, Mirror
  <2>2. CASE c # "Silent"
    BY <1>2, <2>1, <2>2, SignedMirror DEF Compare
  <2>3. CASE c = "Silent"
    <3>1. Compare(r, l, Mirror(c), clock) = KeyVerdict(r, l)
      BY <1>2, <2>1, <2>3 DEF Compare
    <3>2. Compare(l, r, c, clock) = KeyVerdict(l, r)
      BY <1>2, <2>3 DEF Compare
    <3> QED  BY <3>1, <3>2, KeyMirror
  <2> QED  BY <2>2, <2>3
<1> QED  BY <1>1, <1>2

\* Freshness is absolute: a record that is fresh beats one that is not, against
\* any statement and any serial (ladder.rs, rung 0), and the reason it can is
\* that, once both windows have begun, the fresh one ends strictly later.
THEOREM FreshIsAbsolute ==
    ASSUME NEW l, NEW r, Keyed(l), Keyed(r), NEW c, NEW clock \in Int,
           Fresh(l, clock), ~Fresh(r, clock)
    PROVE  /\ Compare(l, r, c, clock) = "Left"
           /\ Compare(r, l, c, clock) = "Right"
           /\ Grade(r, clock) # "NotYetBegun" => KeyLess(r, l) /\ ZoneLess(r, l)
<1>1. Compare(l, r, c, clock) = "Left" /\ Compare(r, l, c, clock) = "Right"
  BY DEF Compare
<1>2. ASSUME Grade(r, clock) # "NotYetBegun"
      PROVE  r.end < l.end
  BY <1>2 DEF Keyed, Fresh, Grade
<1> QED  BY <1>1, <1>2 DEF KeyLess, ZoneLess

-----------------------------------------------------------------------------
\* The rows.

\* A well-formed binding row.
RowOK(r) ==
    /\ r.doc \in Nat /\ r.gen \in Nat /\ r.hash \in Nat
    /\ r.from \in Nat /\ r.end \in Nat /\ r.serial \in Nat /\ r.issued \in Nat
    /\ r.att \in {"Certificate", "ChainOnly"}

-----------------------------------------------------------------------------
\* Stage 1.

LEMMA ElementOfSequence ==
    ASSUME NEW S, NEW seq \in Seq(S), NEW n \in DOMAIN seq
    PROVE  seq[n] \in S
OBVIOUS

LEMMA WordOK ==
    ASSUME NEW txt \in Seq([doc : Nat, gen : Nat, serial : Nat]), NEW doc,
           NEW word \in Word(txt, doc)
    PROVE  /\ word \in [doc : Nat, gen : Nat, serial : Nat]
           /\ word.doc = doc
<1>1. PICK n \in DOMAIN txt : word = txt[n] /\ txt[n].doc = doc
  BY DEF Word
<1>2. txt[n] \in [doc : Nat, gen : Nat, serial : Nat]
  BY ElementOfSequence
<1> QED  BY <1>1, <1>2

\* The row of a chain's word is well formed and says what the word says.
LEMMA RowIsOK ==
    ASSUME NEW att \in {"Certificate", "ChainOnly"}, NEW hash \in Nat, NEW host,
           NEW chain \in Chains, NEW issued \in Nat, NEW onPath,
           NEW word \in [doc : Nat, gen : Nat, serial : Nat]
    PROVE  LET r == Row(att, hash, host, chain, word, issued, onPath)
           IN  /\ RowOK(r)
               /\ r.att = att /\ r.hash = hash /\ r.host = host
               /\ r.doc = word.doc /\ r.gen = word.gen
BY DEF Row, RowOK, Chains

LEMMA CertificateRowsOK ==
    ASSUME NEW H \in SUBSET Hash, NEW r \in CertificateRows(H)
    PROVE  /\ RowOK(r) /\ r.hash \in H /\ r.att = "Certificate"
           /\ r \in CertificateRows(Hash)
<1>1. PICK c \in ValidRecords(H) :
         \E word \in Word(Content[c].chain.txt, Content[c].doc) : r = CertificateRow(c, word)
  BY DEF CertificateRows
<1>2. PICK word \in Word(Content[c].chain.txt, Content[c].doc) : r = CertificateRow(c, word)
  BY <1>1
<1>3. c \in H /\ c \in OfKind("Record") /\ c \in ValidRecords(Hash) /\ c \in Nat
  BY ContentAssumption DEF ValidRecords, OfKind, Hash
<1>4. Content[c].chain \in Chains /\ Content[c].issued \in Nat
  BY <1>3, ContentAssumption
<1>5. word \in [doc : Nat, gen : Nat, serial : Nat]
  BY <1>4, WordOK DEF Chains
<1>6. RowOK(r) /\ r.hash = c /\ r.att = "Certificate"
  BY <1>2, <1>3, <1>4, <1>5, RowIsOK DEF CertificateRow
<1>7. r \in CertificateRows(Hash)
  BY <1>2, <1>3 DEF CertificateRows
<1> QED  BY <1>3, <1>6, <1>7

LEMMA RefreshRowsOK ==
    ASSUME NEW H \in SUBSET Hash, NEW r \in RefreshRows(H)
    PROVE  /\ RowOK(r) /\ r.hash \in H /\ r.att = "ChainOnly"
           /\ \E q \in RefreshRows(Hash) : q.doc = r.doc /\ q.gen = r.gen
<1> DEFINE Refreshes(K) == {i \in K : Content[i].kind = "ChainRefresh" /\ Content[i].chain.valid}
           Words(f) == UNION {Word(Content[f].chain.txt, t.doc) :
                  t \in {Content[f].chain.txt[n] : n \in DOMAIN Content[f].chain.txt}}
           R(K, f, word) == Row("ChainOnly", f, Content[f].host, Content[f].chain, word, 0,
                                Vouched(K, Content[f].host, word))
<1>1. \A K : RefreshRows(K) = UNION {{R(K, f, word) : word \in Words(f)} : f \in Refreshes(K)}
  BY DEF RefreshRows
<1>2. PICK f \in Refreshes(H) : \E word \in Words(f) : r = R(H, f, word)
  BY <1>1
<1>3. PICK word \in Words(f) : r = R(H, f, word)
  BY <1>2
<1>4. f \in H /\ f \in OfKind("ChainRefresh") /\ f \in Refreshes(Hash) /\ f \in Nat
  BY ContentAssumption DEF OfKind, Hash
<1>5. Content[f].chain \in Chains
  BY <1>4, ContentAssumption
<1>6. word \in [doc : Nat, gen : Nat, serial : Nat]
  BY <1>3, <1>5, WordOK DEF Chains
<1> HIDE DEF Words, Refreshes
<1>7. \A K : /\ RowOK(R(K, f, word)) /\ R(K, f, word).hash = f
             /\ R(K, f, word).att = "ChainOnly"
             /\ R(K, f, word).doc = word.doc /\ R(K, f, word).gen = word.gen
  BY <1>4, <1>5, <1>6, RowIsOK
<1>8. R(Hash, f, word) \in RefreshRows(Hash)
  BY <1>1, <1>3, <1>4
<1> QED  BY <1>3, <1>4, <1>7, <1>8

LEMMA RowsOK ==
    ASSUME NEW H \in SUBSET Hash, NEW r \in Rows(H)
    PROVE  /\ RowOK(r) /\ r.hash \in H
           /\ \E q \in Rows(Hash) : q.doc = r.doc /\ q.gen = r.gen
BY CertificateRowsOK, RefreshRowsOK DEF Rows

-----------------------------------------------------------------------------
\* The inductive invariant: the inputs are well typed, and the bindings are what
\* derive makes of them.
Inputs ==
    /\ held \subseteq Ingestible
    /\ now \in Nat
    /\ decisions \in [acceptances : [Host -> SUBSET Acceptance],
                      claims      : [Host -> SUBSET Claimed],
                      resets      : [Host -> SUBSET Hash]]
    /\ targets \subseteq Claimed

IInv == Inputs /\ bindings = Compute(held, now, decisions, targets)

LEMMA InitInv == Init => IInv
BY VerifierAssumption DEF Init, IInv, Inputs, NoDecisions

LEMMA NextInv == IInv /\ [Next]_vars => IInv'
<1> SUFFICES ASSUME IInv, [Next]_vars  PROVE IInv'
  OBVIOUS
<1> USE DEF IInv
<1>1. ASSUME NEW i \in Ingestible, Ingest(i)  PROVE IInv'
  BY <1>1 DEF Ingest, Inputs, Recompute
<1>2. CASE Tick
  BY <1>2 DEF Tick, Inputs, Recompute
<1>3. ASSUME NEW h \in Decided, NEW a \in Acceptance, Accept(h, a) \/ MergeAcceptance(h, a)
      PROVE IInv'
  <2>1. h \in Host
    BY VerifierAssumption
  <2>2. decisions'.acceptances \in [Host -> SUBSET Acceptance]
        /\ decisions' = [decisions EXCEPT !.acceptances = decisions'.acceptances]
    BY <1>3, <2>1 DEF Inputs, Accept, MergeAcceptance
  <2>3. Inputs'
    BY <1>3, <2>2 DEF Inputs, Accept, MergeAcceptance
  <2> QED  BY <1>3, <2>3 DEF Accept, MergeAcceptance, Recompute
<1>4. ASSUME NEW h \in Decided, NEW X \in Resettable, Reset(h, X)
      PROVE IInv'
  <2>1. h \in Host /\ X \in SUBSET Hash
    BY VerifierAssumption
  <2>2. decisions'.resets \in [Host -> SUBSET Hash]
        /\ decisions' = [decisions EXCEPT !.resets = decisions'.resets]
    BY <1>4, <2>1 DEF Inputs, Reset
  <2>3. Inputs'
    BY <1>4, <2>2 DEF Inputs, Reset
  <2> QED  BY <1>4, <2>3 DEF Reset, Recompute
<1>5. ASSUME NEW h \in Introduced, NEW d \in Claimed, Claim(h, d)
      PROVE IInv'
  <2>1. h \in Host
    BY VerifierAssumption
  <2>2. decisions'.claims \in [Host -> SUBSET Claimed]
        /\ decisions' = [decisions EXCEPT !.claims = decisions'.claims]
    BY <1>5, <2>1 DEF Inputs, Claim
  <2>3. Inputs'
    BY <1>5, <2>2 DEF Inputs, Claim
  <2> QED  BY <1>5, <2>3 DEF Claim, Recompute
<1>6. ASSUME NEW d \in Claimed, Pin(d) \/ Unpin(d)
      PROVE IInv'
  BY <1>6 DEF Inputs, Pin, Unpin, Recompute
<1>7. CASE UNCHANGED vars
  BY <1>7 DEF vars, Inputs
<1> QED  BY <1>1, <1>2, <1>3, <1>4, <1>5, <1>6, <1>7 DEF Next

\* The bindings are a function of the evidence, the clock, the decisions and the
\* pins, and of nothing else: no history of arrival survives in them.
THEOREM BindingsAreDerived == Spec => []IInv
BY InitInv, NextInv, PTL DEF Spec

-----------------------------------------------------------------------------
\* Stages 2 to 5, backwards: from a best row to the rows that were considered.

LEMMA ConsideredOK ==
    ASSUME NEW rows, NEW host, NEW time, NEW X, NEW r \in Considered(rows, host, time, X)
    PROVE  r \in rows /\ r.host = host /\ r.hash \notin X /\ ~Deferred(r, time)
BY DEF Considered, Corroborated, Open

LEMMA BestOfOK ==
    ASSUME NEW surviving, NEW doc, NEW view, NEW r \in BestOf(surviving, doc, view)
    PROVE  r \in surviving /\ r.doc = doc
BY DEF BestOf, Spellings, Undominated

LEMMA BestRowsOK ==
    ASSUME NEW surviving, NEW view, NEW r \in BestRows(surviving, view)
    PROVE  /\ r \in surviving
           /\ \E c \in Certificates(surviving) : c.doc = r.doc
<1>1. PICK doc \in Candidates(surviving) : r \in BestOf(surviving, doc, view)
  BY DEF BestRows
<1> QED  BY <1>1, BestOfOK DEF Candidates, DocsOf

\* Whatever stages 5 to 8 decide, an accepted binding reads one of the best rows.
LEMMA JudgeReadsBest ==
    ASSUME NEW best, NEW receipts, NEW ev, NEW claims, NEW pinned, NEW view,
           NEW b \in Judge(best, receipts, ev, claims, pinned, view).accepted
    PROVE  \E r \in best : b.doc = r.doc /\ b.gen = r.gen
<1>1. \A docs, contested, incumbent, winner :
         Settle(docs, contested, best, incumbent, winner, view).bound \subseteq best
  BY DEF Settle
<1>2. \A undominated, top :
         ResolveTop(best, undominated, top, view).bound \subseteq best
  BY <1>1 DEF ResolveTop, Resolve
<1>3. ASSUME NEW resolved, NEW losing, resolved.bound \subseteq best,
             b \in ConcludeFrom(resolved, losing, claims, pinned, view).accepted
      PROVE  \E r \in best : b.doc = r.doc /\ b.gen = r.gen
  BY <1>3 DEF ConcludeFrom, Conclude, AcceptedBinding
<1>4. CASE best = {}
  BY <1>1, <1>3, <1>4 DEF Judge, Settle
<1>5. CASE best # {}
  BY <1>2, <1>3, <1>5 DEF Judge
<1> QED  BY <1>4, <1>5

-----------------------------------------------------------------------------
\* The view a hostname's stages 4 to 8 read, in the current state.
ConsideredNow(h) == Considered(Rows(held), h, now, decisions.resets[h])
LineagesNow(h)   == LineageOf(held, decisions, DocsOf(ConsideredNow(h)))
SurvivingNow(h)  == Survivors(ConsideredNow(h), LineagesNow(h), now)

LEMMA AcceptedReadsSurvivor ==
    ASSUME IInv, NEW h \in Host, NEW b \in bindings[h].accepted
    PROVE  \E r \in SurvivingNow(h) :
              /\ b.doc = r.doc /\ b.gen = r.gen
              /\ \E c \in Certificates(SurvivingNow(h)) : c.doc = b.doc
<1> DEFINE view == View(ConsideredNow(h), StatementsFor(h, held, decisions.resets[h]),
                        Extract(held), now, decisions)
<1>1. bindings[h] = JudgeView(view, Receipts(h, Extract(held), decisions), Extract(held),
                              decisions.claims[h], Pins(h, decisions, targets))
  BY DEF IInv, Compute, Derive, ConsideredNow, Extract
<1>2. view.surviving = SurvivingNow(h)
  BY DEF View, ViewOf, SurvivingNow, LineagesNow, Extract
<1> HIDE DEF view
<1>3. PICK r \in BestRows(view.surviving, view) : b.doc = r.doc /\ b.gen = r.gen
  BY <1>1, JudgeReadsBest DEF JudgeView
<1> QED  BY <1>2, <1>3, BestRowsOK

LEMMA SurvivorSpeaks ==
    ASSUME IInv, NEW h \in Host, NEW r \in SurvivingNow(h)
    PROVE  /\ r \in Speaking(h) /\ RowOK(r)
           /\ Fresh(r, now) => r.onPath
           /\ r.gen \in Protected(InForce(r.doc)) => Fresh(r, now)
<1>1. r \in ConsideredNow(h) /\ r \in Survivors(ConsideredNow(h), LineagesNow(h), now)
  BY DEF SurvivingNow, Survivors
<1>2. r \in Rows(held) /\ r.host = h /\ r.hash \notin decisions.resets[h] /\ ~Deferred(r, now)
  BY <1>1, ConsideredOK DEF ConsideredNow
<1>3. RowOK(r)
  BY <1>2, RowsOK, VerifierAssumption DEF IInv, Inputs
<1>4. r.from <= now /\ r.serial <= now + Skew
  BY <1>2, <1>3, ContentAssumption DEF RowOK, Deferred, Grade, IInv, Inputs
<1>5. r \in Speaking(h)
  BY <1>2, <1>4 DEF Speaking
<1>6. r.doc \in DocsOf(ConsideredNow(h))
  BY <1>1 DEF DocsOf
<1>7. LineagesNow(h)[r.doc].protected = Protected(InForce(r.doc))
  BY <1>6 DEF LineagesNow, LineageOf, LineageView, InForce
<1>8. /\ Fresh(r, now) => r.onPath
      /\ r.gen \in LineagesNow(h)[r.doc].protected => Fresh(r, now)
  BY <1>1 DEF Survivors, OffPath, Retired
<1> QED  BY <1>3, <1>5, <1>7, <1>8

\* Where the bindings are derived, AcceptedIsAttested holds: the argument of the
\* theorem after it.
LEMMA AttestedInEveryState == IInv => AcceptedIsAttested
<1> SUFFICES ASSUME IInv, NEW h \in Host, NEW b \in bindings[h].accepted
             PROVE  /\ \E c \in Certificates(Speaking(h)) : c.doc = b.doc /\ Stands(c)
                    /\ \E r \in Speaking(h) : r.doc = b.doc /\ r.gen = b.gen
  BY DEF AcceptedIsAttested
<1>1. PICK r \in SurvivingNow(h) :
         /\ b.doc = r.doc /\ b.gen = r.gen
         /\ \E c \in Certificates(SurvivingNow(h)) : c.doc = b.doc
  BY AcceptedReadsSurvivor
<1>2. PICK c \in Certificates(SurvivingNow(h)) : c.doc = b.doc
  BY <1>1
<1>3. c \in SurvivingNow(h) /\ c.att = "Certificate"
  BY DEF Certificates
<1>4. c \in Certificates(Speaking(h)) /\ Stands(c)
  BY <1>3, SurvivorSpeaks DEF Certificates, Stands
<1> QED  BY <1>1, <1>2, <1>4, SurvivorSpeaks

\* An accepted binding always has a held, unreset, undeferred certificate of its
\* document behind it, that is not fresh off its delegation path nor stale on a
\* settled, retired generation; and some row that counts attests its generation.
\* So no bare refresh, however fresh, ever makes a binding (state.rs,
\* resolve_document: candidates are documents of surviving certificates).
THEOREM AcceptedIsAlwaysAttested == Spec => []AcceptedIsAttested
BY AttestedInEveryState, BindingsAreDerived, PTL

-----------------------------------------------------------------------------
\* An Option holds at most one value.
AtMostOne(S) == \A x, y \in S : x = y

LEMMA OptionIsAtMostOne ==
    ASSUME NEW S, AtMostOne(S)  PROVE IsOption(S)
BY DEF AtMostOne, IsOption, IsSingle

\* The greatest row is unique: RowLess never holds both ways.
LEMMA BestOfUnique ==
    ASSUME NEW surviving, NEW view, NEW doc, \A r \in surviving : RowOK(r)
    PROVE  AtMostOne(BestOf(surviving, doc, view))
<1>1. CASE Settles(surviving, doc, view)
  BY <1>1 DEF Settles, IsSingle, BestOf, AtMostOne
<1>2. CASE ~Settles(surviving, doc, view)
  <2>1. ASSUME NEW l \in BestOf(surviving, doc, view), NEW r \in BestOf(surviving, doc, view),
               l # r
        PROVE  FALSE
    <3>1. RowLess(l, r) /\ RowLess(r, l)
      BY <1>2, <2>1 DEF BestOf
    <3>2. RowOK(l) /\ RowOK(r)
      BY BestOfOK
    <3> QED  BY <3>1, <3>2 DEF RowLess, KeyLess, SameKey, RowOK
  <2> QED  BY <2>1 DEF AtMostOne
<1> QED  BY <1>1, <1>2

LEMMA BestRowsUnique ==
    ASSUME NEW surviving, NEW view, \A r \in surviving : RowOK(r),
           NEW l \in BestRows(surviving, view), NEW r \in BestRows(surviving, view),
           l.doc = r.doc
    PROVE  l = r
<1>1. l \in BestOf(surviving, l.doc, view) /\ r \in BestOf(surviving, l.doc, view)
  BY BestOfOK DEF BestRows
<1> QED  BY <1>1, BestOfUnique DEF AtMostOne

\* One document at most resolves, whatever wins.
LEMMA ResolvesOneDoc ==
    ASSUME NEW best, \A r \in best : r.doc \in Nat,
           NEW undominated \in SUBSET best, NEW winner, AtMostOne(winner),
           NEW contested, NEW view
    PROVE  LET maximal   == Maximal(best, undominated)
               incumbent == Incumbent(winner, maximal, view)
           IN  AtMostOne(AcceptedDoc(maximal, incumbent, contested, view))
<1> DEFINE maximal == Maximal(best, undominated)
<1>1. AtMostOne(DocsOf(maximal))
  <2>1. \A l, r \in maximal : l.doc \in Nat /\ r.doc \in Nat /\ l.doc <= r.doc /\ r.doc <= l.doc
    BY DEF Maximal, FirstByDoc
  <2>2. \A l, r \in maximal : l.doc = r.doc
    BY <2>1
  <2> QED  BY <2>2 DEF AtMostOne, DocsOf
<1> HIDE DEF maximal
<1>2. AtMostOne(Incumbent(winner, maximal, view))
  BY <1>1 DEF Incumbent, AtMostOne
<1>3. AtMostOne(AcceptedDoc(maximal, Incumbent(winner, maximal, view), contested, view))
  BY <1>1, <1>2 DEF AcceptedDoc
<1> QED  BY <1>3 DEF maximal

\* What stages 5 to 8 hand out, for best rows that are one per document.
Judged(out, best) ==
    /\ AtMostOne(out.accepted) /\ AtMostOne(out.serial)
    /\ out.serial \subseteq {r.serial : r \in best}
    /\ \A b \in out.accepted :
          /\ \E r \in best : b.doc = r.doc /\ b.gen = r.gen
          /\ b = [doc |-> b.doc, gen |-> b.gen, grade |-> b.grade, continuity |-> b.continuity]
          /\ b.grade \in {"Confirmed", "Provisional"}
          /\ b.continuity \in {"Unmoved", "Proven", "Bridged", "Unproven"}
    /\ out.contested \in BOOLEAN
    /\ out.pending \subseteq DocsOf(best)

LEMMA AcceptedBindingOK ==
    ASSUME NEW r, NEW winner, NEW view
    PROVE  LET b == AcceptedBinding(r, ContinuityGrade(winner, r.doc, view), view)
           IN  /\ b.doc = r.doc /\ b.gen = r.gen
               /\ b = [doc |-> b.doc, gen |-> b.gen, grade |-> b.grade, continuity |-> b.continuity]
               /\ b.grade \in {"Confirmed", "Provisional"}
               /\ b.continuity \in {"Unmoved", "Proven", "Bridged", "Unproven"}
<1>1. ContinuityGrade(winner, r.doc, view) \in {"Unmoved", "Proven", "Bridged", "Unproven"}
  BY DEF ContinuityGrade, ContinuityAlong
<1>2. \A c : Grading(r.doc, c, view) \in {"Confirmed", "Provisional"}
  BY DEF Grading
<1> QED  BY <1>1, <1>2 DEF AcceptedBinding

LEMMA ConcludesWell ==
    ASSUME NEW best, NEW resolved, AtMostOne(resolved.bound), resolved.bound \subseteq best,
           resolved.contested \in BOOLEAN, resolved.pending \subseteq DocsOf(best),
           NEW losing, NEW claims, NEW pinned, NEW view
    PROVE  Judged(ConcludeFrom(resolved, losing, claims, pinned, view), best)
<1> DEFINE masked == Masked(resolved, view)
           shown  == IF masked THEN {} ELSE resolved.bound
           out    == Conclude(resolved, masked, losing, claims, pinned, view)
<1>1. AtMostOne(shown) /\ shown \subseteq best
  BY DEF AtMostOne
<1>2. masked \in BOOLEAN
  BY DEF Masked
<1> HIDE DEF masked
<1>3. /\ out.accepted = {AcceptedBinding(r, ContinuityGrade(resolved.winner, r.doc, view), view) :
                            r \in shown}
      /\ out.serial = {r.serial : r \in shown}
      /\ out.contested = masked /\ out.pending = resolved.pending
  BY DEF Conclude
<1> HIDE DEF shown, out
<1>4. /\ AtMostOne(out.accepted) /\ AtMostOne(out.serial)
      /\ out.serial \subseteq {r.serial : r \in best}
  BY <1>1, <1>3 DEF AtMostOne
<1>5. ASSUME NEW b \in out.accepted
      PROVE  /\ \E r \in best : b.doc = r.doc /\ b.gen = r.gen
             /\ b = [doc |-> b.doc, gen |-> b.gen, grade |-> b.grade, continuity |-> b.continuity]
             /\ b.grade \in {"Confirmed", "Provisional"}
             /\ b.continuity \in {"Unmoved", "Proven", "Bridged", "Unproven"}
  <2>1. PICK r \in shown :
           b = AcceptedBinding(r, ContinuityGrade(resolved.winner, r.doc, view), view)
    BY <1>3, <1>5
  <2> QED  BY <1>1, <2>1, AcceptedBindingOK
<1>6. Judged(out, best)
  BY <1>2, <1>3, <1>4, <1>5 DEF Judged
<1> QED  BY <1>6 DEF ConcludeFrom, masked, out

LEMMA JudgesWell ==
    ASSUME NEW best, \A r \in best : r.doc \in Nat, \A l, r \in best : l.doc = r.doc => l = r,
           NEW receipts, NEW ev, NEW claims, NEW pinned, NEW view
    PROVE  Judged(Judge(best, receipts, ev, claims, pinned, view), best)
<1>1. \A docs, contested, incumbent, winner, some :
         LET s == Settle(docs, contested, some, incumbent, winner, view)
         IN  /\ s.bound = {r \in some : r.doc \in docs}
             /\ s.contested = contested
             /\ s.pending \subseteq DocsOf(some)
  BY DEF Settle, PendingDocs, DocsOf
<1>2. CASE best = {}
  <2> DEFINE s == Settle({}, FALSE, {}, {}, {}, view)
  <2>1. s.bound = {} /\ s.contested = FALSE /\ s.pending = PendingDocs({}, {}, {}, view)
    BY DEF Settle
  <2>2. PendingDocs({}, {}, {}, view) = {}
    BY DEF PendingDocs, DocsOf
  <2> HIDE DEF s
  <2>3. AtMostOne(s.bound) /\ s.bound \subseteq best /\ s.contested \in BOOLEAN
        /\ s.pending \subseteq DocsOf(best)
    BY <2>1, <2>2 DEF AtMostOne
  <2>4. Judged(ConcludeFrom(s, {}, claims, pinned, view), best)
    BY <2>3, ConcludesWell
  <2> QED  BY <1>2, <2>4 DEF Judge, s
<1>3. CASE best # {}
  <2> DEFINE und == Undominated(best, view)
             top == TopDocs(receipts, ev.rows)
             max == Maximal(best, und)
             inc == Incumbent(Winner(top), max, view)
             con == \/ \E d, e \in top : d # e
                    \/ \E doc \in DocsOf(best) : ~Settles(view.surviving, doc, view)
                    \/ DocumentContest(und, Winner(top), inc, view)
             docs == AcceptedDoc(max, inc, con, view)
             s   == Settle(docs, con, best, inc, Winner(top), view)
  <2>1. und \in SUBSET best
    BY DEF Undominated
  <2>2. AtMostOne(Winner(top))
    BY DEF Winner, AtMostOne
  <2>3. AtMostOne(docs)
    BY <2>1, <2>2, ResolvesOneDoc
  <2>4. con \in BOOLEAN
    OBVIOUS
  <2>5. ResolveTop(best, und, top, view) = s
    BY DEF ResolveTop, Resolve
  <2>6. Judge(best, receipts, ev, claims, pinned, view)
          = ConcludeFrom(s, LosingDocs(receipts, ev.rows), claims, pinned, view)
    BY <1>3, <2>5 DEF Judge
  <2> HIDE DEF und, top, max, inc, con, docs
  <2>7. AtMostOne(s.bound) /\ s.bound \subseteq best /\ s.contested \in BOOLEAN
        /\ s.pending \subseteq DocsOf(best)
    BY <1>1, <2>3, <2>4 DEF AtMostOne
  <2> HIDE DEF s
  <2> QED  BY <2>6, <2>7, ConcludesWell
<1> QED  BY <1>2, <1>3

\* All of the above for a hostname in the current state.
LEMMA BindingsJudged ==
    ASSUME IInv, NEW h \in Host
    PROVE  \E best \in SUBSET SurvivingNow(h) : Judged(bindings[h], best)
<1> DEFINE view == View(ConsideredNow(h), StatementsFor(h, held, decisions.resets[h]),
                        Extract(held), now, decisions)
           best == BestRows(view.surviving, view)
<1>1. bindings[h] = Judge(best, Receipts(h, Extract(held), decisions), Extract(held),
                          decisions.claims[h], Pins(h, decisions, targets), view)
  BY DEF IInv, Compute, Derive, JudgeView, ConsideredNow, Extract
<1>2. view.surviving = SurvivingNow(h)
  BY DEF View, ViewOf, SurvivingNow, LineagesNow, Extract
<1> HIDE DEF view
<1>3. best \subseteq SurvivingNow(h)
  BY <1>2, BestRowsOK
<1>4. \A l, r \in best : l.doc = r.doc => l = r
  BY <1>2, SurvivorSpeaks, BestRowsUnique
<1> HIDE DEF best
<1>5. \A r \in best : r.doc \in Nat
  BY <1>3, SurvivorSpeaks DEF RowOK
<1> QED  BY <1>1, <1>3, <1>4, <1>5, JudgesWell

\* Where the bindings are derived, TypeOK holds: the argument of the
\* theorem after it.
LEMMA TypedInEveryState == IInv => TypeOK
<1> SUFFICES ASSUME IInv  PROVE TypeOK
  OBVIOUS
<1>1. DOMAIN bindings = Host
  BY DEF IInv, Compute
<1>2. ASSUME NEW h \in Host
      PROVE  /\ IsOption(bindings[h].accepted) /\ IsOption(bindings[h].serial)
             /\ bindings[h].accepted \subseteq BindingType
             /\ bindings[h].contested \in BOOLEAN
             /\ bindings[h].pending \subseteq Doc
  <2>1. PICK best \in SUBSET SurvivingNow(h) : Judged(bindings[h], best)
    BY BindingsJudged
  <2>2. \A r \in best : r.doc \in Doc /\ r.gen \in Gens
    <3> TAKE r \in best
    <3>1. r \in Rows(held)
      BY SurvivorSpeaks DEF Speaking
    <3>2. PICK q \in Rows(Hash) : q.doc = r.doc /\ q.gen = r.gen
      BY <3>1, RowsOK, VerifierAssumption DEF IInv, Inputs
    <3> QED  BY <3>2, VerifierAssumption DEF Gens
  <2>3. bindings[h].accepted \subseteq BindingType
    BY <2>1, <2>2 DEF Judged, BindingType
  <2>4. bindings[h].pending \subseteq Doc
    BY <2>1, <2>2 DEF Judged, DocsOf
  <2> QED  BY <2>1, <2>3, <2>4, OptionIsAtMostOne DEF Judged
<1> QED  BY <1>1, <1>2 DEF TypeOK, IInv, Inputs

\* The state is well typed, and each derived binding is an Option of a document
\* and generation that evidence named: two rows never both bind a hostname
\* (binding_state.rs: HostState.accepted is an Option).
THEOREM TypeCorrect == Spec => []TypeOK
BY TypedInEveryState, BindingsAreDerived, PTL

-----------------------------------------------------------------------------
\* The fields that the prompting events compare, and the contest.
SameVerdict(after, before) ==
    /\ after.accepted = before.accepted /\ after.contested = before.contested
    /\ after.serial = before.serial /\ after.forks = before.forks
    /\ after.successionForks = before.successionForks

LEMMA ConcludesAlike ==
    ASSUME NEW resolved, NEW masked, NEW losing, NEW view, NEW c, NEW d, NEW m, NEW n
    PROVE  SameVerdict(Conclude(resolved, masked, losing, c, m, view),
                       Conclude(resolved, masked, losing, d, n, view))
BY DEF Conclude, SameVerdict

\* Claims and pins reach the output through the divergence badges alone.
LEMMA IntroductionsDoNotDecide ==
    ASSUME NEW host, NEW ev, NEW time, NEW dec, NEW dec2, NEW p, NEW q,
           dec2.resets = dec.resets, dec2.acceptances = dec.acceptances
    PROVE  SameVerdict(Derive(host, ev, time, dec2, q), Derive(host, ev, time, dec, p))
<1> DEFINE X == dec.resets[host]
           view == View(Considered(ev.rows, host, time, X), StatementsFor(host, ev.held, X),
                        ev, time, dec)
           best == BestRows(view.surviving, view)
           receipts == Receipts(host, ev, dec)
           out(claims, pinned) == Judge(best, receipts, ev, claims, pinned, view)
<1>1. \A docs : LineageOf(ev.held, dec2, docs) = LineageOf(ev.held, dec, docs)
  BY DEF LineageOf, Edges, EveryReset
<1>2. View(Considered(ev.rows, host, time, X), StatementsFor(host, ev.held, X), ev, time, dec2)
        = view
  BY <1>1 DEF View
<1>3. Receipts(host, ev, dec2) = receipts
  BY DEF Receipts
<1>4. /\ Derive(host, ev, time, dec, p) = out(dec.claims[host], p)
      /\ Derive(host, ev, time, dec2, q) = out(dec2.claims[host], q)
  BY <1>2, <1>3 DEF Derive, JudgeView
<1> HIDE DEF X, view, best, receipts
<1> DEFINE resolved == IF best = {} THEN Settle({}, FALSE, {}, {}, {}, view)
                       ELSE ResolveTop(best, Undominated(best, view),
                                       TopDocs(receipts, ev.rows), view)
           losing == IF best = {} THEN {} ELSE LosingDocs(receipts, ev.rows)
<1>5. \A c, m : out(c, m) = ConcludeFrom(resolved, losing, c, m, view)
  BY DEF Judge
<1> HIDE DEF out, resolved, losing
<1>6. \A c, d, m, n : SameVerdict(ConcludeFrom(resolved, losing, c, m, view),
                                  ConcludeFrom(resolved, losing, d, n, view))
  BY ConcludesAlike DEF ConcludeFrom
<1>7. SameVerdict(out(dec2.claims[host], q), out(dec.claims[host], p))
  BY <1>5, <1>6
<1> QED  BY <1>4, <1>7 DEF SameVerdict

\* The prompting events compare just these fields.
LEMMA SameFieldsDoNotPrompt ==
    ASSUME NEW before, NEW after, AtMostOne(before.serial), before.serial \subseteq Int,
           after.accepted = before.accepted, after.serial = before.serial,
           after.forks = before.forks, after.successionForks = before.successionForks,
           NEW e \in HostDiff(before, after)
    PROVE  ~MayPrompt(e)
<1>1. Bound(after) = Bound(before)
  BY DEF Bound
<1>2. \A old \in before.serial, new \in after.serial : ~(new < old)
  BY DEF AtMostOne
<1>3. e \in UNION {
         When(SameBinding(before, after)
                /\ \E b \in before.accepted, c \in after.accepted : b.grade # c.grade,
              "GradeChanged"),
         When(~before.contested /\ after.contested, "ContestedEntered"),
         When(before.contested /\ ~after.contested, "ContestedCleared"),
         Appeared("PendingSurfaced", before.pending, after.pending),
         Appeared("PendingCleared", after.pending, before.pending),
         Appeared("LosingAcceptanceSurfaced", before.losing, after.losing),
         Appeared("LosingAcceptanceCleared", after.losing, before.losing),
         Appeared("DivergenceSurfaced", before.divergence, after.divergence),
         Appeared("DivergenceCleared", after.divergence, before.divergence)}
  BY <1>1, <1>2 DEF HostDiff, When, Appeared
<1>4. e[1] \in {"GradeChanged", "ContestedEntered", "ContestedCleared", "PendingSurfaced",
                "PendingCleared", "LosingAcceptanceSurfaced", "LosingAcceptanceCleared",
                "DivergenceSurfaced", "DivergenceCleared"}
  BY <1>3 DEF When, Appeared
<1> QED  BY <1>4 DEF MayPrompt

\* A claim or a pin causes no event that may prompt.
LEMMA IntroducedStep ==
    ASSUME IInv, [Next]_vars
    PROVE  [targets' # targets \/ decisions'.claims # decisions.claims =>
               \A h \in Host : \A e \in HostDiff(bindings[h], bindings'[h]) : ~MayPrompt(e)]_vars
<1> DEFINE Introduced_(h) == \A e \in HostDiff(bindings[h], bindings'[h]) : ~MayPrompt(e)
<1>1. ASSUME Next, targets' # targets \/ decisions'.claims # decisions.claims
      PROVE  \A h \in Host : Introduced_(h)
  <2>1. /\ UNCHANGED <<held, now>> /\ Recompute
        /\ decisions'.resets = decisions.resets /\ decisions'.acceptances = decisions.acceptances
    BY <1>1 DEF IInv, Inputs, Next, Ingest, Tick, Accept, MergeAcceptance, Reset, Claim,
                Pin, Unpin
  <2> TAKE h \in Host
  <2>2. /\ bindings[h] = Derive(h, Extract(held), now, decisions, Pins(h, decisions, targets))
        /\ bindings'[h] = Derive(h, Extract(held), now, decisions', Pins(h, decisions', targets'))
    BY <1>1, <2>1 DEF IInv, Recompute, Compute
  <2>3. /\ bindings'[h].accepted = bindings[h].accepted
        /\ bindings'[h].serial = bindings[h].serial
        /\ bindings'[h].forks = bindings[h].forks
        /\ bindings'[h].successionForks = bindings[h].successionForks
    BY <2>1, <2>2, IntroductionsDoNotDecide DEF SameVerdict
  <2>4. PICK best \in SUBSET SurvivingNow(h) : Judged(bindings[h], best)
    BY <1>1, BindingsJudged
  <2>5. AtMostOne(bindings[h].serial) /\ bindings[h].serial \subseteq Int
    BY <1>1, <2>4, SurvivorSpeaks DEF Judged, RowOK
  <2> QED  BY <2>3, <2>5, SameFieldsDoNotPrompt
<1> QED  BY <1>1

\* Introductions never interrupt the user: whatever claims are written and pins
\* moved, for whatever evidence and decisions, at most badges change
\* (binding-cache: claims MUST NOT affect acceptance).
THEOREM IntroductionsNeverPrompt == Spec => IntroductionsOnlyBadge
<1>1. IInv /\ [Next]_vars =>
        [targets' # targets \/ decisions'.claims # decisions.claims =>
            \A h \in Host : \A e \in HostDiff(bindings[h], bindings'[h]) : ~MayPrompt(e)]_vars
  BY IntroducedStep
<1> QED  BY <1>1, BindingsAreDerived, PTL DEF Spec, IntroductionsOnlyBadge

\* The rows a hostname may read, deferred ones included.
Readable(H, h, X) == {r \in Rows(H) : r.host = h /\ r.hash \notin X}

-----------------------------------------------------------------------------
\* The rows of a hostname.

\* A row says on its face which item it is, and of which hostname.
LEMMA RowsNameTheirItem ==
    ASSUME NEW H \in SUBSET Hash, NEW r \in Rows(H)
    PROVE  /\ r.hash \in H /\ r.host = Content[r.hash].host
           /\ r.hash \in OfKind("Record") \cup OfKind("ChainRefresh")
<1>1. ASSUME NEW c \in ValidRecords(H), NEW word, r = CertificateRow(c, word)
      PROVE  r.hash = c /\ r.host = Content[c].host /\ c \in H /\ c \in OfKind("Record")
  BY <1>1 DEF CertificateRow, Row, ValidRecords, OfKind, Hash
<1>2. ASSUME NEW f \in {i \in H : Content[i].kind = "ChainRefresh" /\ Content[i].chain.valid},
             NEW word, NEW onPath,
             r = Row("ChainOnly", f, Content[f].host, Content[f].chain, word, 0, onPath)
      PROVE  r.hash = f /\ r.host = Content[f].host /\ f \in H /\ f \in OfKind("ChainRefresh")
  BY <1>2 DEF Row, OfKind, Hash
<1>3. CASE r \in CertificateRows(H)
  BY <1>1, <1>3 DEF CertificateRows
<1>4. CASE r \in RefreshRows(H)
  BY <1>2, <1>4 DEF RefreshRows
<1> QED  BY <1>3, <1>4 DEF Rows

\* A certificate's row depends on the certificate alone.
LEMMA CertificateRowsElsewhere ==
    ASSUME NEW H \in SUBSET Hash, NEW K \in SUBSET Hash,
           NEW r \in CertificateRows(H), r.hash \in K
    PROVE  r \in CertificateRows(K)
<1>1. PICK c \in ValidRecords(H) :
         \E word \in Word(Content[c].chain.txt, Content[c].doc) : r = CertificateRow(c, word)
  BY DEF CertificateRows
<1>2. r.hash = c
  BY <1>1 DEF CertificateRow, Row
<1>3. c \in ValidRecords(K)
  BY <1>2 DEF ValidRecords
<1> QED  BY <1>1, <1>3 DEF CertificateRows

\* A refresh's row depends, beside the refresh, on who vouches for its word.
LEMMA RefreshRowsElsewhere ==
    ASSUME NEW H \in SUBSET Hash, NEW r \in RefreshRows(H)
    PROVE  /\ r.onPath = Vouched(H, r.host, r)
           /\ \A K \in SUBSET Hash :
                 r.hash \in K =>
                    [r EXCEPT !.onPath = Vouched(K, r.host, r)] \in RefreshRows(K)
<1> DEFINE Words(f) == UNION {Word(Content[f].chain.txt, t.doc) :
                  t \in {Content[f].chain.txt[n] : n \in DOMAIN Content[f].chain.txt}}
           Refreshes(L) == {i \in L : Content[i].kind = "ChainRefresh" /\ Content[i].chain.valid}
           R(L, f, word) == Row("ChainOnly", f, Content[f].host, Content[f].chain, word, 0,
                                Vouched(L, Content[f].host, word))
<1>1. PICK f \in Refreshes(H) : \E word \in Words(f) : r = R(H, f, word)
  BY DEF RefreshRows
<1>2. PICK word \in Words(f) : r = R(H, f, word)
  BY <1>1
<1>3. /\ r.hash = f /\ r.host = Content[f].host /\ r.doc = word.doc /\ r.gen = word.gen
      /\ r.onPath = Vouched(H, Content[f].host, word)
  BY <1>2 DEF Row
<1>4. \A L : Vouched(L, r.host, r) = Vouched(L, Content[f].host, word)
  BY <1>3 DEF Vouched
<1>5. ASSUME NEW K \in SUBSET Hash, f \in K
      PROVE  [r EXCEPT !.onPath = Vouched(K, r.host, r)] \in RefreshRows(K)
  <2>1. f \in Refreshes(K)
    BY <1>5
  <2>2. R(K, f, word) = [r EXCEPT !.onPath = Vouched(K, Content[f].host, word)]
    BY <1>2 DEF Row
  <2>3. RefreshRows(K) = UNION {{R(K, g, w) : w \in Words(g)} : g \in Refreshes(K)}
    BY DEF RefreshRows
  <2> HIDE DEF Words, Refreshes, R
  <2> QED  BY <1>2, <1>4, <2>1, <2>2, <2>3
<1> QED  BY <1>3, <1>4, <1>5

\* The same, where the same certificates vouch.
LEMMA RefreshRowsVouchedAlike ==
    ASSUME NEW H \in SUBSET Hash, NEW K \in SUBSET Hash,
           NEW r \in RefreshRows(H), r.hash \in K,
           Vouched(H, r.host, r) = Vouched(K, r.host, r)
    PROVE  r \in RefreshRows(K)
<1>1. \E onPath : r = [r EXCEPT !.onPath = onPath]
  BY DEF RefreshRows, Row
<1>2. r = [r EXCEPT !.onPath = r.onPath]
  BY <1>1
<1> QED  BY <1>2, RefreshRowsElsewhere

\* Adding or removing items of other hostnames leaves a hostname's rows alone.
LEMMA RowsOfOtherHosts ==
    ASSUME NEW H \in SUBSET Hash, NEW K \in SUBSET Hash, NEW h, NEW X,
           \A j \in OfKind("Record") \cup OfKind("ChainRefresh") :
               Content[j].host = h => (j \in H <=> j \in K)
    PROVE  Readable(H, h, X) \subseteq Readable(K, h, X)
<1> SUFFICES ASSUME NEW r \in Rows(H), r.host = h  PROVE r \in Rows(K)
  BY DEF Readable
<1>1. r.hash \in K
  BY RowsNameTheirItem
<1>2. CASE r \in CertificateRows(H)
  BY <1>1, <1>2, CertificateRowsElsewhere DEF Rows
<1>3. CASE r \in RefreshRows(H)
  <2>1. \A c : Content[c].host = h => (c \in ValidRecords(H) <=> c \in ValidRecords(K))
    BY DEF ValidRecords, OfKind, Hash
  <2>2. Vouched(H, h, r) = Vouched(K, h, r)
    BY <2>1 DEF Vouched
  <2> QED  BY <1>1, <1>3, <2>2, RefreshRowsVouchedAlike DEF Rows
<1> QED  BY <1>2, <1>3 DEF Rows

-----------------------------------------------------------------------------
\* Reading the same rows and statements, a hostname derives the same.

LEMMA SameReadableConsidered ==
    ASSUME NEW H, NEW K, NEW h, NEW X, NEW time, Readable(H, h, X) = Readable(K, h, X)
    PROVE  Considered(Rows(H), h, time, X) = Considered(Rows(K), h, time, X)
<1>1. \A L : Open(Rows(L), h, time, X) = {r \in Readable(L, h, X) : ~Deferred(r, time)}
  BY DEF Open, Readable
<1> QED  BY <1>1 DEF Considered

\* An acceptance is evaluable on the rows its own hostname reads, or not at all.
LEMMA SameReadableEvaluable ==
    ASSUME NEW H \in SUBSET Hash, NEW K \in SUBSET Hash, NEW h, NEW X,
           Readable(H, h, X) = Readable(K, h, X),
           NEW a, Evaluable(a, h, Extract(H), X)
    PROVE  /\ Evaluable(a, h, Extract(K), X)
           /\ CitedRows(a, Rows(K)) = CitedRows(a, Rows(H))
<1>1. /\ a.cited \cap X = {}
      /\ \A hash \in a.cited : \E r \in Rows(H) : r.hash = hash
      /\ \A r \in CitedRows(a, Rows(H)) : r.host = h
      /\ a.doc \in DocsOf(CitedRows(a, Rows(H)))
  BY DEF Evaluable, Extract
<1>2. \A hash \in a.cited : \E r \in Readable(H, h, X) : r.hash = hash
  BY <1>1 DEF CitedRows, Readable
<1>3. \A hash \in a.cited : hash \in K /\ \E r \in Rows(K) : r.hash = hash
  BY <1>2, RowsNameTheirItem DEF Readable
<1>4. \A r \in CitedRows(a, Rows(K)) : r.host = h
  <2> TAKE r \in CitedRows(a, Rows(K))
  <2>1. r \in Rows(K) /\ r.hash \in a.cited
    BY DEF CitedRows
  <2>2. PICK q \in Readable(H, h, X) : q.hash = r.hash
    BY <1>2, <2>1
  <2>3. q \in Rows(H) /\ q.host = h
    BY DEF Readable
  <2> QED  BY <2>1, <2>2, <2>3, RowsNameTheirItem
<1>5. \A L : (\A r \in CitedRows(a, Rows(L)) : r.host = h) =>
                CitedRows(a, Rows(L)) = {r \in Readable(L, h, X) : r.hash \in a.cited}
  BY <1>1 DEF CitedRows, Readable
<1>6. CitedRows(a, Rows(K)) = CitedRows(a, Rows(H))
  BY <1>1, <1>4, <1>5
<1> QED  BY <1>1, <1>3, <1>4, <1>6 DEF Evaluable, Extract

\* Everything derive_host reads of the store.
LEMMA SameReadingSameDerivation ==
    ASSUME NEW H \in SUBSET Hash, NEW K \in SUBSET Hash, NEW h, NEW time, NEW dec, NEW p,
           Readable(H, h, dec.resets[h]) = Readable(K, h, dec.resets[h]),
           StatementsFor(h, H, dec.resets[h]) = StatementsFor(h, K, dec.resets[h]),
           Unexcluded(H, "Rotation", EveryReset(dec)) = Unexcluded(K, "Rotation", EveryReset(dec))
    PROVE  Derive(h, Extract(H), time, dec, p) = Derive(h, Extract(K), time, dec, p)
<1> DEFINE X == dec.resets[h]
           considered == Considered(Rows(H), h, time, X)
           statements == StatementsFor(h, H, X)
           receipts   == Receipts(h, Extract(H), dec)
<1>1. Considered(Rows(K), h, time, X) = considered
  BY SameReadableConsidered
<1>2. \A docs : LineageOf(K, dec, docs) = LineageOf(H, dec, docs)
  BY DEF LineageOf, Edges
<1>3. Receipts(h, Extract(K), dec) = receipts
  BY SameReadableEvaluable DEF Receipts
<1>4. \A a \in receipts : CitedRows(a, Rows(K)) = CitedRows(a, Rows(H))
  BY SameReadableEvaluable DEF Receipts
<1>5. TopDocs(receipts, Rows(K)) = TopDocs(receipts, Rows(H))
  <2>1. \A a, b \in receipts : Outranks(b, a, Rows(K)) = Outranks(b, a, Rows(H))
    BY <1>4 DEF Outranks
  <2>2. {a \in receipts : \A b \in receipts : ~Outranks(b, a, Rows(K))}
          = {a \in receipts : \A b \in receipts : ~Outranks(b, a, Rows(H))}
    BY <2>1
  <2> QED  BY <2>2 DEF TopDocs
<1>6. LosingDocs(receipts, Rows(K)) = LosingDocs(receipts, Rows(H))
  BY <1>5 DEF LosingDocs
<1>7. View(considered, statements, Extract(K), time, dec)
        = View(considered, statements, Extract(H), time, dec)
  BY <1>2 DEF View, Extract
<1> HIDE DEF considered, statements, receipts
<1>8. \A view : JudgeView(view, receipts, Extract(K), dec.claims[h], p)
                  = JudgeView(view, receipts, Extract(H), dec.claims[h], p)
  BY <1>5, <1>6 DEF JudgeView, Judge, Extract
<1> QED  BY <1>1, <1>3, <1>7, <1>8 DEF Derive, Extract, considered, statements, receipts

-----------------------------------------------------------------------------
\* Evidence about one hostname.

\* The only step that adds an item leaves the clock, the decisions and the pins.
LEMMA IngestingIsIngest ==
    ASSUME IInv, Next, NEW i \in Ingestible, Ingested(i)
    PROVE  UNCHANGED <<now, decisions, targets>> /\ Recompute
BY DEF IInv, Inputs, Next, Ingested, Ingest, Tick, Accept, MergeAcceptance, Reset, Claim,
       Pin, Unpin

LEMMA StatementsOfOtherHosts ==
    ASSUME NEW H \in SUBSET Hash, NEW i \in Hash, NEW h, NEW X, ~Concerns(i, h)
    PROVE  /\ StatementsFor(h, H \cup {i}, X) = StatementsFor(h, H, X)
           /\ \A Y : Unexcluded(H \cup {i}, "Rotation", Y) = Unexcluded(H, "Rotation", Y)
<1> DEFINE K == H \cup {i}
<1>1. /\ Content[i].kind # "Rotation" /\ Content[i].host # h
      /\ Content[i].kind = "Record" =>
            /\ Content[i].lineage = {}
            /\ \A s \in Content[i].predecessor : Content[s].host # h
            /\ \A s \in Content[i].predecessor : Content[s].kind = "Successor"
  BY ContentAssumption DEF Concerns, OfKind, Hash
<1>2. \A s : Content[s].kind = "Rotation" \/ Content[s].host = h =>
               Carriers(K, s) = Carriers(H, s) /\ (s \in K <=> s \in H)
  BY <1>1 DEF Carriers, Carries
<1> HIDE DEF K
<1>3. \A s, kind, Y :
         Content[s].kind = "Rotation" \/ Content[s].host = h =>
            (s \in Unexcluded(K, kind, Y) <=> s \in Unexcluded(H, kind, Y))
  BY <1>2 DEF Unexcluded, Statements, Excluded
<1>4. StatementsFor(h, K, X) = StatementsFor(h, H, X)
  BY <1>3 DEF StatementsFor
<1>5. \A L, Y : \A s \in Unexcluded(L, "Rotation", Y) : Content[s].kind = "Rotation"
  BY DEF Unexcluded, Statements, OfKind
<1>6. \A Y : Unexcluded(K, "Rotation", Y) = Unexcluded(H, "Rotation", Y)
  BY <1>3, <1>5
<1> QED  BY <1>4, <1>6 DEF K

\* Ingesting an item that does not concern a hostname leaves its bindings.
LEMMA IsolatedStep ==
    ASSUME IInv, [Next]_vars
    PROVE  [\A i \in Ingestible, h \in Host :
               Ingested(i) /\ ~Concerns(i, h) => bindings'[h] = bindings[h]]_vars
<1>1. ASSUME Next, NEW i \in Ingestible, NEW h \in Host, Ingested(i), ~Concerns(i, h)
      PROVE  bindings'[h] = bindings[h]
  <2>1. UNCHANGED <<now, decisions, targets>> /\ Recompute /\ held' = held \cup {i}
    BY <1>1, IngestingIsIngest DEF Ingested
  <2>2. /\ bindings[h] = Derive(h, Extract(held), now, decisions, Pins(h, decisions, targets))
        /\ bindings'[h] = Derive(h, Extract(held \cup {i}), now, decisions, Pins(h, decisions, targets))
    BY <1>1, <2>1 DEF IInv, Recompute, Compute
  <2>3. held \in SUBSET Hash /\ i \in Hash /\ held \cup {i} \in SUBSET Hash
    BY <1>1, VerifierAssumption DEF IInv, Inputs
  <2>4. \A j \in OfKind("Record") \cup OfKind("ChainRefresh") :
           Content[j].host = h => (j \in held <=> j \in held \cup {i})
    BY <1>1 DEF Concerns, OfKind
  <2>5. Readable(held, h, decisions.resets[h]) = Readable(held \cup {i}, h, decisions.resets[h])
    <3>1. Readable(held, h, decisions.resets[h]) \subseteq Readable(held \cup {i}, h, decisions.resets[h])
      BY <2>3, <2>4, RowsOfOtherHosts
    <3>2. Readable(held \cup {i}, h, decisions.resets[h]) \subseteq Readable(held, h, decisions.resets[h])
      BY <2>3, <2>4, RowsOfOtherHosts
    <3> QED  BY <3>1, <3>2
  <2>6. StatementsFor(h, held \cup {i}, decisions.resets[h]) = StatementsFor(h, held, decisions.resets[h])
    BY <1>1, <2>3, StatementsOfOtherHosts
  <2>7. Unexcluded(held \cup {i}, "Rotation", EveryReset(decisions))
          = Unexcluded(held, "Rotation", EveryReset(decisions))
    BY <1>1, <2>3, StatementsOfOtherHosts
  <2> QED  BY <2>2, <2>3, <2>5, <2>6, <2>7, SameReadingSameDerivation
<1> QED  BY <1>1

\* Evidence about one hostname never moves another, whatever is stored, reset or
\* accepted: an item of a different hostname that brings no rotation statement and
\* no statement of this one is not read by this one's derivation (state.rs:
\* derive_host filters by hostname, rotations alone are document-scoped).
THEOREM HostsStayIsolated == Spec => HostsAreIsolated
<1>1. IInv /\ [Next]_vars =>
        [\A i \in Ingestible, h \in Host :
            Ingested(i) /\ ~Concerns(i, h) => bindings'[h] = bindings[h]]_vars
  BY IsolatedStep
<1> QED  BY <1>1, BindingsAreDerived, PTL DEF Spec, HostsAreIsolated

-----------------------------------------------------------------------------
\* What a reset excludes.

\* Removing what is excluded anyway changes no statement: neither the removed
\* statements nor those that only the removed certificates carried counted.
LEMMA ExcludedStatementsDoNotCount ==
    ASSUME NEW H, NEW kind, NEW Y, NEW X \in SUBSET Y
    PROVE  Unexcluded(H \ X, kind, Y) = Unexcluded(H, kind, Y)
<1>1. \A L, s : s \in Unexcluded(L, kind, Y) <=>
                  /\ s \in OfKind(kind) /\ Content[s].authorized /\ s \notin Y
                  /\ s \in L \/ \E c \in Carriers(L, s) : c \notin Y
  BY DEF Unexcluded, Statements, Excluded
<1>2. \A s, c : c \notin Y => (c \in Carriers(H \ X, s) <=> c \in Carriers(H, s))
  BY DEF Carriers
<1>3. \A s : s \in Unexcluded(H \ X, kind, Y) <=> s \in Unexcluded(H, kind, Y)
  BY <1>1, <1>2
<1> QED  BY <1>3 DEF Unexcluded

\* Without an excluded voucher, removing what is excluded changes no row.
LEMMA ExcludedRowsDoNotCount ==
    ASSUME IInv, NEW h \in Host, ~ExcludedVoucher(h)
    PROVE  Readable(held \ decisions.resets[h], h, decisions.resets[h])
             = Readable(held, h, decisions.resets[h])
<1> DEFINE X == decisions.resets[h]
           K == held \ X
<1>0. held \in SUBSET Hash /\ K \in SUBSET Hash
  BY VerifierAssumption DEF IInv, Inputs
<1>1. ASSUME NEW r \in CertificateRows(held), r.hash \notin X
      PROVE  r \in CertificateRows(K)
  BY <1>0, <1>1, CertificateRowsOK, CertificateRowsElsewhere
<1>2. \A r \in CertificateRows(K) : r \in CertificateRows(held)
  BY <1>0, CertificateRowsOK, CertificateRowsElsewhere
<1>3. \A c : c \in ValidRecords(K) <=> c \in ValidRecords(held) /\ c \notin X
  BY DEF ValidRecords
<1>4. ASSUME NEW r \in RefreshRows(held), r.hash \notin X
      PROVE  r \in RefreshRows(K)
  <2> SUFFICES ASSUME r \notin RefreshRows(K)  PROVE FALSE
    OBVIOUS
  <2>1. r.hash \in K
    BY <1>0, <1>4, RefreshRowsOK
  <2>2. Vouched(held, r.host, r) # Vouched(K, r.host, r)
    BY <1>0, <1>4, <2>1, RefreshRowsVouchedAlike
  <2>3. PICK c \in ValidRecords(held) :
           c \in X /\ Content[c].host = r.host /\ Content[c].doc = r.doc
    BY <1>3, <2>2 DEF Vouched
  <2>4. Vouched(held, r.host, r)
    BY <1>3, <2>2 DEF Vouched
  <2>5. r.onPath
    BY <1>0, <1>4, <2>4, RefreshRowsElsewhere
  <2> QED  BY <1>4, <2>3, <2>5 DEF ExcludedVoucher
<1>5. ASSUME NEW r \in RefreshRows(K)
      PROVE  r \in RefreshRows(held)
  <2> DEFINE q == [r EXCEPT !.onPath = Vouched(held, r.host, r)]
  <2>1. r.hash \in K /\ r.hash \in held /\ r.hash \notin X
    BY <1>0, <1>5, RefreshRowsOK
  <2>2. q \in RefreshRows(held)
    BY <1>0, <1>5, <2>1, RefreshRowsElsewhere
  <2>3. \E onPath : r = [r EXCEPT !.onPath = onPath]
    BY <1>5 DEF RefreshRows, Row
  <2>4. q.hash = r.hash /\ q.host = r.host /\ q.doc = r.doc /\ q.gen = r.gen
        /\ q = [r EXCEPT !.onPath = q.onPath]
    BY <1>5 DEF RefreshRows, Row
  <2> HIDE DEF q
  <2>5. q \in RefreshRows(K)
    BY <1>4, <2>1, <2>2, <2>4
  <2>6. q.onPath = Vouched(K, q.host, q) /\ r.onPath = Vouched(K, r.host, r)
    BY <1>0, <1>5, <2>5, RefreshRowsElsewhere
  <2>7. q.onPath = r.onPath
    BY <2>4, <2>6 DEF Vouched
  <2> QED  BY <2>2, <2>3, <2>4, <2>7
<1> QED  BY <1>0, <1>1, <1>2, <1>4, <1>5, RowsOK DEF Rows, Readable

\* Where the bindings are derived, ResetLeavesNoTrace holds: the argument of the
\* theorem after it.
LEMMA ResetInEveryState == IInv => ResetLeavesNoTrace
<1> SUFFICES ASSUME IInv, NEW h \in Host, ~ExcludedVoucher(h)
             PROVE  bindings[h] = Derive(h, Extract(held \ decisions.resets[h]), now,
                                         decisions, Pins(h, decisions, targets))
  BY DEF ResetLeavesNoTrace
<1> DEFINE X == decisions.resets[h]
           K == held \ X
<1>1. bindings[h] = Derive(h, Extract(held), now, decisions, Pins(h, decisions, targets))
  BY DEF IInv, Compute
<1>2. held \in SUBSET Hash /\ K \in SUBSET Hash
  BY VerifierAssumption DEF IInv, Inputs
<1>3. Readable(held, h, X) = Readable(K, h, X)
  BY ExcludedRowsDoNotCount
<1>4. StatementsFor(h, held, X) = StatementsFor(h, K, X)
  <2>1. Unexcluded(K, "Successor", X) = Unexcluded(held, "Successor", X)
    BY ExcludedStatementsDoNotCount
  <2> QED  BY <2>1 DEF StatementsFor
<1>5. X \subseteq EveryReset(decisions)
  BY DEF EveryReset, IInv, Inputs
<1>6. Unexcluded(held, "Rotation", EveryReset(decisions))
        = Unexcluded(K, "Rotation", EveryReset(decisions))
  BY <1>5, ExcludedStatementsDoNotCount
<1> HIDE DEF K
<1>7. bindings[h] = Derive(h, Extract(K), now, decisions, Pins(h, decisions, targets))
  BY <1>1, <1>2, <1>3, <1>4, <1>6, SameReadingSameDerivation
<1> QED  BY <1>7 DEF K

\* What a user resets is as if it had never arrived, for every store and every
\* reset, apart from the vouching of excluded certificates: derive excludes rows by
\* hash (stage 2) and statements by provenance, receipts never cite what is reset.
THEOREM ResetsLeaveNoTrace == Spec => []ResetLeavesNoTrace
BY ResetInEveryState, BindingsAreDerived, PTL

-----------------------------------------------------------------------------
\* What an item and an acceptance mean in another store.

\* Rows that differ at most in what vouches for them.
Alike(q, r) ==
    /\ q.att = r.att /\ q.doc = r.doc /\ q.gen = r.gen /\ q.hash = r.hash /\ q.host = r.host
    /\ q.from = r.from /\ q.end = r.end /\ q.serial = r.serial /\ q.issued = r.issued

\* An item has the same rows in any store that holds it.
LEMMA AlikeElsewhere ==
    ASSUME NEW H \in SUBSET Hash, NEW K \in SUBSET Hash, NEW r \in Rows(H), r.hash \in K
    PROVE  \E q \in Rows(K) : Alike(q, r)
<1>1. CASE r \in CertificateRows(H)
  BY <1>1, CertificateRowsElsewhere DEF Rows, Alike
<1>2. CASE r \in RefreshRows(H)
  <2>1. [r EXCEPT !.onPath = Vouched(K, r.host, r)] \in Rows(K)
    BY <1>2, RefreshRowsElsewhere DEF Rows
  <2>2. Alike([r EXCEPT !.onPath = Vouched(K, r.host, r)], r)
    BY <1>2 DEF RefreshRows, Row, Alike
  <2> QED  BY <2>1, <2>2
<1> QED  BY <1>1, <1>2 DEF Rows

\* An acceptance counts alike in two stores that hold the same of what it cites.
LEMMA EvaluableElsewhere ==
    ASSUME NEW H \in SUBSET Hash, NEW K \in SUBSET Hash, NEW h, NEW X, NEW a,
           \A j \in a.cited : j \in H <=> j \in K,
           Evaluable(a, h, Extract(H), X)
    PROVE  Evaluable(a, h, Extract(K), X)
<1>1. /\ a.cited \cap X = {} /\ a.cited \subseteq H
      /\ \A hash \in a.cited : \E r \in Rows(H) : r.hash = hash
      /\ \A r \in Rows(H) : r.hash \in a.cited => r.host = h
      /\ \E r \in Rows(H) : r.hash \in a.cited /\ r.doc = a.doc
  BY DEF Evaluable, Extract, CitedRows, DocsOf
<1>2. \A hash \in a.cited : \E r \in Rows(K) : r.hash = hash
  BY <1>1, AlikeElsewhere DEF Alike
<1>3. \A r \in Rows(K) : r.hash \in a.cited => r.host = h
  BY <1>1, AlikeElsewhere DEF Alike
<1>4. \E r \in Rows(K) : r.hash \in a.cited /\ r.doc = a.doc
  BY <1>1, AlikeElsewhere DEF Alike
<1> QED  BY <1>1, <1>2, <1>3, <1>4 DEF Evaluable, Extract, CitedRows, DocsOf

LEMMA OutranksElsewhere ==
    ASSUME NEW H \in SUBSET Hash, NEW K \in SUBSET Hash, NEW a, NEW b,
           \A j \in a.cited \cup b.cited : j \in H <=> j \in K,
           Outranks(a, b, Rows(H))
    PROVE  Outranks(a, b, Rows(K))
<1>1. PICK r \in Rows(H) : /\ r.hash \in a.cited
                           /\ \A s \in Rows(H) : s.hash \in b.cited => KeyLess(s, r)
  BY DEF Outranks, CitedRows
<1>2. r.hash \in H
  BY RowsNameTheirItem
<1>3. PICK q \in Rows(K) : Alike(q, r)
  BY <1>1, <1>2, AlikeElsewhere
<1>4. ASSUME NEW s \in Rows(K), s.hash \in b.cited
      PROVE  KeyLess(s, q)
  <2>1. s.hash \in H
    BY <1>4, RowsNameTheirItem
  <2>2. PICK t \in Rows(H) : Alike(t, s)
    BY <2>1, AlikeElsewhere
  <2>3. KeyLess(t, r)
    BY <1>1, <1>4, <2>2 DEF Alike
  <2> QED  BY <1>3, <2>2, <2>3 DEF Alike, KeyLess
<1>5. q.hash \in a.cited
  BY <1>1, <1>3 DEF Alike
<1> QED  BY <1>4, <1>5 DEF Outranks, CitedRows

LEMMA PreferredElsewhere ==
    ASSUME NEW H \in SUBSET Hash, NEW K \in SUBSET Hash, NEW h, NEW dec,
           \A a \in dec.acceptances[h] : \A j \in a.cited : j \in H <=> j \in K
    PROVE  TopDocs(Receipts(h, Extract(K), dec), Rows(K))
             = TopDocs(Receipts(h, Extract(H), dec), Rows(H))
<1>1. Receipts(h, Extract(K), dec) = Receipts(h, Extract(H), dec)
  BY EvaluableElsewhere DEF Receipts
<1> DEFINE receipts == Receipts(h, Extract(H), dec)
<1>2. \A a, b \in receipts : Outranks(b, a, Rows(K)) <=> Outranks(b, a, Rows(H))
  BY OutranksElsewhere DEF Receipts
<1> HIDE DEF receipts
<1>3. {a \in receipts : \A b \in receipts : ~Outranks(b, a, Rows(K))}
        = {a \in receipts : \A b \in receipts : ~Outranks(b, a, Rows(H))}
  BY <1>2
<1>4. TopDocs(receipts, Rows(K)) = TopDocs(receipts, Rows(H))
  BY <1>3 DEF TopDocs
<1> QED  BY <1>1, <1>4 DEF receipts

-----------------------------------------------------------------------------
\* Least and greatest elements.

\* A set of naturals that has an element has a least one.
LEMMA LeastNatural ==
    ASSUME NEW S \in SUBSET Nat, S # {}
    PROVE  \E n \in S : \A m \in S : n <= m
<1>1. PICK n \in S : \A m \in S : ~(<<m, n>> \in OpToRel(<, Nat))
  BY NatLessThanWellFounded, WFMin
<1>2. \A m \in S : ~(m < n)
  BY <1>1 DEF OpToRel
<1> QED  BY <1>2

\* A finite set that a transitive, irreflexive relation orders has an element
\* with nothing above it.
LEMMA FiniteMaximum ==
    ASSUME NEW S, IsFiniteSet(S), S # {}, NEW R,
           \A x \in S : <<x, x>> \notin R,
           \A x, y, z \in S : <<x, y>> \in R /\ <<y, z>> \in R => <<x, z>> \in R
    PROVE  \E x \in S : \A y \in S : <<x, y>> \notin R
<1> DEFINE Above(x) == {y \in S : <<x, y>> \in R}
           T == {Above(x) : x \in S}
<1>1. T \subseteq FiniteSubsetsOf(S) /\ T # {}
  <2>1. \A x \in S : Above(x) \in SUBSET S
    OBVIOUS
  <2>2. \A x \in S : IsFiniteSet(Above(x))
    BY <2>1, FS_Subset
  <2> HIDE DEF Above
  <2>3. T \subseteq FiniteSubsetsOf(S)
    BY <2>1, <2>2 DEF FiniteSubsetsOf
  <2> QED  BY <2>3
<1>2. PICK A \in T : \A B \in T : <<B, A>> \notin StrictSubsetOrdering(S)
  BY <1>1, FS_StrictSubsetOrderingWellFounded, WFMin
<1>3. PICK x \in S : A = Above(x)
  OBVIOUS
<1>4. ASSUME NEW y \in S, <<x, y>> \in R
      PROVE  FALSE
  <2>1. Above(y) \subseteq Above(x) /\ y \in Above(x) /\ y \notin Above(y)
    BY <1>4
  <2>2. <<Above(y), Above(x)>> \in StrictSubsetOrdering(S)
    BY <2>1 DEF StrictSubsetOrdering
  <2> QED  BY <1>2, <1>3, <2>2
<1> QED  BY <1>4

\* The image of a finite set is finite.
LEMMA FiniteImage ==
    ASSUME NEW f, IsFiniteSet(DOMAIN f), f = [x \in DOMAIN f |-> f[x]]
    PROVE  IsFiniteSet({f[x] : x \in DOMAIN f})
<1> DEFINE T == {f[x] : x \in DOMAIN f}
<1>1. f \in [DOMAIN f -> T]
  OBVIOUS
<1>2. f \in Surjection(DOMAIN f, T)
  BY <1>1 DEF Surjection
<1> QED  BY <1>2, FS_Surjection

-----------------------------------------------------------------------------
\* Succession chains.

\* Each step of chain_from is defined by the one before it.
LEMMA ChainStepsExist ==
    ASSUME NEW S, NEW start, NEW N \in Nat
    PROVE  \E f : f = [n \in 0..N |-> IF n = 0 THEN <<start>> ELSE Extended(S, f[n - 1])]
<1> DEFINE Is(f, k) == f = [n \in 0..k |-> IF n = 0 THEN <<start>> ELSE Extended(S, f[n - 1])]
           bad == {k \in Nat : ~\E f : Is(f, k)}
<1>1. \E f : Is(f, 0)
  <2> DEFINE f == [n \in 0..0 |-> <<start>>]
  <2>1. Is(f, 0)
    OBVIOUS
  <2> QED  BY <2>1
<1>2. ASSUME NEW k \in Nat, k # 0, \E f : Is(f, k - 1)
      PROVE  \E f : Is(f, k)
  <2>1. PICK f : Is(f, k - 1)
    BY <1>2
  <2> DEFINE g == [n \in 0..k |-> IF n = k THEN Extended(S, f[k - 1]) ELSE f[n]]
  <2>2. ASSUME NEW n \in 0..k
        PROVE  g[n] = IF n = 0 THEN <<start>> ELSE Extended(S, g[n - 1])
    BY <1>2, <2>1
  <2>3. Is(g, k)
    BY <2>2
  <2> QED  BY <2>3
<1>3. bad = {}
  <2> SUFFICES ASSUME bad # {}  PROVE FALSE
    OBVIOUS
  <2>1. PICK k \in bad : \A m \in bad : k <= m
    BY LeastNatural
  <2> HIDE DEF Is
  <2>2. k # 0 /\ k - 1 \in Nat /\ k - 1 \notin bad
    BY <1>1, <2>1
  <2> QED  BY <1>2, <2>1, <2>2
<1> QED  BY <1>3

\* What every stage of a walk that stays within D looks like: distinct documents,
\* each the only hop from the one before, and as many as steps were taken unless
\* the walk has stopped.
Walked(S, D, start, chain, n) ==
    /\ chain \in Seq(D) /\ Len(chain) \in Nat /\ Len(chain) >= 1 /\ chain[1] = start
    /\ Len(chain) = n + 1 \/ Extended(S, chain) = chain
    /\ \A i \in 1..(Len(chain) - 1) : chain[i + 1] \in OnlyHop(S, chain[i])
    /\ \A i, j \in 1..Len(chain) : chain[i] = chain[j] => i = j

LEMMA WalkedFurther ==
    ASSUME NEW S, NEW D, \A x \in D : OnlyHop(S, x) \subseteq D,
           NEW start, NEW chain, NEW n \in Nat, Walked(S, D, start, chain, n)
    PROVE  Walked(S, D, start, Extended(S, chain), n + 1)
<1> DEFINE fresh == OnlyHop(S, Last(chain)) \ ToSet(chain)
           d == CHOOSE x \in fresh : TRUE
<1> USE DEF Walked
<1>1. CASE fresh = {}
  <2>1. Extended(S, chain) = chain
    BY <1>1 DEF Extended
  <2> QED  BY <2>1
<1>2. CASE fresh # {}
  <2>1. Extended(S, chain) = Append(chain, d)
    BY <1>2 DEF Extended
  <2>2. d \in OnlyHop(S, Last(chain)) /\ d \notin ToSet(chain)
    BY <1>2
  <2>3. Last(chain) = chain[Len(chain)] /\ Last(chain) \in D
    BY DEF Last
  <2>4. d \in D
    BY <2>2, <2>3
  <2> HIDE DEF d, fresh
  <2> DEFINE longer == Append(chain, d)
  <2>5. /\ longer \in Seq(D) /\ Len(longer) = Len(chain) + 1
        /\ longer[Len(chain) + 1] = d
        /\ \A i \in 1..Len(chain) : longer[i] = chain[i]
    BY <2>4
  <2>6. \A i \in 1..Len(chain) : chain[i] # d
    BY <2>2 DEF ToSet
  <2> HIDE DEF longer
  <2>7. Len(chain) = n + 1
    <3> SUFFICES ASSUME Extended(S, chain) = chain  PROVE FALSE
      OBVIOUS
    <3> QED  BY <2>1, <2>5 DEF longer
  <2>8. ASSUME NEW i \in 1..(Len(longer) - 1)
        PROVE  longer[i + 1] \in OnlyHop(S, longer[i])
    <3>1. CASE i = Len(chain)
      BY <2>2, <2>3, <2>5, <3>1
    <3>2. CASE i # Len(chain)
      <4>1. i \in 1..(Len(chain) - 1) /\ i + 1 \in 1..Len(chain) /\ i \in 1..Len(chain)
        BY <2>5, <3>2
      <4> QED  BY <2>5, <4>1
    <3> QED  BY <3>1, <3>2
  <2>9. ASSUME NEW i \in 1..Len(longer), NEW j \in 1..Len(longer), longer[i] = longer[j]
        PROVE  i = j
    <3>1. i = Len(chain) + 1 \/ i \in 1..Len(chain)
      BY <2>5
    <3>2. j = Len(chain) + 1 \/ j \in 1..Len(chain)
      BY <2>5
    <3> QED  BY <2>5, <2>6, <2>9, <3>1, <3>2
  <2>10. longer[1] = start
    BY <2>5
  <2>11. Walked(S, D, start, longer, n + 1)
    BY <2>5, <2>7, <2>8, <2>9, <2>10
  <2> QED  BY <2>1, <2>11 DEF longer
<1> QED  BY <1>1, <1>2

LEMMA WalkedThroughout ==
    ASSUME NEW S, NEW D, \A x \in D : OnlyHop(S, x) \subseteq D, NEW start \in D,
           NEW N \in Nat, NEW f,
           f = [n \in 0..N |-> IF n = 0 THEN <<start>> ELSE Extended(S, f[n - 1])]
    PROVE  \A n \in 0..N : Walked(S, D, start, f[n], n)
<1> DEFINE bad == {n \in 0..N : ~Walked(S, D, start, f[n], n)}
<1>1. Walked(S, D, start, f[0], 0)
  <2>1. f[0] = <<start>>
    OBVIOUS
  <2> QED  BY <2>1 DEF Walked
<1> SUFFICES ASSUME bad # {}  PROVE FALSE
  OBVIOUS
<1>2. PICK n \in bad : \A m \in bad : n <= m
  <2>1. bad \in SUBSET Nat
    OBVIOUS
  <2> HIDE DEF bad
  <2> QED  BY <2>1, LeastNatural
<1>3. n # 0 /\ n - 1 \in 0..N /\ n - 1 \notin bad
  BY <1>1, <1>2
<1>4. Walked(S, D, start, f[n - 1], n - 1) /\ f[n] = Extended(S, f[n - 1])
  BY <1>3
<1>5. Walked(S, D, start, Extended(S, f[n - 1]), (n - 1) + 1)
  BY <1>3, <1>4, WalkedFurther
<1> QED  BY <1>3, <1>4, <1>5

\* chain_from: a chain of distinct documents, each the only successor of the one
\* before, that stops only where it must: as many steps as there are pairs suffice.
LEMMA ChainIsWalked ==
    ASSUME NEW S, IsFiniteSet(S), NEW D, \A x \in D : OnlyHop(S, x) \subseteq D, NEW start \in D
    PROVE  /\ Walked(S, D, start, ChainFrom(S, start), Cardinality(S))
           /\ OnlyHop(S, Last(ChainFrom(S, start))) \subseteq ToSet(ChainFrom(S, start))
<1> DEFINE N == Cardinality(S)
           f == CHOOSE g : g = [n \in 0..N |-> IF n = 0 THEN <<start>> ELSE Extended(S, g[n - 1])]
           chain == f[N]
<1>1. N \in Nat
  BY FS_CardinalityType
<1>2. f = [n \in 0..N |-> IF n = 0 THEN <<start>> ELSE Extended(S, f[n - 1])]
  BY <1>1, ChainStepsExist
<1>3. ChainFrom(S, start) = chain
  BY DEF ChainFrom
<1> HIDE DEF N, f
<1>4. Walked(S, D, start, chain, N)
  <2>1. \A n \in 0..N : Walked(S, D, start, f[n], n)
    BY <1>1, <1>2, WalkedThroughout
  <2>2. N \in 0..N
    BY <1>1
  <2> QED  BY <2>1, <2>2
<1>5. OnlyHop(S, Last(chain)) \subseteq ToSet(chain)
  <2> SUFFICES ASSUME NEW d \in OnlyHop(S, Last(chain)), d \notin ToSet(chain)  PROVE FALSE
    OBVIOUS
  <2>1. Extended(S, chain) # chain
    <3> DEFINE x == CHOOSE y \in OnlyHop(S, Last(chain)) \ ToSet(chain) : TRUE
    <3>1. Extended(S, chain) = Append(chain, x)
      BY DEF Extended
    <3> HIDE DEF x
    <3>2. Len(Append(chain, x)) = Len(chain) + 1
      BY <1>4 DEF Walked
    <3> QED  BY <1>4, <3>1, <3>2 DEF Walked
  <2>2. Len(chain) = N + 1
    BY <1>4, <2>1 DEF Walked
  <2>3. \A i \in 1..Len(chain) : \E e \in S : e[1] = chain[i]
    <3> TAKE i \in 1..Len(chain)
    <3>1. OnlyHop(S, chain[i]) # {}
      <4>1. CASE i = Len(chain)
        BY <4>1 DEF Last
      <4>2. CASE i # Len(chain)
        <5>1. i \in 1..(Len(chain) - 1)
          BY <1>4, <4>2 DEF Walked
        <5> QED  BY <1>4, <5>1 DEF Walked
      <4> QED  BY <4>1, <4>2
    <3> QED  BY <3>1 DEF OnlyHop, SuccessorsOf
  <2> DEFINE g == [i \in 1..Len(chain) |-> CHOOSE e \in S : e[1] = chain[i]]
  <2>4. \A i \in 1..Len(chain) : g[i] \in S /\ g[i][1] = chain[i]
    BY <2>3
  <2>5. g \in [1..Len(chain) -> S]
    BY <2>4
  <2> HIDE DEF g
  <2>6. \A i, j \in 1..Len(chain) : g[i] = g[j] => i = j
    BY <1>4, <2>4 DEF Walked
  <2>7. g \in Injection(1..Len(chain), S)
    BY <2>5, <2>6 DEF Injection, IsInjective
  <2>8. Cardinality(1..Len(chain)) <= N
    BY <2>7, FS_Injection DEF N
  <2>9. Cardinality(1..Len(chain)) = N + 1
    BY <1>1, <2>2, FS_Interval
  <2> QED  BY <1>1, <2>8, <2>9
<1> QED  BY <1>3, <1>4, <1>5 DEF N

\* The documents on a chain: its start, its last, and every only successor of one
\* of them.
LEMMA ChainIsClosed ==
    ASSUME NEW S, IsFiniteSet(S), NEW start
    PROVE  LET chain == ChainFrom(S, start)
           IN  /\ start \in ToSet(chain) /\ Last(chain) \in ToSet(chain)
               /\ \A x \in ToSet(chain) : OnlyHop(S, x) \subseteq ToSet(chain)
<1> DEFINE chain == ChainFrom(S, start)
           D == {start} \cup {e[2] : e \in S}
<1>1. \A x \in D : OnlyHop(S, x) \subseteq D
  BY DEF OnlyHop, SuccessorsOf
<1>2. start \in D
  OBVIOUS
<1> HIDE DEF D, chain
<1>3. /\ Walked(S, D, start, chain, Cardinality(S))
      /\ OnlyHop(S, Last(chain)) \subseteq ToSet(chain)
  BY <1>1, <1>2, ChainIsWalked DEF chain
<1>4. /\ chain \in Seq(D) /\ Len(chain) \in Nat /\ Len(chain) >= 1 /\ chain[1] = start
      /\ \A i \in 1..(Len(chain) - 1) : chain[i + 1] \in OnlyHop(S, chain[i])
  BY <1>3 DEF Walked
<1>5. ToSet(chain) = {chain[i] : i \in 1..Len(chain)} /\ Last(chain) = chain[Len(chain)]
  BY <1>4 DEF ToSet, Last
<1>6. start \in ToSet(chain) /\ Last(chain) \in ToSet(chain)
  <2>1. 1 \in 1..Len(chain) /\ Len(chain) \in 1..Len(chain)
    BY <1>4
  <2> QED  BY <1>4, <1>5, <2>1
<1>7. ASSUME NEW x \in ToSet(chain)  PROVE OnlyHop(S, x) \subseteq ToSet(chain)
  <2>1. PICK i \in 1..Len(chain) : x = chain[i]
    BY <1>5
  <2>2. CASE i = Len(chain)
    BY <1>3, <1>5, <2>1, <2>2
  <2>3. CASE i # Len(chain)
    <3>1. i \in 1..(Len(chain) - 1) /\ i + 1 \in 1..Len(chain)
      BY <1>4, <2>3
    <3>2. chain[i + 1] \in OnlyHop(S, x) /\ chain[i + 1] \in ToSet(chain)
      BY <1>4, <1>5, <2>1, <3>1
    <3>3. \A c, d \in OnlyHop(S, x) : c = d
      BY DEF OnlyHop
    <3> QED  BY <3>2, <3>3
  <2> QED  BY <2>2, <2>3
<1> QED  BY <1>6, <1>7 DEF chain

\* Where a chain has led leads no further: from its last document the same proofs
\* only reach documents already on it.
LEMMA LastLeadsBack ==
    ASSUME NEW S, IsFiniteSet(S), NEW start
    PROVE  LET chain == ChainFrom(S, start)
           IN  ToSet(ChainFrom(S, Last(chain))) \subseteq ToSet(chain)
<1> DEFINE chain == ChainFrom(S, start)
           D == ToSet(chain)
           next == ChainFrom(S, Last(chain))
<1>1. Last(chain) \in D /\ \A x \in D : OnlyHop(S, x) \subseteq D
  BY ChainIsClosed
<1> HIDE DEF D
<1>2. next \in Seq(D)
  BY <1>1, ChainIsWalked DEF Walked
<1>3. ToSet(next) \subseteq D
  BY <1>2 DEF ToSet
<1> QED  BY <1>3 DEF D

-----------------------------------------------------------------------------
\* Lineages.

\* Reach holds where it starts and follows every edge.
LEMMA ReachFollows ==
    ASSUME NEW E, NEW K
    PROVE  /\ K \subseteq Reach(E, K)
           /\ \A e \in E : e[1] \in Reach(E, K) => e[2] \in Reach(E, K)
<1>1. K \subseteq Reach(E, K)
  BY DEF Reach
<1>2. ASSUME NEW e \in E, e[1] \in Reach(E, K)
      PROVE  e[2] \in Reach(E, K)
  <2>1. e[2] \in K \cup Keys(E)
    BY DEF Keys, Successors
  <2>2. ASSUME NEW S \in SUBSET (K \cup Keys(E)), K \subseteq S, After(E, S) \subseteq S
        PROVE  e[2] \in S
    BY <1>2, <2>2 DEF Reach, After
  <2> QED  BY <2>1, <2>2 DEF Reach
<1> QED  BY <1>1, <1>2

\* And nothing else: it lies in every set that holds the start and is closed.
LEMMA ReachIsLeast ==
    ASSUME NEW E, NEW K, NEW S, K \subseteq S, \A e \in E : e[1] \in S => e[2] \in S
    PROVE  Reach(E, K) \subseteq S
<1> DEFINE T == S \cap (K \cup Keys(E))
<1>1. K \subseteq T /\ T \in SUBSET (K \cup Keys(E))
  OBVIOUS
<1>2. After(E, T) \subseteq T
  BY DEF After, Keys, Successors
<1>3. Reach(E, K) \subseteq T
  BY <1>1, <1>2 DEF Reach
<1> QED  BY <1>3

\* Descent goes on along an edge, and composes.
LEMMA DescentFollows ==
    ASSUME NEW E
    PROVE  /\ \A e \in E : Descends(E, e[1], e[2])
           /\ \A a : \A e \in E : Descends(E, a, e[1]) => Descends(E, a, e[2])
           /\ \A a, b, c : Descends(E, a, b) /\ Descends(E, b, c) => Descends(E, a, c)
<1>1. \A e \in E : Descends(E, e[1], e[2])
  <2> TAKE e \in E
  <2>1. e[2] \in After(E, {e[1]})
    BY DEF After
  <2> QED  BY <2>1, ReachFollows DEF Descends
<1>2. \A a : \A e \in E : Descends(E, a, e[1]) => Descends(E, a, e[2])
  BY ReachFollows DEF Descends
<1>3. ASSUME NEW a, NEW b, NEW c, Descends(E, a, b), Descends(E, b, c)
      PROVE  Descends(E, a, c)
  <2> DEFINE S == Reach(E, After(E, {a}))
  <2>1. \A e \in E : e[1] \in S => e[2] \in S
    BY ReachFollows
  <2>2. After(E, {b}) \subseteq S
    BY <1>3, <2>1 DEF After, Descends
  <2> HIDE DEF S
  <2>3. Reach(E, After(E, {b})) \subseteq S
    BY <2>1, <2>2, ReachIsLeast
  <2> QED  BY <1>3, <2>3 DEF Descends, S
<1> QED  BY <1>1, <1>2, <1>3

\* find_cycle follows an edge of the lineage wherever one leaves.
LEMMA FirstHopIsAnEdge ==
    ASSUME NEW E \in SUBSET (Nat \X Nat), NEW key
    PROVE  \/ <<key, FirstHop(E, key)>> \in E
           \/ key \notin Replaced(E) /\ FirstHop(E, key) = NoKey
<1>1. CASE key \in Replaced(E)
  <2>1. After(E, {key}) \in SUBSET Nat /\ After(E, {key}) # {}
    BY <1>1 DEF After, Replaced
  <2>2. PICK s \in After(E, {key}) : \A t \in After(E, {key}) : s <= t
    BY <2>1, LeastNatural
  <2>3. FirstHop(E, key) \in After(E, {key})
    BY <1>1, <2>2 DEF FirstHop
  <2>4. PICK e \in E : e[1] = key /\ e[2] = FirstHop(E, key)
    BY <2>3 DEF After
  <2>5. e = <<e[1], e[2]>>
    OBVIOUS
  <2> QED  BY <2>4, <2>5
<1>2. CASE key \notin Replaced(E)
  BY <1>2 DEF FirstHop
<1> QED  BY <1>1, <1>2

\* Each step of its walk is defined by the one before.
IsWalk(f, E, key, N) ==
    f = [n \in 0..N |-> IF n = 0 THEN key ELSE FirstHop(E, f[n - 1])]

LEMMA WalkStepsExist ==
    ASSUME NEW E, NEW key, NEW N \in Nat
    PROVE  \E f : IsWalk(f, E, key, N)
<1> DEFINE Is(f, k) == f = [n \in 0..k |-> IF n = 0 THEN key ELSE FirstHop(E, f[n - 1])]
           bad == {k \in Nat : ~\E f : Is(f, k)}
<1>1. \E f : Is(f, 0)
  <2> DEFINE f == [n \in 0..0 |-> key]
  <2>1. Is(f, 0)
    OBVIOUS
  <2> QED  BY <2>1
<1>2. ASSUME NEW k \in Nat, k # 0, \E f : Is(f, k - 1)
      PROVE  \E f : Is(f, k)
  <2>1. PICK f : Is(f, k - 1)
    BY <1>2
  <2> DEFINE g == [n \in 0..k |-> IF n = k THEN FirstHop(E, f[k - 1]) ELSE f[n]]
  <2>2. ASSUME NEW n \in 0..k
        PROVE  g[n] = IF n = 0 THEN key ELSE FirstHop(E, g[n - 1])
    BY <1>2, <2>1
  <2>3. Is(g, k)
    BY <2>2
  <2> QED  BY <2>3
<1>3. bad = {}
  <2> SUFFICES ASSUME bad # {}  PROVE FALSE
    OBVIOUS
  <2>1. PICK k \in bad : \A m \in bad : k <= m
    BY LeastNatural
  <2> HIDE DEF Is
  <2>2. k # 0 /\ k - 1 \in Nat /\ k - 1 \notin bad
    BY <1>1, <2>1
  <2> QED  BY <1>2, <2>1, <2>2
<1> QED  BY <1>3 DEF IsWalk

\* A walk that returns was on a cycle.
LEMMA ReturningIsCyclic ==
    ASSUME NEW E \in SUBSET (Nat \X Nat), IsFiniteSet(E), NEW e \in E, ReturnsTo(E, e)
    PROVE  OnCycle(E, e[1])
<1> DEFINE N == Cardinality(E)
           walk == CHOOSE g : g = [n \in 0..N |-> IF n = 0 THEN e[2] ELSE FirstHop(E, g[n - 1])]
           bad == {n \in 0..N : ~(walk[n] = NoKey \/ Descends(E, e[1], walk[n]))}
<1>1. N \in Nat
  BY FS_CardinalityType
<1>2. walk = [n \in 0..N |-> IF n = 0 THEN e[2] ELSE FirstHop(E, walk[n - 1])]
  <2>1. \E g : IsWalk(g, E, e[2], N)
    BY <1>1, WalkStepsExist
  <2>2. walk = CHOOSE g : IsWalk(g, E, e[2], N)
    BY DEF IsWalk
  <2> HIDE DEF walk
  <2>3. IsWalk(walk, E, e[2], N)
    BY <2>1, <2>2
  <2> QED  BY <2>3 DEF IsWalk
<1>3. \E n \in 1..N : walk[n] = e[1]
  BY DEF ReturnsTo
<1> HIDE DEF N, walk
<1>4. bad = {}
  <2> SUFFICES ASSUME bad # {}  PROVE FALSE
    OBVIOUS
  <2>1. PICK n \in bad : \A m \in bad : n <= m
    <3>1. bad \in SUBSET Nat
      OBVIOUS
    <3> HIDE DEF bad
    <3> QED  BY <3>1, LeastNatural
  <2>2. n # 0
    BY <1>1, <1>2, DescentFollows
  <2>3. n \in 0..N /\ n - 1 \in 0..N /\ n - 1 \notin bad
    BY <1>1, <2>1, <2>2
  <2>4. walk[n] = FirstHop(E, walk[n - 1])
    BY <1>2, <2>2, <2>3
  <2>5. walk[n - 1] = NoKey \/ Descends(E, e[1], walk[n - 1])
    BY <2>3
  <2>6. \/ <<walk[n - 1], walk[n]>> \in E
        \/ walk[n] = NoKey
    BY <2>4, FirstHopIsAnEdge
  <2>7. CASE walk[n] = NoKey
    BY <2>1, <2>7
  <2>8. CASE <<walk[n - 1], walk[n]>> \in E
    <3>1. walk[n - 1] # NoKey
      BY <2>8 DEF NoKey
    <3>2. Descends(E, e[1], walk[n])
      BY <2>5, <2>8, <3>1, DescentFollows
    <3> QED  BY <2>1, <3>2
  <2> QED  BY <2>6, <2>7, <2>8
<1>5. PICK n \in 1..N : walk[n] = e[1]
  BY <1>3
<1>6. n \in 0..N /\ e[1] # NoKey
  BY <1>1 DEF NoKey
<1>7. Descends(E, e[1], e[1])
  BY <1>4, <1>5, <1>6
<1> QED  BY <1>7 DEF OnCycle

\* Without a cycle find_cycle finds none, and one head settles the lineage: nothing
\* is implicated and every replaced key is protected.
LEMMA AcyclicOneHeadSettles ==
    ASSUME NEW E \in SUBSET (Nat \X Nat), IsFiniteSet(E), NEW k, Heads(E) = {k},
           \A x \in Replaced(E) : ~OnCycle(E, x)
    PROVE  Implicated(E) = {} /\ Protected(E) = Replaced(E)
<1>1. CycleKeys(E) = {}
  BY ReturningIsCyclic DEF CycleKeys, Replaced
<1>2. FindCycle(E) = {}
  BY <1>1 DEF FindCycle
<1>3. Cardinality(Heads(E)) <= 1
  BY FS_Singleton
<1>4. Settled(E)
  BY <1>2, <1>3 DEF Settled
<1> QED  BY <1>4 DEF Implicated, Protected

\* In an acyclic lineage with one head every replaced key descends to it.
LEMMA AllDescendToTheHead ==
    ASSUME NEW E \in SUBSET (Nat \X Nat), IsFiniteSet(E), NEW k, Heads(E) = {k},
           \A x \in Replaced(E) : ~OnCycle(E, x), NEW g \in Replaced(E)
    PROVE  Descends(E, g, k)
<1> DEFINE T == Reach(E, After(E, {g}))
           R == {p \in T \X T : Descends(E, p[1], p[2])}
           f == [e \in E |-> e[2]]
<1>1. T \subseteq Successors(E)
  <2>1. After(E, {g}) \subseteq Successors(E)
    BY DEF After, Successors
  <2>2. \A e \in E : e[2] \in Successors(E)
    BY DEF Successors
  <2> QED  BY <2>1, <2>2, ReachIsLeast
<1>2. IsFiniteSet(T)
  <2>1. DOMAIN f = E /\ f = [e \in DOMAIN f |-> f[e]] /\ Successors(E) = {f[e] : e \in DOMAIN f}
    BY DEF Successors
  <2> HIDE DEF f
  <2>2. IsFiniteSet(Successors(E))
    BY <2>1, FiniteImage
  <2> QED  BY <1>1, <2>2, FS_Subset
<1>3. T # {}
  <2>1. PICK e \in E : e[1] = g
    BY DEF Replaced
  <2>2. e[2] \in After(E, {g})
    BY <2>1 DEF After
  <2> QED  BY <2>2, ReachFollows
<1>4. \A x, y : Descends(E, x, y) => x \in Replaced(E)
  <2> SUFFICES ASSUME NEW x, NEW y, Descends(E, x, y), x \notin Replaced(E)  PROVE FALSE
    OBVIOUS
  <2>1. After(E, {x}) = {}
    BY DEF After, Replaced
  <2>2. Reach(E, {}) \subseteq {}
    BY ReachIsLeast
  <2> QED  BY <2>1, <2>2 DEF Descends
<1>5. \A x, y \in T : <<x, y>> \in R <=> Descends(E, x, y)
  OBVIOUS
<1>6. \A x \in T : g # x => Descends(E, g, x)
  BY DEF Descends
<1> HIDE DEF T, R
<1>7. PICK m \in T : \A y \in T : <<m, y>> \notin R
  <2>1. \A x \in T : <<x, x>> \notin R
    BY <1>4, <1>5 DEF OnCycle
  <2>2. \A x, y, z \in T : <<x, y>> \in R /\ <<y, z>> \in R => <<x, z>> \in R
    BY <1>5, DescentFollows
  <2> QED  BY <1>2, <1>3, <2>1, <2>2, FiniteMaximum
<1>8. m \notin Replaced(E)
  <2> SUFFICES ASSUME m \in Replaced(E)  PROVE FALSE
    OBVIOUS
  <2>1. PICK e \in E : e[1] = m
    BY DEF Replaced
  <2>2. e[2] \in T
    BY <2>1, ReachFollows DEF T
  <2>3. Descends(E, m, e[2])
    BY <2>1, DescentFollows
  <2> QED  BY <1>5, <1>7, <2>2, <2>3
<1>9. m = k
  BY <1>1, <1>8 DEF Heads
<1> QED  BY <1>9 DEF T, Descends
=============================================================================
