-------------------------- MODULE PublishingProofs --------------------------
(***************************************************************************)
(* Publishing, whatever derivation the ceremonies ask: what the replay of  *)
(* a carriage comes to, for any events in any order; that every unit       *)
(* minted carries what it proves; and that serials rise.                   *)
(***************************************************************************)
EXTENDS Publishing, WellFoundedInduction, TLAPS

-----------------------------------------------------------------------------
\* What a replay comes to.

\* Once an event ingests, it goes on doing so.
LEMMA IngestingLasts ==
    ASSUME NEW e, NEW got, NEW more, got \subseteq more, Ingests(e, got)
    PROVE  Ingests(e, more)
BY DEF Ingests

\* What a round may start from: events E in all, of which those got ingest one upon the
\* other and are grounded.
Replaying(E, s) ==
    /\ s = [got |-> s.got, left |-> s.left]
    /\ s.left \in Seq(E) /\ s.got \cup Range(s.left) = E
    /\ s.got \subseteq Grounded(E)
    /\ \A e \in s.got : Ingests(e, s.got)

\* Whatever is grounded and lets an event in, grounds it.
LEMMA GroundedIngests ==
    ASSUME NEW E, NEW got \in SUBSET Grounded(E), NEW e \in E, Ingests(e, got)
    PROVE  e \in Grounded(E)
<1>1. ASSUME NEW S \in SUBSET E, \A x \in E : Ingests(x, S) => x \in S
      PROVE  e \in S
  <2>1. got \subseteq S
    BY <1>1 DEF Grounded
  <2> QED  BY <1>1, <2>1, IngestingLasts
<1> QED  BY <1>1 DEF Grounded

\* Within a round: k of the list have been tried. Either one went in, and fewer are left, or
\* none does.
AttemptStep(p, acc, e) == Attempt(acc, e)

AttemptedSoFar(p, list, k, acc) ==
    /\ acc = [got |-> acc.got, left |-> acc.left]
    /\ p.got \subseteq acc.got /\ acc.got \subseteq Grounded(p.all)
    /\ acc.left \in Seq(p.all)
    /\ p.got \cup {list[j] : j \in 1..k} = acc.got \cup Range(acc.left)
    /\ \A e \in acc.got : Ingests(e, acc.got)
    /\ \/ Len(acc.left) < k
       \/ acc.got = p.got /\ Len(acc.left) = k /\ \A j \in 1..k : ~Ingests(list[j], p.got)

Attempting == INSTANCE Folding WITH Step <- AttemptStep, Holds <- AttemptedSoFar

\* Appending adds the element.
LEMMA Appended ==
    ASSUME NEW E, NEW s \in Seq(E), NEW e \in E
    PROVE  /\ Append(s, e) \in Seq(E) /\ Len(Append(s, e)) = Len(s) + 1
           /\ Range(Append(s, e)) = Range(s) \cup {e}
<1>1. Append(s, e) \in Seq(E) /\ Len(Append(s, e)) = Len(s) + 1
  OBVIOUS
<1>2. ASSUME NEW x
      PROVE  x \in Range(Append(s, e)) <=> x \in Range(s) \/ x = e
  <2>1. ASSUME NEW i \in DOMAIN s PROVE Append(s, e)[i] = s[i] /\ i \in DOMAIN Append(s, e)
    OBVIOUS
  <2>2. Append(s, e)[Len(s) + 1] = e /\ Len(s) + 1 \in DOMAIN Append(s, e)
    OBVIOUS
  <2>3. \A i \in DOMAIN Append(s, e) : i \in DOMAIN s \/ i = Len(s) + 1
    OBVIOUS
  <2> QED  BY <2>1, <2>2, <2>3 DEF Range
<1> QED  BY <1>1, <1>2

LEMMA AttemptKeeps ==
    ASSUME NEW p, NEW list \in Seq(p.all), NEW k \in 1..Len(list), NEW acc,
           AttemptedSoFar(p, list, k - 1, acc)
    PROVE  AttemptedSoFar(p, list, k, Attempt(acc, list[k]))
<1> DEFINE E == p.all
           e == list[k]
           L == acc.left
           G == acc.got
<1>1. e \in p.all /\ L \in Seq(p.all) /\ k \in Nat /\ Len(L) \in Nat
  BY DEF AttemptedSoFar
<1>2. {list[j] : j \in 1..k} = {list[j] : j \in 1..(k - 1)} \cup {e}
  <2>1. \A j : j \in 1..k <=> j \in 1..(k - 1) \/ j = k
    OBVIOUS
  <2> QED  BY <2>1
<1> HIDE DEF e
<1>3. CASE Ingests(e, G)
  <2>1. Attempt(acc, e) = [got |-> G \cup {e}, left |-> L]
    BY <1>3 DEF Attempt, AttemptedSoFar
  <2>2. e \in Grounded(p.all)
    BY <1>1, <1>3, GroundedIngests DEF AttemptedSoFar
  <2>3. \A x \in G \cup {e} : Ingests(x, G \cup {e})
    BY <1>3, IngestingLasts DEF AttemptedSoFar
  <2>4. Len(L) < k
    BY <1>1 DEF AttemptedSoFar
  <2>5. p.got \cup {list[j] : j \in 1..k} = (G \cup {e}) \cup Range(L)
    BY <1>2 DEF AttemptedSoFar
  <2>6. p.got \subseteq G \cup {e} /\ G \cup {e} \subseteq Grounded(p.all)
    BY <2>2 DEF AttemptedSoFar
  <2> DEFINE next == Attempt(acc, e)
  <2>7. next = [got |-> next.got, left |-> next.left] /\ next.got = G \cup {e} /\ next.left = L
    BY <2>1
  <2> HIDE DEF next
  <2>8. AttemptedSoFar(p, list, k, next)
    BY <1>1, <2>3, <2>4, <2>5, <2>6, <2>7 DEF AttemptedSoFar
  <2> QED  BY <2>8 DEF next, e
<1>4. CASE ~Ingests(e, G)
  <2>1. Attempt(acc, e) = [got |-> G, left |-> Append(L, e)]
    BY <1>4 DEF Attempt, AttemptedSoFar
  <2>2. /\ Append(L, e) \in Seq(p.all) /\ Len(Append(L, e)) = Len(L) + 1
        /\ Range(Append(L, e)) = Range(L) \cup {e}
    <3>1. e \in E /\ L \in Seq(E)
      BY <1>1
    <3> HIDE DEF E, L
    <3>2. /\ Append(L, e) \in Seq(E) /\ Len(Append(L, e)) = Len(L) + 1
          /\ Range(Append(L, e)) = Range(L) \cup {e}
      BY <3>1, Appended
    <3> QED  BY <3>2 DEF E
  <2>3. \/ Len(L) + 1 < k
        \/ G = p.got /\ Len(L) + 1 = k /\ \A j \in 1..k : ~Ingests(list[j], p.got)
    <3>1. CASE Len(L) < k - 1
      BY <1>1, <3>1
    <3>2. CASE ~(Len(L) < k - 1)
      <4>1. G = p.got /\ Len(L) = k - 1 /\ \A j \in 1..(k - 1) : ~Ingests(list[j], p.got)
        BY <3>2 DEF AttemptedSoFar
      <4>2. \A j \in 1..k : j \in 1..(k - 1) \/ j = k
        OBVIOUS
      <4>3. \A j \in 1..k : ~Ingests(list[j], p.got)
        BY <1>4, <4>1, <4>2 DEF e
      <4> QED  BY <1>1, <4>1, <4>3
    <3> QED  BY <3>1, <3>2
  <2>4. p.got \cup {list[j] : j \in 1..k} = G \cup (Range(L) \cup {e})
    BY <1>2 DEF AttemptedSoFar
  <2>5. p.got \subseteq G /\ G \subseteq Grounded(p.all) /\ \A x \in G : Ingests(x, G)
    BY DEF AttemptedSoFar
  <2> DEFINE M == Append(L, e)
  <2>6. M \in Seq(p.all) /\ Len(M) = Len(L) + 1 /\ Range(M) = Range(L) \cup {e}
    BY <2>2
  <2> HIDE DEF M
  <2> DEFINE next == Attempt(acc, e)
  <2>7. next = [got |-> next.got, left |-> next.left] /\ next.got = G /\ next.left = M
    BY <2>1 DEF M
  <2> HIDE DEF next
  <2>8. AttemptedSoFar(p, list, k, next)
    BY <1>1, <2>3, <2>4, <2>5, <2>6, <2>7 DEF AttemptedSoFar
  <2> QED  BY <2>8 DEF next, e
<1> QED  BY <1>3, <1>4

\* A round keeps what a replay keeps; and it leaves fewer events than it found, or none of
\* them ingests.
LEMMA RoundKeeps ==
    ASSUME NEW E, NEW s, Replaying(E, s)
    PROVE  /\ Replaying(E, Round(s))
           /\ Len(Round(s).left) <= Len(s.left)
           /\ \/ Len(Round(s).left) < Len(s.left)
              \/ \A e \in Range(s.left) : ~Ingests(e, s.got)
<1> DEFINE p == [all |-> E, got |-> s.got]
           list == s.left
           n == Len(list)
           base == [got |-> s.got, left |-> <<>>]
           end == Attempting!Run(p, base, list)[DOMAIN list]
<1>1. list \in Seq(E) /\ n \in Nat /\ DOMAIN list = 1..n
  BY DEF Replaying
<1>2. Round(s) = end
  BY Zenon DEF Round, FoldLeft, MapThenFoldSet, Max, AttemptStep, Attempting!Run,
               Attempting!Runs, Attempting!Greatest
<1>3. AttemptedSoFar(p, list, 0, base)
  <2>1. {list[j] : j \in 1..0} = {} /\ Range(<<>>) = {} /\ <<>> \in Seq(E) /\ Len(<<>>) = 0
    BY DEF Range
  <2> QED  BY <2>1 DEF AttemptedSoFar, Replaying
<1>4. ASSUME NEW k \in 1..n, NEW acc, AttemptedSoFar(p, list, k - 1, acc)
      PROVE  AttemptedSoFar(p, list, k, AttemptStep(p, acc, list[k]))
  <2>1. p.all = E
    OBVIOUS
  <2> HIDE DEF list, p
  <2> QED  BY <1>1, <1>4, <2>1, AttemptKeeps DEF AttemptStep
<1>5. AttemptedSoFar(p, list, n, end)
  <2> HIDE DEF end, n, list, p, base
  <2> QED  BY <1>1, <1>3, <1>4, Attempting!Kept DEF end
<1> HIDE DEF end
<1>6. {list[j] : j \in 1..n} = Range(list)
  BY <1>1 DEF Range
<1>7. Replaying(E, end)
  BY <1>5, <1>6 DEF AttemptedSoFar, Replaying
<1>8. /\ Len(end.left) <= n
      /\ \/ Len(end.left) < n
         \/ \A e \in Range(list) : ~Ingests(e, s.got)
  BY <1>1, <1>5 DEF AttemptedSoFar, Range
<1> QED  BY <1>2, <1>7, <1>8

\* Where every event is grounded, a round that finds events takes one.
LEMMA RoundTakes ==
    ASSUME NEW E, NEW s, Replaying(E, s), Grounded(E) = E, s.left # <<>>
    PROVE  Len(Round(s).left) < Len(s.left)
<1> SUFFICES ASSUME \A e \in Range(s.left) : ~Ingests(e, s.got)  PROVE FALSE
  BY RoundKeeps
<1>1. \A x \in E : Ingests(x, s.got) => x \in s.got
  BY DEF Replaying
<1>2. E \subseteq s.got
  BY <1>1 DEF Replaying, Grounded
<1>3. s.left[1] \in Range(s.left) /\ s.left[1] \in E
  BY DEF Replaying, Range
<1> QED  BY <1>2, <1>3 DEF Replaying

RoundStep(p, s, e) == Round(s)

ReplayedSoFar(p, list, k, s) ==
    /\ Replaying(Range(list), s)
    /\ Grounded(Range(list)) = Range(list) => s.left = <<>> \/ Len(s.left) <= Len(list) - k

Replays == INSTANCE Folding WITH Step <- RoundStep, Holds <- ReplayedSoFar

LEMMA RoundsKeep ==
    ASSUME NEW E, NEW list \in Seq(E)
    PROVE  ReplayedSoFar({}, list, Len(list), Rounds(list))
<1> DEFINE n == Len(list)
           F == Range(list)
           base == [got |-> {}, left |-> list]
           end == Replays!Run({}, base, list)[DOMAIN list]
<1>1. list \in Seq(F) /\ n \in Nat /\ DOMAIN list = 1..n
  BY DEF Range
<1>2. Rounds(list) = end
  BY Zenon DEF Rounds, FoldLeft, MapThenFoldSet, Max, RoundStep, Replays!Run,
               Replays!Runs, Replays!Greatest
<1>3. ReplayedSoFar({}, list, 0, base)
  BY <1>1 DEF ReplayedSoFar, Replaying
<1>4. ASSUME NEW k \in 1..n, NEW s, ReplayedSoFar({}, list, k - 1, s)
      PROVE  ReplayedSoFar({}, list, k, RoundStep({}, s, list[k]))
  <2>1. Replaying(F, s) /\ Replaying(F, Round(s))
    BY <1>4, RoundKeeps DEF ReplayedSoFar
  <2>2. ASSUME Grounded(F) = F, Round(s).left # <<>>
        PROVE  Len(Round(s).left) <= n - k
    <3>1. CASE s.left = <<>>
      <4>1. Range(s.left) = {} /\ Len(s.left) = 0 /\ Round(s).left \in Seq(F)
        BY <2>1, <3>1 DEF Range, Replaying
      <4>2. Round(s).left = <<>>
        <5>1. Len(Round(s).left) <= 0
          BY <2>1, <4>1, RoundKeeps
        <5> DEFINE rest == Round(s).left
        <5>2. rest \in Seq(F) /\ Len(rest) <= 0
          BY <4>1, <5>1
        <5> HIDE DEF rest, F
        <5>3. rest = <<>>
          BY <5>2
        <5> QED  BY <5>3 DEF rest
      <4> QED  BY <2>2, <4>2
    <3>2. CASE s.left # <<>>
      <4>1. Len(Round(s).left) < Len(s.left) /\ Len(s.left) <= n - (k - 1)
        BY <1>4, <2>1, <2>2, <3>2, RoundTakes DEF ReplayedSoFar
      <4>2. Len(Round(s).left) \in Nat /\ Len(s.left) \in Nat
        BY <2>1 DEF Replaying
      <4> QED  BY <1>1, <4>1, <4>2
    <3> QED  BY <3>1, <3>2
  <2> QED  BY <2>1, <2>2 DEF ReplayedSoFar, RoundStep
<1>5. ReplayedSoFar({}, list, n, end)
  <2> HIDE DEF end, n, base
  <2> QED  BY <1>1, <1>3, <1>4, Replays!Kept DEF end
<1> QED  BY <1>2, <1>5

\* authority.rs replay: a carriage amounts to all its events exactly when every one of them
\* is grounded in the others, however they are ordered or repeated, and to nothing otherwise.
THEOREM ReplayIsOrderFree ==
    ASSUME NEW E, NEW carriage \in Seq(E)
    PROVE  Replay(carriage) =
               IF Grounded(Range(carriage)) = Range(carriage) THEN {Range(carriage)} ELSE {}
<1> DEFINE F == Range(carriage)
           last == Rounds(carriage)
<1>1. Replaying(F, last) /\ (Grounded(F) = F => last.left = <<>> \/ Len(last.left) <= 0)
  BY RoundsKeep DEF ReplayedSoFar
<1>2. Grounded(F) = F => last.left = <<>>
  BY <1>1 DEF Replaying
<1>3. last.left = <<>> => last.got = F /\ Grounded(F) = F
  BY <1>1 DEF Replaying, Range, Grounded
<1> QED  BY <1>2, <1>3 DEF Replay

-----------------------------------------------------------------------------
\* What a unit says of its own authority is what its carriage proves.

RootOf(u) == IF u.kind = "Successor" THEN u.pred ELSE u.doc

Judged(u) ==
    u.kind # "ChainRefresh" =>
        /\ u.carriage \in Seq(Range(u.carriage))
        /\ u.authorized = Authorizes(RootOf(u), u.signer, u.carriage)
        /\ u.kind = "Record" =>
              /\ u.path = Path(u.carriage)
              /\ u = [kind |-> u.kind, host |-> u.host, doc |-> u.doc, chain |-> u.chain,
                      issued |-> u.issued, signer |-> u.signer, carriage |-> u.carriage,
                      authorized |-> u.authorized, path |-> u.path, lineage |-> u.lineage,
                      predecessor |-> u.predecessor]

\* A log of such units.
Log(log) == log \in Seq(Range(log)) /\ \A u \in Range(log) : Judged(u)

LEMMA MintedIs ==
    ASSUME NEW log, Log(log), NEW u, Judged(u)
    PROVE  /\ Log(Minted(log, u)) /\ Range(Minted(log, u)) = Range(log) \cup {u}
           /\ DOMAIN log \subseteq DOMAIN Minted(log, u)
<1>1. CASE u \in Range(log)
  BY <1>1 DEF Minted
<1>2. CASE u \notin Range(log)
  <2> DEFINE E == Range(log) \cup {u}
             more == Append(log, u)
  <2>1. log \in Seq(E) /\ u \in E
    BY DEF Log
  <2>2. more \in Seq(E) /\ Range(more) = Range(log) \cup {u} /\ Len(more) = Len(log) + 1
    <3> HIDE DEF E
    <3> QED  BY <2>1, Appended
  <2>3. DOMAIN log = 1..Len(log) /\ DOMAIN more = 1..Len(more) /\ Len(log) \in Nat
    BY <2>1, <2>2
  <2>4. Minted(log, u) = more
    BY <1>2 DEF Minted
  <2>5. DOMAIN log \subseteq DOMAIN more
    BY <2>2, <2>3
  <2> HIDE DEF more
  <2> QED  BY <2>2, <2>4, <2>5 DEF Log
<1> QED  BY <1>1, <1>2

LEMMA HashInIs ==
    ASSUME NEW log, NEW u \in Range(log)
    PROVE  HashIn(log, u) \in DOMAIN log
<1>1. \E n \in DOMAIN log : log[n] = u
  BY DEF Range
<1> QED  BY <1>1 DEF HashIn

\* Both events of a relay carriage, and none of an empty one.
LEMMA CarriagesAre ==
    ASSUME NEW root, NEW key
    PROVE  /\ RelayCarriage(root, key) \in Seq(Range(RelayCarriage(root, key)))
           /\ <<>> \in Seq(Range(<<>>))
<1> DEFINE a == Prekeys(key)
           b == Delegated(root, root, key, "Relay", {})
<1>1. RelayCarriage(root, key) = <<a, b>>
  BY DEF RelayCarriage
<1> HIDE DEF a, b
<1>2. <<a, b>> \in Seq(Range(<<a, b>>))
  BY DEF Range
<1> QED  BY <1>1, <1>2

LEMMA CertificatesJudged ==
    ASSUME NEW doc, NEW issued, NEW signer, NEW carriage, NEW lineage, NEW predecessor, NEW chain,
           carriage \in Seq(Range(carriage))
    PROVE  LET c == Certificate(doc, issued, signer, carriage, lineage, predecessor, chain)
           IN  Judged(c) /\ Judged([c EXCEPT !.chain = LiveChain])
BY DEF Certificate, Judged, RootOf

LEMMA StatementsJudged ==
    ASSUME NEW doc, NEW replaced, NEW successor, NEW pred, NEW succ,
           NEW carriage, carriage \in Seq(Range(carriage))
    PROVE  /\ Judged(RotationStatement(doc, replaced, successor, carriage))
           /\ Judged(SuccessorStatement(pred, succ))
           /\ Judged(ChainRefresh)
BY CarriagesAre DEF RotationStatement, SuccessorStatement, ChainRefresh, Judged, RootOf

Sound == Log(units) /\ field \subseteq DOMAIN units

\* Whatever part of a ceremony's artifacts is written, is of what was minted.
LEMMA WrittenIs ==
    ASSUME NEW S, NEW artifacts \in Seq(S), NEW written \in 0..Len(artifacts)
    PROVE  Range(SubSeq(artifacts, 1, written)) \subseteq S
<1>1. SubSeq(artifacts, 1, written) \in Seq(S)
  OBVIOUS
<1> QED  BY <1>1 DEF Range

LEMMA EmitSound ==
    ASSUME Sound, NEW log, Log(log), DOMAIN units \subseteq DOMAIN log,
           NEW retain, NEW publish, NEW intent, NEW artifacts \in Seq(DOMAIN log),
           Emit(log, retain, publish, artifacts, intent)
    PROVE  Sound'
<1>1. units' = log
  BY DEF Emit
<1>2. PICK written \in 0..Len(artifacts) :
           field' = field \cup Range(SubSeq(artifacts, 1, written))
  BY DEF Emit
<1>3. Range(SubSeq(artifacts, 1, written)) \subseteq DOMAIN log
  BY WrittenIs
<1> QED  BY <1>1, <1>2, <1>3 DEF Sound

LEMMA PerformSound ==
    ASSUME Sound, NEW log, Log(log), DOMAIN units \subseteq DOMAIN log,
           NEW certificate, NEW retain, NEW record, NEW clock, NEW artifacts \in Seq(DOMAIN log),
           Perform(log, certificate, retain, record, clock, artifacts)
    PROVE  Sound'
BY EmitSound DEF Perform

\* A certificate on top of a log, and what else may be written with it.
LEMMA OntoLog ==
    ASSUME NEW log, Log(log), NEW s \in Range(log), NEW c, Judged(c)
    PROVE  LET more == Minted(log, c)
           IN  /\ Log(more) /\ DOMAIN log \subseteq DOMAIN more
               /\ <<HashIn(more, c)>> \in Seq(DOMAIN more)
               /\ <<HashIn(more, c), HashIn(more, s)>> \in Seq(DOMAIN more)
<1> DEFINE more == Minted(log, c)
<1>1. Log(more) /\ DOMAIN log \subseteq DOMAIN more /\ c \in Range(more) /\ s \in Range(more)
  BY MintedIs
<1>2. HashIn(more, c) \in DOMAIN more /\ HashIn(more, s) \in DOMAIN more
  BY <1>1, HashInIs
<1> QED  BY <1>1, <1>2

\* The same without another.
LEMMA AloneOntoLog ==
    ASSUME NEW log, Log(log), NEW c, Judged(c)
    PROVE  LET more == Minted(log, c)
           IN  /\ Log(more) /\ DOMAIN log \subseteq DOMAIN more
               /\ HashIn(more, c) \in DOMAIN more
               /\ <<HashIn(more, c)>> \in Seq(DOMAIN more)
<1> DEFINE more == Minted(log, c)
<1>1. Log(more) /\ DOMAIN log \subseteq DOMAIN more /\ c \in Range(more)
  BY MintedIs
<1>2. HashIn(more, c) \in DOMAIN more
  BY <1>1, HashInIs
<1> QED  BY <1>1, <1>2

LEMMA BindSound ==
    ASSUME Sound, NEW doc, NEW gen, NEW clock, Bind(doc, gen, clock)
    PROVE  Sound'
<1> DEFINE c == Certificate(doc, clock, doc, RelayCarriage(doc, gen), {}, {}, NoChain)
           log == Minted(units, c)
<1>1. Judged(c)
  BY CarriagesAre, CertificatesJudged
<1>2. Perform(log, HashIn(log, c), {}, TxtRecord(clock, gen, doc), clock, <<HashIn(log, c)>>)
  BY DEF Bind
<1> HIDE DEF c
<1>3. Log(log) /\ DOMAIN units \subseteq DOMAIN log /\ <<HashIn(log, c)>> \in Seq(DOMAIN log)
  BY <1>1, AloneOntoLog DEF Sound
<1> HIDE DEF log
<1> QED  BY <1>2, <1>3, PerformSound

LEMMA RotateSound ==
    ASSUME Sound, NEW doc, NEW replaced, NEW next, NEW prior, NEW clock,
           Rotate(doc, replaced, next, prior, clock)
    PROVE  Sound'
<1> DEFINE carriage == RelayCarriage(doc, next)
           s == RotationStatement(doc, replaced, next, carriage)
           stated == Minted(units, s)
           lineage == Extended(prior, HashIn(stated, s))
           c == Certificate(doc, clock, doc, carriage, lineage, {}, NoChain)
           log == Minted(stated, c)
<1>1. Judged(s) /\ Judged(c)
  <2>1. carriage \in Seq(Range(carriage))
    BY CarriagesAre
  <2> HIDE DEF carriage, lineage
  <2> QED  BY <2>1, CertificatesJudged, StatementsJudged
<1>2. Perform(log, HashIn(log, c), {}, TxtRecord(clock, next, doc), clock,
              <<HashIn(log, c), HashIn(log, s)>>)
  BY DEF Rotate
<1> HIDE DEF c, s
<1>3. Log(stated) /\ DOMAIN units \subseteq DOMAIN stated /\ s \in Range(stated)
  BY <1>1, MintedIs DEF Sound
<1> HIDE DEF stated
<1>4. Log(log) /\ DOMAIN stated \subseteq DOMAIN log
      /\ <<HashIn(log, c), HashIn(log, s)>> \in Seq(DOMAIN log)
  BY <1>1, <1>3, OntoLog
<1> HIDE DEF log
<1> QED  BY <1>2, <1>3, <1>4, PerformSound

LEMMA MigrateSound ==
    ASSUME Sound, NEW pred, NEW succ, NEW gen, NEW clock, Migrate(pred, succ, gen, clock)
    PROVE  Sound'
<1> DEFINE s == SuccessorStatement(pred, succ)
           stated == Minted(units, s)
           c == Certificate(succ, clock, succ, RelayCarriage(succ, gen), {},
                            {HashIn(stated, s)}, NoChain)
           log == Minted(stated, c)
<1>1. Judged(s) /\ Judged(c)
  BY CarriagesAre, CertificatesJudged, StatementsJudged
<1>2. PICK retained \in TopWord(Listed(zone), pred) :
          Perform(log, HashIn(log, c), {retained}, TxtRecord(clock, gen, succ), clock,
                  <<HashIn(log, c), HashIn(log, s)>>)
  BY DEF Migrate
<1> HIDE DEF c, s
<1>3. Log(stated) /\ DOMAIN units \subseteq DOMAIN stated /\ s \in Range(stated)
  BY <1>1, MintedIs DEF Sound
<1> HIDE DEF stated
<1>4. Log(log) /\ DOMAIN stated \subseteq DOMAIN log
      /\ <<HashIn(log, c), HashIn(log, s)>> \in Seq(DOMAIN log)
  BY <1>1, <1>3, OntoLog
<1> HIDE DEF log
<1> QED  BY <1>2, <1>3, <1>4, PerformSound

LEMMA RefreshSound ==
    ASSUME Sound, NEW certificate \in Certificates, NEW clock, Refresh(certificate, clock)
    PROVE  Sound'
<1> DEFINE c == [units[certificate] EXCEPT !.chain = LiveChain]
           log == Minted(units, c)
<1>1. Judged(c)
  <2>1. Judged(units[certificate]) /\ units[certificate].kind = "Record"
    BY DEF Sound, Log, Certificates, Range
  <2> DEFINE u == units[certificate]
  <2> HIDE DEF u
  <2>2. Judged(u) /\ u.kind = "Record"
    BY <2>1 DEF u
  <2>3. Judged([u EXCEPT !.chain = LiveChain])
    BY <2>2 DEF Judged, RootOf
  <2> QED  BY <2>3 DEF u
<1>2. PICK word : Emit(log, {}, {}, <<HashIn(log, c)>>, {})
  BY DEF Refresh
<1> HIDE DEF c
<1>3. Log(log) /\ DOMAIN units \subseteq DOMAIN log /\ <<HashIn(log, c)>> \in Seq(DOMAIN log)
  BY <1>1, AloneOntoLog DEF Sound
<1> HIDE DEF log
<1> QED  BY <1>2, <1>3, EmitSound

LEMMA RecordSound ==
    ASSUME Sound, NEW doc, NEW gen, NEW serial, NEW clock, NEW chains,
           Record(doc, gen, serial, clock, chains)
    PROVE  Sound'
<1> DEFINE records == {TxtRecord(serial, gen, doc)}
           c(chain) == Certificate(doc, clock, doc, RelayCarriage(doc, gen), {}, {}, chain)
           log(chain) == Minted(units, c(chain))
<1>1. CASE Emit(units, {}, records, <<>>, {})
  <2>1. <<>> \in Seq(DOMAIN units)
    OBVIOUS
  <2> QED  BY <1>1, <2>1, EmitSound DEF Sound
<1>2. CASE \E chain \in chains :
              Emit(log(chain), {}, records, <<HashIn(log(chain), c(chain))>>, {})
  <2>1. PICK chain \in chains :
            Emit(log(chain), {}, records, <<HashIn(log(chain), c(chain))>>, {})
    BY <1>2
  <2> DEFINE d == c(chain)
             more == Minted(units, d)
  <2>2. Judged(d)
    BY CarriagesAre, CertificatesJudged
  <2>3. Emit(more, {}, records, <<HashIn(more, d)>>, {})
    BY <2>1
  <2> HIDE DEF d
  <2>4. Log(more) /\ DOMAIN units \subseteq DOMAIN more /\ <<HashIn(more, d)>> \in Seq(DOMAIN more)
    BY <2>2, AloneOntoLog DEF Sound
  <2> HIDE DEF more
  <2> QED  BY <2>3, <2>4, EmitSound
<1> QED  BY <1>1, <1>2 DEF Record

LEMMA PublishSound ==
    ASSUME Sound, NEW u, Judged(u), Publish(u)
    PROVE  Sound'
<1>1. Log(Minted(units, u)) /\ DOMAIN units \subseteq DOMAIN Minted(units, u)
      /\ HashIn(Minted(units, u), u) \in DOMAIN Minted(units, u)
  BY AloneOntoLog DEF Sound
<1> QED  BY <1>1 DEF Publish, Sound

\* It holds from the start and of every step.
LEMMA SoundAlways == Spec => []Sound
<1>1. Init => Sound
  <2> SUFFICES ASSUME Init  PROVE Sound
    OBVIOUS
  <2> DEFINE carriage == RelayCarriage(Bound.doc, Bound.gen)
             s == RotationStatement(Bound.doc, Bound.before, Bound.gen, carriage)
             c == Certificate(Bound.doc, 1, Bound.doc, carriage, {1}, {}, LiveChain)
  <2>1. Judged(s) /\ Judged(c)
    BY CarriagesAre, CertificatesJudged, StatementsJudged
  <2>2. units = <<s, c>> /\ field = {1, 2}
    BY DEF Init
  <2> HIDE DEF s, c
  <2>3. Range(<<s, c>>) = {s, c} /\ <<s, c>> \in Seq({s, c}) /\ DOMAIN <<s, c>> = {1, 2}
    BY DEF Range
  <2> QED  BY <2>1, <2>2, <2>3 DEF Sound, Log
<1>2. ASSUME Sound, [Next]_vars  PROVE Sound'
  <2>1. CASE Ceremony
    <3>1. PICK clock \in Clocks :
             \/ \E b \in Bindings : Bind(b.doc, b.gen, clock)
             \/ \E r \in Rotations : \E prior \in Priors(r.doc) :
                   Rotate(r.doc, r.replaced, r.next, prior, clock)
             \/ \E m \in Migrations : Migrate(m.pred, m.succ, m.gen, clock)
             \/ \E certificate \in Certificates : Refresh(certificate, clock)
      BY <2>1 DEF Ceremony
    <3> QED  BY <1>2, <3>1, BindSound, RotateSound, MigrateSound, RefreshSound
  <2>2. CASE RecordNext \/ RecordExplicit
    BY <1>2, <2>2, RecordSound DEF RecordNext, RecordExplicit
  <2>3. CASE Observe
    BY <1>2, <2>3, PublishSound, StatementsJudged, CarriagesAre DEF Observe
  <2>4. CASE Certify
    <3>1. PICK f \in Foreign :
              Publish(Certificate(f.doc, now, f.signer, f.carriage, {}, {}, LiveChain))
      BY <2>4 DEF Certify
    <3>2. f.carriage \in Seq(Range(f.carriage))
      BY PublishingAssumption
    <3>3. Judged(Certificate(f.doc, now, f.signer, f.carriage, {}, {}, LiveChain))
      BY <3>2, CertificatesJudged
    <3> QED  BY <1>2, <3>1, <3>3, PublishSound
  <2>5. CASE EditZone \/ Tick
    BY <1>2, <2>5 DEF EditZone, Tick, Sound
  <2>6. CASE UNCHANGED vars
    BY <1>2, <2>6 DEF vars, Sound
  <2> QED  BY <1>2, <2>1, <2>2, <2>3, <2>4, <2>5, <2>6 DEF Next
<1> QED  BY <1>1, <1>2, PTL DEF Spec

\* authority.rs: every unit that any ceremony or anybody else mints is authorized, and names
\* a generation's path, exactly when the events of its carriage are grounded in one another
\* and say so, in whatever order they travel.
THEOREM AuthorityIsAlwaysProven == Spec => []AuthorityIsProven
<1>1. Sound => AuthorityIsProven
  <2> SUFFICES ASSUME Sound, NEW n \in DOMAIN units, units[n].kind # "ChainRefresh"
               PROVE  LET u == units[n]
                          root == IF u.kind = "Successor" THEN u.pred ELSE u.doc
                          events == Range(u.carriage)
                          whole == Grounded(events) = events
                      IN  /\ u.authorized <=> u.signer = root \/ (whole /\ Sanctioned(events, root, u.signer))
                          /\ u.kind = "Record" =>
                                u.path = {k \in {d.delegate : d \in Delegations(events)} : whole}
    BY DEF AuthorityIsProven
  <2> DEFINE u == units[n]
             events == Range(u.carriage)
             whole == Grounded(events) = events
  <2>1. Judged(u)
    BY DEF Sound, Log, Range
  <2> HIDE DEF u
  <2>2. /\ u.carriage \in Seq(Range(u.carriage))
        /\ u.authorized = Authorizes(RootOf(u), u.signer, u.carriage)
        /\ u.kind = "Record" => u.path = Path(u.carriage)
    BY <2>1 DEF Judged, u
  <2>3. Replay(u.carriage) = IF whole THEN {events} ELSE {}
    BY <2>2, ReplayIsOrderFree
  <2> HIDE DEF events, whole
  <2>4. Authorizes(RootOf(u), u.signer, u.carriage)
          <=> u.signer = RootOf(u) \/ (whole /\ Sanctioned(events, RootOf(u), u.signer))
    BY <2>3 DEF Authorizes
  <2>5. Path(u.carriage) = {k \in {d.delegate : d \in Delegations(events)} : whole}
    BY <2>3 DEF Path
  <2> QED  BY <2>2, <2>4, <2>5 DEF RootOf, u, events, whole
<1> QED  BY <1>1, SoundAlways, PTL

-----------------------------------------------------------------------------
\* Serials.

\* Of the serials ever spoken there is a highest, since the range has an end.
InRange ==
    /\ spoken # {} /\ \A r \in spoken : r.serial \in 0..MaxSerial
    /\ \A p \in plan : \A r \in p.publish : r.serial \in 0..MaxSerial

LEMMA HighestIs ==
    ASSUME InRange
    PROVE  \E m \in 0..MaxSerial : Seen = {m} /\ \A s \in spoken : s.serial <= m
<1> DEFINE D == {MaxSerial - r.serial : r \in spoken}
<1>1. MaxSerial \in Nat
  BY PublishingAssumption
<1>2. D \subseteq Nat /\ D # {}
  BY <1>1 DEF InRange
<1>3. PICK d \in D : \A e \in D : ~(<<e, d>> \in OpToRel(<, Nat))
  BY <1>2, NatLessThanWellFounded, WFMin
<1>4. \A e \in D : ~(e < d)
  BY <1>2, <1>3 DEF OpToRel
<1>5. PICK r \in spoken : d = MaxSerial - r.serial
  BY <1>3
<1>6. \A s \in spoken : s.serial <= r.serial
  <2> TAKE s \in spoken
  <2>1. ~(MaxSerial - s.serial < MaxSerial - r.serial)
    BY <1>4, <1>5
  <2>2. s.serial \in Int /\ r.serial \in Int
    BY <1>1 DEF InRange
  <2> QED  BY <1>1, <2>1, <2>2
<1>7. Seen = {r.serial}
  <2>1. \A s \in spoken : (\A y \in spoken : y.serial <= s.serial) => s.serial = r.serial
    <3> TAKE s \in spoken
    <3>1. s.serial \in Int /\ r.serial \in Int
      BY <1>1 DEF InRange
    <3> QED  BY <1>6, <3>1
  <2> QED  BY <1>6, <2>1 DEF Seen
<1> QED  BY <1>6, <1>7 DEF InRange

\* What next gives is in range, and above everything spoken.
LEMMA NextIsAbove ==
    ASSUME InRange, NEW clock \in Clocks, NEW serial \in NextSerial(Seen, clock)
    PROVE  serial \in 0..MaxSerial /\ \A s \in spoken : s.serial < serial
<1>1. PICK m \in 0..MaxSerial : Seen = {m} /\ \A s \in spoken : s.serial <= m
  BY HighestIs
<1>2. MaxSerial \in Nat /\ clock \in 0..MaxSerial
  BY PublishingAssumption DEF Clocks
<1>3. m # MaxSerial /\ serial = IF clock > m + 1 THEN clock ELSE m + 1
  BY <1>1 DEF NextSerial
<1>4. serial \in 0..MaxSerial /\ m < serial
  BY <1>1, <1>2, <1>3
<1> QED  BY <1>1, <1>4 DEF InRange

\* What the record verb leaves to publish.
LEMMA RecordIs ==
    ASSUME NEW doc, NEW gen, NEW serial, NEW clock, NEW chains,
           Record(doc, gen, serial, clock, chains)
    PROVE  /\ spoken' = spoken
           /\ \A p \in plan' : \A r \in p.publish : r.serial = serial
<1>1. ASSUME NEW log, NEW artifacts, Emit(log, {}, {TxtRecord(serial, gen, doc)}, artifacts, {})
      PROVE  /\ spoken' = spoken
             /\ \A p \in plan' : \A r \in p.publish : r.serial = serial
  <2> DEFINE records == {TxtRecord(serial, gen, doc)}
             told == [retain |-> {}, publish |-> records, intent |-> {}]
  <2>1. records # {} /\ \A r \in records : r.serial = serial
    BY DEF TxtRecord
  <2> HIDE DEF records
  <2>2. plan' = {told} /\ spoken' = spoken
    BY <1>1, <2>1 DEF Emit, records
  <2> QED  BY <2>1, <2>2
<1>2. \E log, artifacts : Emit(log, {}, {TxtRecord(serial, gen, doc)}, artifacts, {})
  <2> DEFINE c(chain) == Certificate(doc, clock, doc, RelayCarriage(doc, gen), {}, {}, chain)
             log(chain) == Minted(units, c(chain))
  <2>1. \/ Emit(units, {}, {TxtRecord(serial, gen, doc)}, <<>>, {})
        \/ \E chain \in chains :
               Emit(log(chain), {}, {TxtRecord(serial, gen, doc)},
                    <<HashIn(log(chain), c(chain))>>, {})
    BY DEF Record
  <2> QED  BY <2>1
<1> QED  BY <1>1, <1>2

LEMMA PerformInRange ==
    ASSUME InRange, NEW log, NEW certificate, NEW retain, NEW doc, NEW gen, NEW clock \in Clocks,
           NEW artifacts,
           Perform(log, certificate, retain, TxtRecord(clock, gen, doc), clock, artifacts)
    PROVE  InRange'
BY DEF Perform, Emit, TxtRecord, InRange, Clocks

LEMMA InRangeAlways == Spec => []InRange
<1>1. Init => InRange
  BY PublishingAssumption DEF Init, InRange, TxtRecord
<1>2. ASSUME InRange, [Next]_vars  PROVE InRange'
  <2>1. CASE Ceremony
    <3>1. PICK clock \in Clocks :
             \/ \E b \in Bindings : Bind(b.doc, b.gen, clock)
             \/ \E r \in Rotations : \E prior \in Priors(r.doc) :
                   Rotate(r.doc, r.replaced, r.next, prior, clock)
             \/ \E m \in Migrations : Migrate(m.pred, m.succ, m.gen, clock)
             \/ \E certificate \in Certificates : Refresh(certificate, clock)
      BY <2>1 DEF Ceremony
    <3>2. ASSUME NEW doc, NEW gen, Bind(doc, gen, clock)
          PROVE  InRange'
      BY <1>2, <3>2, PerformInRange DEF Bind
    <3>3. ASSUME NEW doc, NEW replaced, NEW next, NEW prior,
                 Rotate(doc, replaced, next, prior, clock)
          PROVE  InRange'
      BY <1>2, <3>3, PerformInRange DEF Rotate
    <3>4. ASSUME NEW pred, NEW succ, NEW gen, Migrate(pred, succ, gen, clock)
          PROVE  InRange'
      BY <1>2, <3>4, PerformInRange DEF Migrate
    <3>5. ASSUME NEW certificate, Refresh(certificate, clock)
          PROVE  InRange'
      BY <1>2, <3>5 DEF Refresh, Emit, InRange
    <3> QED  BY <3>1, <3>2, <3>3, <3>4, <3>5
  <2>2. CASE RecordNext
    <3>1. PICK b \in Bindings, clock \in Clocks, chains \in Attachable :
              \E serial \in NextSerial(Seen, clock) : Record(b.doc, b.gen, serial, clock, chains)
      BY <2>2 DEF RecordNext
    <3>2. PICK serial \in NextSerial(Seen, clock) : Record(b.doc, b.gen, serial, clock, chains)
      BY <3>1
    <3> QED  BY <1>2, <3>2, NextIsAbove, RecordIs DEF InRange
  <2>3. CASE RecordExplicit
    <3>1. PICK b \in Bindings, clock \in Clocks, chains \in Attachable :
              \E serial \in Explicit : Record(b.doc, b.gen, serial, clock, chains)
      BY <2>3 DEF RecordExplicit
    <3>2. PICK serial \in Explicit : Record(b.doc, b.gen, serial, clock, chains)
      BY <3>1
    <3> QED  BY <1>2, <3>2, RecordIs, PublishingAssumption DEF InRange
  <2>4. CASE EditZone
    BY <1>2, <2>4 DEF EditZone, InRange
  <2>5. CASE Observe \/ Certify \/ Tick
    BY <1>2, <2>5 DEF Observe, Certify, Publish, Tick, InRange
  <2>6. CASE UNCHANGED vars
    BY <1>2, <2>6 DEF vars, InRange
  <2> QED  BY <1>2, <2>1, <2>2, <2>3, <2>4, <2>5, <2>6 DEF Next
<1> QED  BY <1>1, <1>2, PTL DEF Spec

\* serial.rs next: whatever the clock shows and however far ahead the last serial was, the
\* serial chosen for a new record is in range and above every one the zone ever spoke.
THEOREM SerialsAlwaysRise == Spec => SerialsRise
<1>1. InRange /\ [Next]_vars =>
         [RecordNext =>
             \A p \in plan' : \A r \in p.publish :
                 r.serial <= MaxSerial /\ \A s \in spoken : s.serial < r.serial]_vars
  <2> SUFFICES ASSUME InRange, RecordNext, NEW p \in plan', NEW r \in p.publish
               PROVE  r.serial <= MaxSerial /\ \A s \in spoken : s.serial < r.serial
    OBVIOUS
  <2>1. PICK b \in Bindings, clock \in Clocks, chains \in Attachable :
            \E serial \in NextSerial(Seen, clock) : Record(b.doc, b.gen, serial, clock, chains)
    BY DEF RecordNext
  <2>2. PICK serial \in NextSerial(Seen, clock) : Record(b.doc, b.gen, serial, clock, chains)
    BY <2>1
  <2>3. r.serial = serial
    BY <2>2, RecordIs
  <2>4. MaxSerial \in Nat
    BY PublishingAssumption
  <2> QED  BY <2>2, <2>3, <2>4, NextIsAbove
<1> QED  BY <1>1, InRangeAlways, PTL DEF Spec, SerialsRise
=============================================================================
