----------------------------- MODULE Derivation -----------------------------
(***************************************************************************)
(* derive(store, now, decisions, pins) for one hostname: stages 2 to 8 of  *)
(* the verifier, over the rows and statements of stage 1 (Evidence).       *)
(*                                                                         *)
(* An Option of the code is a set of at most one element here. Documents,  *)
(* generations and content hashes are naturals in byte order.              *)
(*                                                                         *)
(* A decision document is a record                                         *)
(*   acceptances   [host -> set of [doc, cited]], cited a set of hashes    *)
(*   claims        [host -> set of documents]                              *)
(*   resets        [host -> set of hashes]                                 *)
(***************************************************************************)
EXTENDS Evidence, Lineage, Succession

DocsOf(R) == {r.doc : r \in R}

Certificates(R) == {r \in R : r.att = "Certificate"}

-----------------------------------------------------------------------------
\* Mutant: the hostname filter is forgotten.
OpenAnyHost(rows, host, now, X) ==
    {r \in rows : r.hash \notin X /\ ~Deferred(r, now)}

\* Stage 2: exclude, defer, then keep bare refreshes only beside a
\* certificate row for the same document.
Open(rows, host, now, X) ==
    {r \in rows : r.host = host /\ r.hash \notin X /\ ~Deferred(r, now)}

Corroborated(R) == {r \in R : r.doc \in DocsOf(Certificates(R))}

Considered(rows, host, now, X) == Corroborated(Open(rows, host, now, X))

\* Rotations are document-scoped: a reset of any hostname excludes them.
EveryReset(decisions) == UNION {decisions.resets[h] : h \in DOMAIN decisions.resets}

-----------------------------------------------------------------------------
\* Stage 3, for one document.
Edges(H, decisions, doc) ==
    {<<Content[s].replaced, Content[s].successor>> :
        s \in {x \in Unexcluded(H, "Rotation", EveryReset(decisions)) :
                   Content[x].doc = doc}}

LineageOf(H, decisions, docs) ==
    [doc \in docs |-> LineageView(Edges(H, decisions, doc))]

-----------------------------------------------------------------------------
\* Stage 4, the generation rules. lineage maps each document to its view.

OffPath(r, now) == Fresh(r, now) /\ ~r.onPath

Retired(r, lineage) == r.gen \in lineage[r.doc].protected

\* Mutant: a later generation is looked for among the earlier ones.
MovedBack(r, lineage, considered) ==
    \E o \in considered :
        o.doc = r.doc /\ <<o.gen, r.gen>> \in lineage[r.doc].descents

\* Some considered row attests a later generation of the same document: the
\* zone was seen moving forward.
MovedOn(r, lineage, considered) ==
    \E o \in considered :
        o.doc = r.doc /\ <<r.gen, o.gen>> \in lineage[r.doc].descents

Survivors(considered, lineage, now) ==
    {r \in considered :
        /\ ~OffPath(r, now)
        /\ Retired(r, lineage) =>
              Fresh(r, now) /\ ~MovedOn(r, lineage, considered)}

\* Documents whose uncorroborated rewind survives, and contests them.
RewoundDocs(surviving, lineage) ==
    DocsOf({r \in surviving : Retired(r, lineage)})

\* Forks the rules surface: fresh rewinds, rejected or not, and every
\* surviving row in fork territory.
GradedForks(considered, lineage, now) ==
    {[doc |-> r.doc, at |-> r.gen] :
        r \in {x \in considered :
            /\ ~OffPath(x, now)
            /\ \/ Retired(x, lineage) /\ Fresh(x, now)
               \/ x.gen \in lineage[x.doc].implicated}}

LineageForks(lineage) ==
    UNION {{[doc |-> doc, at |-> k] : k \in lineage[doc].forks} :
           doc \in DOMAIN lineage}

-----------------------------------------------------------------------------
\* Stage 5. A view is what the ladder reads: the lineages, the succession
\* proofs as pairs, and the clock.

\* Signed evidence that l is older than r.
Precedes(l, r, view) ==
    IF l.doc = r.doc THEN <<l.gen, r.gen>> \in view.lineage[l.doc].descents
                     ELSE <<l.doc, r.doc>> \in view.proofs

SignedOrder(l, r, view) ==
    CASE Precedes(l, r, view) /\ Precedes(r, l, view)   -> "Fork"
      [] Precedes(l, r, view) /\ ~Precedes(r, l, view)  -> "RightNewer"
      [] ~Precedes(l, r, view) /\ Precedes(r, l, view)  -> "LeftNewer"
      [] ~Precedes(l, r, view) /\ ~Precedes(r, l, view) -> "Silent"

\* ladder_verdict.
LadderVerdict(l, r, view) ==
    Compare(l, r, SignedOrder(l, r, view), view.now)

Undominated(R, view) ==
    {r \in R : \A o \in R : o # r => LadderVerdict(o, r, view) # "Left"}

IsSingle(R) == \E r \in R : R = {r}

\* Mutant: equal spellings are all kept.
SpellingsUnmerged(surviving, doc) == {r \in surviving : r.doc = doc}

\* Rows of one document that spell the same generation and zone state are
\* one: the smallest hash stands for them.
Spellings(surviving, doc) ==
    {r \in surviving :
        /\ r.doc = doc
        /\ \A o \in surviving :
              o.doc = doc /\ o.gen = r.gen /\ SameKey(o, r) => r.hash <= o.hash}

RowLess(l, r) ==
    \/ KeyLess(l, r)
    \/ SameKey(l, r) /\ l.gen < r.gen
    \/ SameKey(l, r) /\ l.gen = r.gen /\ l.hash < r.hash

Settles(surviving, doc, view) ==
    IsSingle(Undominated(Spellings(surviving, doc), view))

\* best_of_document: the one undominated row, or else the greatest.
BestOf(surviving, doc, view) ==
    IF Settles(surviving, doc, view)
    THEN Undominated(Spellings(surviving, doc), view)
    ELSE {r \in Spellings(surviving, doc) :
             \A o \in Spellings(surviving, doc) : o = r \/ RowLess(o, r)}

\* Mutant: stage 2's corroboration is trusted for candidacy.
CandidatesByAnyRow(surviving) == DocsOf(surviving)

\* Candidates are documents some CERTIFICATE row still attests.
Candidates(surviving) == DocsOf(Certificates(surviving))

BestRows(surviving, view) ==
    UNION {BestOf(surviving, doc, view) : doc \in Candidates(surviving)}
-----------------------------------------------------------------------------
\* winning_acceptance, the receipts rule. It reads every row of stage 1, the
\* deferred and the rejected ones too.

CitedRows(a, rows) == {r \in rows : r.hash \in a.cited}

Evaluable(a, host, ev, X) ==
    /\ a.cited \cap X = {}
    /\ a.cited \subseteq ev.held
    /\ \A hash \in a.cited : \E r \in ev.rows : r.hash = hash
    /\ \A r \in CitedRows(a, ev.rows) : r.host = host
    /\ a.doc \in DocsOf(CitedRows(a, ev.rows))

\* a's greatest cited key is above every key b cites.
Outranks(a, b, rows) ==
    \E r \in CitedRows(a, rows) : \A s \in CitedRows(b, rows) : KeyLess(s, r)

Receipts(host, ev, decisions) ==
    {a \in decisions.acceptances[host] :
        Evaluable(a, host, ev, decisions.resets[host])}

TopDocs(receipts, rows) ==
    DocsOf({a \in receipts : \A b \in receipts : ~Outranks(b, a, rows)})

LosingDocs(receipts, rows) == DocsOf(receipts) \ TopDocs(receipts, rows)

\* Conflicting receipts of equal rank have no winner.
Winner(top) == {doc \in top : top = {doc}}

-----------------------------------------------------------------------------
\* resolve_document. best is BestRows, undominated its ladder-maximal part,
\* winner the document of the acceptance that won.

FirstByDoc(R) == {r \in R : \A o \in R : r.doc <= o.doc}

Maximal(best, undominated) ==
    FirstByDoc(IF undominated = {} THEN best ELSE undominated)

Incumbent(winner, maximal, view) ==
    IF winner = {} THEN DocsOf(maximal)
    ELSE {Last(ChainFrom(view.hops, doc)) : doc \in winner}

\* Mutant: the latest key is eligible, stale or not.
EligibleAnyone(r, incumbent, view) == TRUE

\* A candidate that may take the incumbent's place, or is it.
Eligible(r, incumbent, view) ==
    \/ r.doc \in incumbent
    \/ Fresh(r, view.now)
    \/ \E doc \in incumbent : <<doc, r.doc>> \in view.proofs

\* Mutant: ineligible challengers contest too.
ContestAnyTie(undominated, winner, incumbent, view) == ~IsSingle(undominated)

\* An acceptance is contested by several eligible candidates; without one,
\* or when the candidates dominate each other in a circle, anything but a
\* single undominated candidate contests.
DocumentContest(undominated, winner, incumbent, view) ==
    IF winner # {} /\ undominated # {}
    THEN \E l, r \in undominated :
            l.doc # r.doc /\ Eligible(l, incumbent, view) /\ Eligible(r, incumbent, view)
    ELSE ~IsSingle(undominated)

AcceptedDoc(maximal, incumbent, contested, view) ==
    IF ~contested /\ \E r \in maximal : Eligible(r, incumbent, view)
    THEN DocsOf(maximal) ELSE incumbent

\* Only the hop departing the acceptance can be fully checked: the departed
\* document has fresh support, and a statement for the hop has its best
\* row's generation on path.
FullyChecked(base, next, view) ==
    /\ \E r \in view.surviving : r.doc = base /\ Fresh(r, view.now)
    /\ \E r \in BestOf(view.surviving, base, view), s \in view.statements :
          /\ Content[s].pred = base /\ Content[s].succ = next
          /\ r.gen \in Content[s].path

ContinuityAlong(chain, doc, view) ==
    IF doc \notin ToSet(chain) THEN "Unproven"
    ELSE IF chain[2] = doc /\ FullyChecked(chain[1], doc, view)
         THEN "Proven" ELSE "Bridged"

ContinuityGrade(winner, doc, view) ==
    IF winner = {} \/ doc \in winner THEN "Unmoved"
    ELSE ContinuityAlong(ChainFrom(view.hops, CHOOSE d \in winner : TRUE), doc, view)

\* Stale challengers that no proof connects with the accepted document.
PendingDocs(best, accepted, incumbent, view) ==
    DocsOf({r \in best :
        /\ r.doc \notin accepted \cup incumbent
        /\ ~Fresh(r, view.now)
        /\ \A doc \in accepted :
              <<doc, r.doc>> \notin view.proofs /\ <<r.doc, doc>> \notin view.proofs})

\* Mutant: any surviving row of the document is read for its best one.
SettleAnyRow(docs, contested, best, incumbent, winner, view) ==
    [docs      |-> docs,
     bound     |-> {r \in view.surviving : r.doc \in docs},
     contested |-> contested,
     winner    |-> winner,
     pending   |-> PendingDocs(best, docs, incumbent, view)]

\* The document and its best row; the row is missing when the incumbent is
\* no candidate.
Settle(docs, contested, best, incumbent, winner, view) ==
    [docs      |-> docs,
     bound     |-> {r \in best : r.doc \in docs},
     contested |-> contested,
     winner    |-> winner,
     pending   |-> PendingDocs(best, docs, incumbent, view)]

Resolve(best, undominated, maximal, incumbent, winner, tied, view) ==
    LET contested == \/ tied
                     \/ \E doc \in DocsOf(best) : ~Settles(view.surviving, doc, view)
                     \/ DocumentContest(undominated, winner, incumbent, view)
    IN  Settle(AcceptedDoc(maximal, incumbent, contested, view), contested,
               best, incumbent, winner, view)
-----------------------------------------------------------------------------
\* Stages 6 to 8.

FreshSupport(surviving, doc, now) ==
    \E r \in surviving : r.doc = doc /\ Fresh(r, now)

Grading(doc, continuity, view) ==
    IF FreshSupport(view.surviving, doc, view.now) /\ continuity # "Bridged"
    THEN "Confirmed" ELSE "Provisional"

AcceptedBinding(row, continuity, view) ==
    [doc |-> row.doc, gen |-> row.gen, continuity |-> continuity,
     grade |-> Grading(row.doc, continuity, view)]

\* tenure_span: earliest inception to latest end of the document's rows.
Tenure(R) ==
    {[from |-> l.from, end |-> r.end] : l \in {x \in R : \A y \in R : x.from <= y.from},
                                        r \in {x \in R : \A y \in R : y.end <= x.end}}

\* derive_divergence.
DivergenceFrom(docs, claims, pins) ==
    UNION {{[alleged |-> d, source |-> "Claim"] : d \in claims \ {doc}}
              \cup {[alleged |-> d, source |-> "Pin"] : d \in pins \ {doc}} :
           doc \in docs}

\* Mutant: an uncorroborated rewind does not contest its document.
MaskedByDocument(resolved, view) == resolved.contested

\* The generation contest masks too, but only the document that would win.
Masked(resolved, view) ==
    \/ resolved.contested
    \/ DocsOf(resolved.bound) \cap RewoundDocs(view.surviving, view.lineage) # {}

\* Mutant: a divergent claim or pin masks the binding.
ConcludeUnlessDivergent(resolved, masked, losing, claims, pins, view) ==
    LET shown == IF masked \/ (claims \cup pins) \ DocsOf(resolved.bound) # {}
                 THEN {} ELSE resolved.bound
    IN  [accepted   |-> {AcceptedBinding(r, ContinuityGrade(resolved.winner, r.doc, view), view) :
                         r \in shown},
         contested  |-> masked,
         divergence |-> DivergenceFrom(DocsOf(shown), claims, pins),
         serial     |-> {r.serial : r \in shown},
         forks      |-> LineageForks(view.lineage)
                          \cup GradedForks(view.considered, view.lineage, view.now),
         losing     |-> losing,
         pending    |-> resolved.pending,
         successionForks |-> SuccessionForks(view.hops),
         tenure     |-> Tenure({r \in view.surviving : r.doc \in DocsOf(resolved.bound)})]

Conclude(resolved, masked, losing, claims, pins, view) ==
    LET shown == IF masked THEN {} ELSE resolved.bound
    IN  [accepted   |-> {AcceptedBinding(r, ContinuityGrade(resolved.winner, r.doc, view), view) :
                         r \in shown},
         contested  |-> masked,
         divergence |-> DivergenceFrom(DocsOf(shown), claims, pins),
         serial     |-> {r.serial : r \in shown},
         forks      |-> LineageForks(view.lineage)
                          \cup GradedForks(view.considered, view.lineage, view.now),
         losing     |-> losing,
         pending    |-> resolved.pending,
         successionForks |-> SuccessionForks(view.hops),
         tenure     |-> Tenure({r \in view.surviving : r.doc \in DocsOf(resolved.bound)})]

-----------------------------------------------------------------------------
\* derive_host, one operator per hand-over between the stages; ev is what
\* stage 1 extracted.

ViewOf(considered, lineage, statements, hops, now) ==
    [considered |-> considered,
     lineage    |-> lineage,
     statements |-> statements,
     hops       |-> hops,
     proofs     |-> ProofPairs(hops),
     surviving  |-> Survivors(considered, lineage, now),
     now        |-> now]

HopsOf(statements) == {<<Content[s].pred, Content[s].succ>> : s \in statements}

StatementsFor(host, held, X) ==
    {s \in Unexcluded(held, "Successor", X) : Content[s].host = host}

View(considered, statements, ev, now, decisions) ==
    ViewOf(considered, LineageOf(ev.held, decisions, DocsOf(considered)),
           statements, HopsOf(statements), now)

ResolveTop(best, undominated, top, view) ==
    LET maximal == Maximal(best, undominated)
    IN  Resolve(best, undominated, maximal, Incumbent(Winner(top), maximal, view),
                Winner(top), \E d, e \in top : d # e, view)

ConcludeFrom(resolved, losing, claims, pins, view) ==
    Conclude(resolved, Masked(resolved, view), losing, claims, pins, view)

\* With no candidate left the resolution is empty, receipts and all.
Judge(best, receipts, ev, claims, pins, view) ==
    IF best = {}
    THEN ConcludeFrom(Settle({}, FALSE, {}, {}, {}, view), {}, claims, pins, view)
    ELSE ConcludeFrom(ResolveTop(best, Undominated(best, view),
                                 TopDocs(receipts, ev.rows), view),
                      LosingDocs(receipts, ev.rows), claims, pins, view)

JudgeView(view, receipts, ev, claims, pins) ==
    Judge(BestRows(view.surviving, view), receipts, ev, claims, pins, view)

Derive(host, ev, now, decisions, pins) ==
    JudgeView(View(Considered(ev.rows, host, now, decisions.resets[host]),
                   StatementsFor(host, ev.held, decisions.resets[host]),
                   ev, now, decisions),
              Receipts(host, ev, decisions), ev, decisions.claims[host], pins)
=============================================================================
