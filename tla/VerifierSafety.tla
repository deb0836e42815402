--------------------------- MODULE VerifierSafety ---------------------------
(***************************************************************************)
(* What one device may believe, whatever evidence reaches it, in whatever  *)
(* order, however the clock runs and whatever its user decides.            *)
(***************************************************************************)
EXTENDS Verifier

Gens == {r.gen : r \in Rows(Hash)}

BindingType ==
    [doc : Doc, gen : Gens, grade : {"Confirmed", "Provisional"},
     continuity : {"Unmoved", "Proven", "Bridged", "Unproven"}]

IsOption(S) == S = {} \/ IsSingle(S)

\* The types of the state and of the derived bindings, each Option holding
\* at most one value (onomancy_protocol/src/verifier/state/binding_state.rs).
TypeOK ==
    /\ held \subseteq Ingestible
    /\ now \in Nat
    /\ decisions \in [acceptances : [Host -> SUBSET Acceptance],
                      claims      : [Host -> SUBSET Claimed],
                      resets      : [Host -> SUBSET Hash]]
    /\ targets \subseteq Claimed
    /\ DOMAIN bindings = Host
    /\ \A h \in Host :
          /\ IsOption(bindings[h].accepted) /\ IsOption(bindings[h].serial)
          /\ bindings[h].accepted \subseteq BindingType
          /\ bindings[h].contested \in BOOLEAN
          /\ bindings[h].pending \subseteq Doc

-----------------------------------------------------------------------------
\* The rows stage 2 lets speak for a hostname, before corroboration.
Speaking(h) ==
    {r \in Rows(held) : /\ r.host = h /\ r.hash \notin decisions.resets[h]
                        /\ r.from <= now /\ r.serial <= now + Skew}

\* The lineage edges in force for a document.
InForce(doc) == Edges(held, decisions, doc)

\* A certificate that makes its document a candidate: not fresh off its path,
\* and not on a generation that the lineage has settled as retired, unless it
\* is fresh, when it contests the document instead.
Stands(c) ==
    /\ Fresh(c, now) => c.onPath
    /\ c.gen \in Protected(InForce(c.doc)) => Fresh(c, now)

\* A binding has both directions: a held, unreset, undeferred CERTIFICATE
\* that stands attests the accepted document, and some speaking row attests
\* the accepted generation. A bare refresh never makes a candidate
\* (binding-cache B14; state.rs resolve_document).
AcceptedIsAttested ==
    \A h \in Host : \A b \in bindings[h].accepted :
        /\ \E c \in Certificates(Speaking(h)) : c.doc = b.doc /\ Stands(c)
        /\ \E r \in Speaking(h) : r.doc = b.doc /\ r.gen = b.gen

\* Whether the lineage of the document is without cycle and has one head.
Converged(doc) ==
    /\ IsSingle(Heads(InForce(doc)))
    /\ \A k \in Replaced(InForce(doc)) : ~OnCycle(InForce(doc), k)

\* A retired generation is accepted only where the statements in force
\* disagree about the lineage, and never silently: the fork is surfaced
\* (stages 3 and 4: protected prefix, rewind rule and contested residual).
RetiredOnlyInDispute ==
    \A h \in Host : \A b \in bindings[h].accepted :
        b.gen \in Replaced(InForce(b.doc)) =>
            /\ ~Converged(b.doc)
            /\ \E f \in bindings[h].forks : f.doc = b.doc

\* What the user's acceptances come to: the documents of those that rank highest,
\* the succession proofs at the hostname, and where they lead from the winner.
Preferred(h) == TopDocs(Receipts(h, Extract(held), decisions), Rows(held))

Hops(h) == HopsOf(StatementsFor(h, held, decisions.resets[h]))

Incumbents(h) == {Last(ChainFrom(Hops(h), w)) : w \in Winner(Preferred(h))}

\* Merging the branches of a forked lineage repairs it: when the lineage has
\* converged, every row of the document names a generation of it, and no
\* acceptance prefers or leads to another document, a certificate of the head,
\* fresh or stale, carries the binding against every attestation of a retired
\* branch (dns-anchor, Heads and the Protected Prefix).
MergeRepairs ==
    \A h \in Host, doc \in Doc :
        LET mine == {r \in Speaking(h) : r.doc = doc}
        IN  /\ DocsOf(Speaking(h)) = {doc}
            /\ Preferred(h) \cup Incumbents(h) \subseteq {doc}
            /\ Converged(doc)
            /\ \A r \in mine : r.gen \in Keys(InForce(doc))
            /\ \E r \in Certificates(mine) :
                  r.gen \in Heads(InForce(doc)) /\ (Fresh(r, now) => r.onPath)
            => \E b \in bindings[h].accepted : b.gen \in Heads(InForce(doc))

\* Evidence that is current beats evidence that is not: while some fresh,
\* on-path row of an unretired generation speaks beside a standing certificate
\* of its document, the hostname is contested or bound to a document with
\* fresh support (ladder rung 0, the pending doctrine and candidacy together).
FreshWins ==
    \A h \in Host :
        (\E r \in Speaking(h), c \in Certificates(Speaking(h)) :
            /\ Fresh(r, now) /\ r.onPath /\ r.gen \notin Replaced(InForce(r.doc))
            /\ c.doc = r.doc /\ Stands(c) /\ c.gen \notin Replaced(InForce(c.doc)))
        => \/ bindings[h].contested
           \/ \E b \in bindings[h].accepted : FreshSupport(Speaking(h), b.doc, now)

\* The user's acceptance is only ever displaced without proof by fresh
\* evidence: a stale, unproven challenger never carries the binding
\* (eligibility, binding-cache stage 5).
DisplacedOnlyByFresh ==
    \A h \in Host : \A b \in bindings[h].accepted :
        b.continuity = "Unproven" => b.grade = "Confirmed"

\* A hostname is contested only over a real disagreement: rows that name
\* different documents or generations, a fresh rewind of the lineage, or
\* acceptances of different documents. Copies and refreshes of one binding,
\* however many, never blank it.
ContestNeedsDispute ==
    \A h \in Host : bindings[h].contested =>
        \/ ~IsSingle({<<r.doc, r.gen>> : r \in Speaking(h)})
        \/ \E r \in Speaking(h) : r.gen \in Replaced(InForce(r.doc))
        \/ \E a, b \in decisions.acceptances[h] : a.doc # b.doc

\* What a reset excludes contributes nothing: the hostname derives as if the
\* excluded items had never been ingested (binding-cache B8, stage 2 and the
\* provenance rule). Vouching is the exception the code makes: an excluded
\* certificate's carriage still puts a refresh's generation on path.
ExcludedVoucher(h) ==
    \E c \in decisions.resets[h] \cap ValidRecords(held), r \in RefreshRows(held) :
        /\ r.host = Content[c].host /\ r.doc = Content[c].doc
        /\ r.onPath /\ r \notin RefreshRows(held \ decisions.resets[h])

ResetLeavesNoTrace ==
    \A h \in Host :
        ~ExcludedVoucher(h) =>
            bindings[h] = Derive(h, Extract(held \ decisions.resets[h]), now, decisions, Pins(h, decisions, targets))

-----------------------------------------------------------------------------
\* Evidence about one hostname never moves another: ingesting an item of a
\* different hostname that brings no rotation statement changes nothing here
\* (stages 2 to 8 are per hostname, only rotations are document-scoped).
Ingested(i) == i \notin held /\ held' = held \cup {i}

Concerns(i, h) ==
    \/ Content[i].kind = "Rotation"
    \/ Content[i].kind # "Rotation" /\ Content[i].host = h
    \/ Content[i].kind = "Record"
         /\ \/ Content[i].lineage # {}
            \/ \E s \in Content[i].predecessor : Content[s].host = h

HostsAreIsolated ==
    [][\A i \in Ingestible, h \in Host :
          Ingested(i) /\ ~Concerns(i, h) => bindings'[h] = bindings[h]]_vars

\* A certificate of another document arrives that brings no statements, that no
\* acceptance cites, and beside which no row of its document is fresh.
RowsWith(i, h, doc) == {r \in Rows(held \cup {i}) : r.host = h /\ r.doc = doc}

Challenges(i, h, doc) ==
    /\ Content[i].kind = "Record" /\ Content[i].host = h /\ Content[i].doc # doc
    /\ Content[i].lineage \cup Content[i].predecessor = {}
    /\ \A r \in RowsWith(i, h, Content[i].doc) : ~Fresh(r, now)
    /\ \A a \in decisions.acceptances[h] : i \notin a.cited

\* The signed disputes through which it may yet contest the hostname: successions
\* that can close a circle, rotations of its document, or two of its rows that give
\* one zone state different generations.
Disputed(i, h) ==
    \/ Hops(h) # {} \/ InForce(Content[i].doc) # {}
    \/ \E q, r \in RowsWith(i, h, Content[i].doc) : SameKey(q, r) /\ q.gen # r.gen

\* The pending doctrine: the incumbent of the user's acceptance, while it is the
\* binding and no proof leads on from it, is never displaced by such a challenger,
\* and not even blanked short of a signed dispute.
PendingNeverDisplaces ==
    [][\A i \in Ingestible, h \in Host, doc \in Doc :
          /\ Ingested(i) /\ Bound(bindings[h]) = {doc} /\ Incumbents(h) = {doc}
          /\ \A d \in Doc : <<doc, d>> \notin ProofPairs(Hops(h))
          /\ Challenges(i, h, doc)
          => \/ Bound(bindings'[h]) = {doc}
             \/ bindings'[h].contested /\ Disputed(i, h)]_vars

\* The code's comments promise more: a challenger no proof connects with the
\* incumbent must not "blank an acceptance-backed incumbent" (state.rs;
\* binding-cache B1). The code does not keep it where the challenger closes a
\* circle of dominance.
Unproven(i, h, doc) ==
    <<doc, Content[i].doc>> \notin ProofPairs(Hops(h))

ChallengerNeverBlanks ==
    [][\A i \in Ingestible, h \in Host, doc \in Doc :
          Ingested(i) /\ Bound(bindings[h]) = {doc} /\ Incumbents(h) = {doc}
                      /\ Challenges(i, h, doc) /\ Unproven(i, h, doc)
          => Bound(bindings'[h]) = {doc}]_vars

\* Only events may interrupt the user. A claim or a pin never does: it may
\* badge a divergence, nothing more (binding-cache: claims MUST NOT affect
\* acceptance; diff.rs, may_prompt).
IntroductionsOnlyBadge ==
    [][targets' # targets \/ decisions'.claims # decisions.claims =>
          \A h \in Host : \A e \in HostDiff(bindings[h], bindings'[h]) :
              ~MayPrompt(e)]_vars
=============================================================================
