------------------------------ MODULE Pruning ------------------------------
(***************************************************************************)
(* Local storage reclamation. A device may at any time replace its store   *)
(* by the pruned copy; evidence dropped may reach it again by gossip. The  *)
(* rule it promises to keep is that no output of derive changes; full, a   *)
(* history variable, remembers everything the device ever ingested.        *)
(***************************************************************************)
EXTENDS VerifierSafety

CONSTANT Horizon   \* DEFERRAL_HORIZON_MS

ASSUME HorizonAssumption == Horizon \in Nat

VARIABLE full

prunedVars == <<held, now, decisions, targets, bindings, full>>

-----------------------------------------------------------------------------
\* Mutant: a refresh may prune a certificate.
DominatesAnyAttestation(o, r) ==
    /\ o.hash # r.hash /\ o.doc = r.doc /\ o.gen = r.gen
    /\ o.from <= r.from /\ o.end >= r.end /\ o.serial >= r.serial /\ o.issued >= r.issued
    /\ \/ o.from < r.from \/ o.end > r.end \/ o.serial > r.serial \/ o.issued > r.issued

\* Mutant: rows of other generations are dominated too.
DominatesAnyGeneration(o, r) ==
    /\ o.hash # r.hash /\ o.doc = r.doc
    /\ ~(o.att = "ChainOnly" /\ r.att = "Certificate")
    /\ o.from <= r.from /\ o.end >= r.end /\ o.serial >= r.serial /\ o.issued >= r.issued
    /\ \/ o.from < r.from \/ o.end > r.end \/ o.serial > r.serial \/ o.issued > r.issued

\* dominates: at least as good in every component, better in one.
Dominates(o, r) ==
    /\ o.hash # r.hash /\ o.doc = r.doc /\ o.gen = r.gen
    /\ ~(o.att = "ChainOnly" /\ r.att = "Certificate")
    /\ o.from <= r.from /\ o.end >= r.end /\ o.serial >= r.serial /\ o.issued >= r.issued
    /\ \/ o.from < r.from \/ o.end > r.end \/ o.serial > r.serial \/ o.issued > r.issued

\* The rows of one hostname and document.
Groups(rows) ==
    {{r \in rows : r.host = x.host /\ r.doc = x.doc} : x \in rows}

Frontier(group, time) ==
    {r \in group : r.serial <= time + Horizon /\ \A o \in group : ~Dominates(o, r)}

Earliest(group) == {r \in group : \A o \in group : r.from <= o.from}

\* Tenure's left endpoint, where the frontier does not reach it.
Endpoint(group, frontier) ==
    IF Earliest(group) \cap frontier # {} THEN {}
    ELSE {r \in Earliest(group) : \A o \in Earliest(group) : r.hash <= o.hash}

KeptRows(rows, time) ==
    UNION {Frontier(g, time) \cup Endpoint(g, Frontier(g, time)) : g \in Groups(rows)}

\* Mutant: receipts are pruned like any other row.
CitedAnywhereNone(dec) == {}

CitedAnywhere(dec) ==
    UNION {a.cited : a \in UNION {dec.acceptances[h] : h \in DOMAIN dec.acceptances}}

\* prune: statements stay; a certificate or a refresh stays if it is cited or
\* one of its rows is kept. One that validates no row is dropped.
Prune(H, time, dec) ==
    {i \in H :
        \/ Content[i].kind \in {"Rotation", "Successor"}
        \/ i \in CitedAnywhere(dec)
        \/ \E r \in KeptRows(Rows(H), time) : r.hash = i}

-----------------------------------------------------------------------------
PrunedInit == Init /\ full = {}

Reclaim ==
    /\ Prune(held, now, decisions) # held
    /\ held' = Prune(held, now, decisions)
    /\ UNCHANGED <<now, decisions, targets, full>>
    /\ Recompute

PrunedNext ==
    \/ Next /\ full' = full \cup held'
    \/ Reclaim

PrunedSpec == PrunedInit /\ [][PrunedNext]_prunedVars

-----------------------------------------------------------------------------
\* prune.rs: "derive over the result equals derive over the input, for every
\* now from this one forward". The code does not keep it.
PruneUnobservable ==
    \A h \in Host : bindings[h] = Derive(h, Extract(full), now, decisions, Pins(h, decisions, targets))

Missing(h) == {r \in Rows(full) : r.host = h /\ r.hash \notin held}

\* Every row that pruning dropped has a dominator still held that stage 2
\* considers, that stage 4 does not reject, and whose generation is on no
\* cycle; or lies beyond the horizon and is itself deferred.
DominatorsStand(h) ==
    \A r \in Missing(h) :
        \/ r.serial > StartTime + Horizon /\ Deferred(r, now)
        \/ \E o \in Speaking(h) :
              /\ Dominates(o, r) /\ (Fresh(o, now) => o.onPath)
              /\ ~OnCycle(InForce(o.doc), o.gen)

\* What went with the dropped items besides rows: statements in force that they
\* carried or kept a reset from excluding, refreshes they vouched for, receipts of
\* acceptances written since.
NothingElseDropped(h) ==
    /\ Unexcluded(full, "Rotation", EveryReset(decisions))
         = Unexcluded(held, "Rotation", EveryReset(decisions))
    /\ StatementsFor(h, full, decisions.resets[h]) = StatementsFor(h, held, decisions.resets[h])
    /\ {r \in RefreshRows(full) : r.hash \in held} = RefreshRows(held)
    /\ \A a \in decisions.acceptances[h] : a.cited \cap full \subseteq held

\* Pruning is exact where its premises hold: while every dropped row's
\* dominator counts, and the dropped items brought nothing but rows, the
\* device derives what the unpruned store would, at this clock and every
\* later one, tenure, forks, pending and losing receipts included.
PruneExact ==
    \A h \in Host :
        DominatorsStand(h) /\ NothingElseDropped(h)
            => bindings[h] = Derive(h, Extract(full), now, decisions, Pins(h, decisions, targets))

\* Pruning never costs a generation its last word: every row dropped leaves
\* behind a row of its document and generation that can stand in for it, at
\* every clock reading, a certificate for a certificate; unless the row that
\* dominates it was itself dropped, as lying beyond the horizon.
StandsIn(o, r) ==
    /\ o.host = r.host /\ o.doc = r.doc /\ o.gen = r.gen
    /\ o.from <= r.from /\ r.end <= o.end /\ ~KeyLess(o, r)
    /\ r.att = "Certificate" => o.att = "Certificate"

PruneKeepsWitness ==
    [][held' # held /\ held' \subseteq held =>
          \A r \in Rows(held) : r.hash \notin held' =>
              \/ \E o \in Rows(held') : StandsIn(o, r)
              \/ \E o \in Rows(held) : StandsIn(o, r) /\ o.serial > now + Horizon]_prunedVars

\* Acceptances survive pruning: an acceptance that counted as a receipt
\* before a prune counts after it, with the same winner.
ReceiptsSurvive ==
    [][held' # held /\ held' \subseteq held =>
          \A h \in Host :
              /\ Receipts(h, Extract(held'), decisions) = Receipts(h, Extract(held), decisions)
              /\ TopDocs(Receipts(h, Extract(held'), decisions), Rows(held'))
                   = TopDocs(Receipts(h, Extract(held), decisions), Rows(held))]_prunedVars
=============================================================================
