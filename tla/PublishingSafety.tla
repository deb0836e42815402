-------------------------- MODULE PublishingSafety --------------------------
(***************************************************************************)
(* What a verifier makes of what publishers and the operator of the zone   *)
(* leave about. The publishers' derivation is the verifier's own, and both *)
(* are instantiated with the units minted so far as their content.         *)
(***************************************************************************)
EXTENDS Publishing

Derivation(content) == INSTANCE Derivation WITH Content <- content
Verdict(content) == INSTANCE Verdict WITH Content <- content

NoDecisions ==
    [acceptances |-> [h \in {Host} |-> {}], claims |-> [h \in {Host} |-> {}],
     resets |-> [h \in {Host} |-> {}]]

\* The values of DeriveHost and of TopWord.
Derived(content, held, clock) ==
    Derivation(content)!Derive(Host, Derivation(content)!Extract(held), clock, NoDecisions, {})

SaidOf(txt, doc) == Derivation(<<>>)!Word(txt, doc)

-----------------------------------------------------------------------------
StatementsIn(held, kind) ==
    {units[s] : s \in Derivation(units)!Statements(held, kind)}

RowsIn(held) ==
    {r \in Derivation(units)!Rows(held) : ~Derivation(units)!Deferred(r, now)}

\* Two records the publisher put into the zone share a serial.
Tied == \E r, s \in spoken : r # s /\ r.serial = s.serial

\* The device knows of a rotation, and of the zone before it only.
AheadOfTheZone(held) ==
    \E s \in StatementsIn(held, "Rotation") :
        /\ \E r \in RowsIn(held) : r.doc = s.doc /\ r.gen = s.replaced
        /\ \A r \in RowsIn(held) : r.doc = s.doc => r.gen # s.successor

\* Two statements retire one generation, or leave one document, or undo
\* each other.
Knotted(held) ==
    \/ \E s, t \in StatementsIn(held, "Rotation") :
          /\ s # t /\ s.doc = t.doc
          /\ s.replaced = t.replaced \/ (s.successor = t.replaced /\ s.replaced = t.successor)
    \/ \E s, t \in StatementsIn(held, "Successor") :
          /\ s # t
          /\ s.pred = t.pred \/ (s.succ = t.pred /\ s.pred = t.succ)

\* However the ceremonies were held and the zone edited, a device that has
\* any part of what is about derives a dispute for one of three reasons
\* only: two records share a serial, it holds a rotation and nothing of the
\* zone that reflects it, or the statements themselves conflict
\* (ceremony.rs, verifier/state.rs stages 4 and 5).
DisputesHaveACause ==
    \A held \in SUBSET field :
        DeriveHost(units, held, now).contested =>
            Tied \/ AheadOfTheZone(held) \/ Knotted(held)

\* The zone's chain, attached to the plan's certificate, is in the field.
Proven(p) ==
    \E c \in Certificates :
        /\ units[c] = [units[p.certificate] EXCEPT !.chain = units[c].chain]
        /\ units[c].chain.txt = Listed(zone)
        /\ now \in units[c].chain.from..units[c].chain.end

\* A statement was minted that ends what r says, in favour of the plan.
Superseded(r, p) ==
    \/ /\ r.doc = p.doc
       /\ <<r.gen, p.gen>> \in Derivation(units)!LineageView(
             {<<s.replaced, s.successor>> :
                 s \in {u \in Range(units) : u.kind = "Rotation" /\ u.doc = p.doc}}).descents
    \/ \E u \in Range(units) : u.kind = "Successor" /\ u.pred = r.doc /\ u.succ = p.doc

\* The zone's word for the document is the plan's, and of a time that has
\* come; the certificate carries every rotation of its document, and no one
\* left that document.
Foreseen(p) ==
    /\ p.serial <= now + Skew
    /\ Derivation(units)!Word(Listed(zone), p.doc) = {TxtRecord(p.serial, p.gen, p.doc)}
    /\ \A r \in spoken \ {TxtRecord(p.serial, p.gen, p.doc)} :
          r.serial < p.serial \/ Superseded(r, p)
    /\ \A s \in Derivation(units)!Statements(field, "Rotation") :
          units[s].doc = p.doc => s \in units[p.certificate].lineage
    /\ ~\E s \in StatementsIn(field, "Successor") : s.pred = p.doc

\* The postconditions of a plan (plan.rs): once the zone reflects it and the
\* refreshed certificate is about, every device that has everything derives
\* the plan's binding, confirmed and undisputed, at its serial or above.
\* What simulate could not see is a premise, and no more: a statement of the
\* plan makes up for a serial that fell behind.
PlansDeliver ==
    \A p \in promise :
        Proven(p) /\ Foreseen(p) =>
            LET derived == DeriveHost(units, field, now)
            IN  /\ ~derived.contested
                /\ \E a \in derived.accepted :
                      a.doc = p.doc /\ a.gen = p.gen /\ a.grade = "Confirmed"
                /\ \A s \in derived.serial : s >= p.serial

\* No held statement is about something a held chain attests.
Unaffected(held) ==
    \A r \in Derivation(units)!Rows(held) :
        /\ \A s \in StatementsIn(held, "Rotation") : r.doc # s.doc \/ r.gen # s.replaced
        /\ \A s \in StatementsIn(held, "Successor") : r.doc # s.pred

\* The one-shot check (verdict.rs, verify.rs verify_binding) of the
\* certificates in a document's list, in whatever order, names the binding
\* and the freshness that the stateful verifier derives from them, where no
\* statement is about what they attest.
OneShotAgrees ==
    \A held \in SUBSET Certificates :
        Unaffected(held) =>
            \A a \in DeriveHost(units, held, now).accepted, list \in SetToSeqs(held) :
                LET checked == Verdict(units)!VerifyBinding(list, Host, now)
                IN  /\ checked.outcome = "Accepted"
                    /\ \A row \in checked.row :
                          /\ row.doc = a.doc /\ row.gen = a.gen
                          /\ (a.grade = "Confirmed") =
                                (Verdict(units)!Freshness(row, now) = "Fresh")
=============================================================================
