----------------------------- MODULE Publishing -----------------------------
(***************************************************************************)
(* One hostname's publisher: the ceremonies that plan a change, the        *)
(* carrying out of a plan step by step, the zone as its operator edits it, *)
(* and the units that are then about in the field. A plan is emitted only  *)
(* when the derivation, over a made-up zone that says what the plan will   *)
(* publish, derives what the ceremony intends.                             *)
(*                                                                         *)
(* Units are numbered as they are minted; the number stands for the        *)
(* content hash. A document is its root key, and documents and generations *)
(* are naturals, in byte order.                                            *)
(***************************************************************************)
EXTENDS Authority, Serials

CONSTANTS
    DeriveHost(_, _, _),  \* derive: of the units, those held, at a clock reading
    TopWord(_, _)         \* validate_record: what an RRset says of a document, if anything

CONSTANTS
    Bound,          \* what the zone names at first: [doc, gen, before]
    Bindings,       \* what may be bound: [doc, gen]
    Rotations,      \* [doc, replaced, next]
    Migrations,     \* [pred, succ, gen]
    Foreign,        \* certificates by other signers: [doc, signer, carriage]
    Drift,          \* how far a publisher's clock may be off
    Explicit,       \* serials given on the command line
    Courses,        \* bound: the verbs that are used together
    Life,           \* of a fetched chain
    Skew,           \* SKEW_MS, the serial deferral bound
    MaxTime, MaxCeremonies,  \* bounds
    MaxUnits        \* bound, of each course: the units minted

ASSUME PublishingAssumption ==
    /\ Bound \in [doc : Nat, gen : Nat, before : Nat] /\ Bindings \subseteq [doc : Nat, gen : Nat]
    /\ Rotations \subseteq [doc : Nat, replaced : Nat, next : Nat]
    /\ Migrations \subseteq [pred : Nat, succ : Nat, gen : Nat]
    /\ Courses \subseteq SUBSET {"bind", "rotate", "migrate", "refresh", "record", "certify"}
    /\ \A f \in Foreign : f.carriage \in Seq(Range(f.carriage))
    /\ Drift \subseteq Int /\ Explicit \subseteq 0..MaxSerial
    /\ {Life, Skew, MaxTime, MaxCeremonies} \subseteq Nat /\ MaxSerial \in Nat \ {0}
    /\ MaxUnits \in [Courses -> Nat]

VARIABLES
    now,         \* the clock of everybody else
    zone,        \* the binding records at the owner name
    spoken,      \* every record that was ever there (history)
    units,       \* what was minted, in order
    field,       \* which of it is about
    plan,        \* the zone edits an operator was last told of, if any
    promise,     \* the plan the zone now reflects, if any
    ceremonies,  \* how many were held
    course       \* bound: the verbs of this behaviour

vars == <<now, zone, spoken, units, field, plan, promise, ceremonies, course>>

Host == "a"

\* What a publisher's clock may show: a u64, like a serial.
Clocks == {now + d : d \in Drift} \cap 0..MaxSerial

TxtRecord(serial, gen, doc) == [doc |-> doc, gen |-> gen, serial |-> serial]

RecordLess(r, s) ==
    \/ r.doc < s.doc
    \/ r.doc = s.doc /\ r.gen < s.gen
    \/ r.doc = s.doc /\ r.gen = s.gen /\ r.serial < s.serial

\* The RRset as a chain lists it.
Listed(records) == SetToSortSeq(records, RecordLess)

-----------------------------------------------------------------------------
\* Minting. A certificate leaves the ceremonies with an empty chain.
NoChain == [valid |-> FALSE, from |-> 0, end |-> 0, txt |-> <<>>]
LiveChain == [valid |-> TRUE, from |-> now, end |-> now + Life, txt |-> Listed(zone)]

Certificate(doc, issued, signer, carriage, lineage, predecessor, chain) ==
    [kind |-> "Record", host |-> Host, doc |-> doc, chain |-> chain, issued |-> issued,
     signer |-> signer, carriage |-> carriage,
     authorized |-> Authorizes(doc, signer, carriage), path |-> Path(carriage),
     lineage |-> lineage, predecessor |-> predecessor]

RotationStatement(doc, replaced, successor, carriage) ==
    [kind |-> "Rotation", doc |-> doc, replaced |-> replaced, successor |-> successor,
     signer |-> successor, carriage |-> carriage,
     authorized |-> Authorizes(doc, successor, carriage)]

\* Signed by the predecessor's root key, with an empty carriage.
SuccessorStatement(pred, succ) ==
    [kind |-> "Successor", host |-> Host, pred |-> pred, succ |-> succ,
     signer |-> pred, carriage |-> <<>>,
     authorized |-> Authorizes(pred, pred, <<>>), path |-> {}]

ChainRefresh == [kind |-> "ChainRefresh", host |-> Host, chain |-> LiveChain]

\* Equal bytes are the same unit.
Minted(log, unit) == IF unit \in Range(log) THEN log ELSE Append(log, unit)
HashIn(log, unit) == CHOOSE n \in DOMAIN log : log[n] = unit

-----------------------------------------------------------------------------
\* simulate: one certificate in an empty store, whose chain proves exactly
\* these records within an hour (one tick here) of the clock, derives the
\* intent without any fork.
Simulates(content, certificate, records, clock, intent) ==
    LET chain == [valid |-> TRUE, from |-> IF clock = 0 THEN 0 ELSE clock - 1,
                  end |-> clock + 1, txt |-> Listed(records)]
        derived == DeriveHost([content EXCEPT ![certificate].chain = chain], {certificate}, clock)
    IN  /\ derived.forks = {} /\ derived.successionForks = {}
        /\ ~derived.contested
        /\ \E accepted \in derived.accepted :
              accepted.doc = intent.doc /\ accepted.gen = intent.gen
        /\ derived.serial = {intent.serial}

\* The end of a ceremony: the records to retain and to publish are told to
\* the operator, and execute writes the artifacts in order until one write
\* fails. log is what was minted. A plan not yet applied is left for this one.
Emit(log, retain, publish, artifacts, intent) ==
    /\ ceremonies < MaxCeremonies /\ Len(log) <= MaxUnits[course]
    /\ units' = log
    /\ \E written \in 0..Len(artifacts) :
          field' = field \cup Range(SubSeq(artifacts, 1, written))
    /\ plan' = IF publish = {} THEN plan
               ELSE {[retain |-> retain, publish |-> publish, intent |-> intent]}
    /\ ceremonies' = ceremonies + 1
    /\ UNCHANGED <<now, zone, spoken, promise, course>>

\* What a ceremony means to bind, with the certificate that is to prove it.
Intent(doc, gen, serial, certificate) ==
    [doc |-> doc, gen |-> gen, serial |-> serial, certificate |-> certificate]

Perform(log, certificate, retain, record, clock, artifacts) ==
    LET intent == Intent(record.doc, record.gen, record.serial, certificate)
    IN  /\ Simulates(log, certificate, retain \cup {record}, clock, intent)
        /\ Emit(log, retain, {record}, artifacts, {intent})

Bind(doc, gen, clock) ==
    LET certificate == Certificate(doc, clock, doc, RelayCarriage(doc, gen), {}, {}, NoChain)
        log == Minted(units, certificate)
    IN  Perform(log, HashIn(log, certificate), {}, TxtRecord(clock, gen, doc), clock,
                <<HashIn(log, certificate)>>)

\* The generations a lineage names, on either side.
Named(lineage) == UNION {{units[s].replaced, units[s].successor} : s \in lineage}

\* Mutant: the certificate keeps the lineage it had.
ExtendedForgets(prior, statement) == prior

Extended(prior, statement) == prior \cup {statement}

\* prior is the lineage of the certificate given with --prior-cert.
Rotate(doc, replaced, next, prior, clock) ==
    LET carriage == RelayCarriage(doc, next)
        statement == RotationStatement(doc, replaced, next, carriage)
        stated == Minted(units, statement)
        lineage == Extended(prior, HashIn(stated, statement))
        certificate == Certificate(doc, clock, doc, carriage, lineage, {}, NoChain)
        log == Minted(stated, certificate)
    IN  /\ next \notin Named(prior) \cup {replaced}
        /\ Perform(log, HashIn(log, certificate), {}, TxtRecord(clock, next, doc), clock,
                   <<HashIn(log, certificate), HashIn(log, statement)>>)

\* fetch_current: the zone's word for the predecessor is retained.
Migrate(pred, succ, gen, clock) ==
    LET proof == SuccessorStatement(pred, succ)
        stated == Minted(units, proof)
        certificate == Certificate(succ, clock, succ, RelayCarriage(succ, gen), {},
                                   {HashIn(stated, proof)}, NoChain)
        log == Minted(stated, certificate)
    IN  \E retained \in TopWord(Listed(zone), pred) :
            Perform(log, HashIn(log, certificate), {retained}, TxtRecord(clock, gen, succ),
                    clock, <<HashIn(log, certificate), HashIn(log, proof)>>)

\* Keyless: the live chain replaces the one attached.
Refresh(certificate, clock) ==
    LET refreshed == [units[certificate] EXCEPT !.chain = LiveChain]
        log == Minted(units, refreshed)
        hash == HashIn(log, refreshed)
    IN  \E word \in TopWord(LiveChain.txt, refreshed.doc) :
            /\ Simulates(log, hash, zone, clock, Intent(word.doc, word.gen, word.serial, hash))
            /\ Emit(log, {}, {}, <<hash>>, {})

\* The record verb simulates nothing. The serial is given, or follows the
\* one given with --after; the certificate is optional.
Record(doc, gen, serial, clock, chains) ==
    LET records == {TxtRecord(serial, gen, doc)}
        certificate(chain) ==
            Certificate(doc, clock, doc, RelayCarriage(doc, gen), {}, {}, chain)
        log(chain) == Minted(units, certificate(chain))
    IN  \/ chains = {} /\ Emit(units, {}, records, <<>>, {})
        \/ \E chain \in chains :
              Emit(log(chain), {}, records, <<HashIn(log(chain), certificate(chain))>>, {})

-----------------------------------------------------------------------------
\* The operator edits the zone at a time of his own; "publish" creates a
\* record or replaces the current ones. No ceremony ever retires one.
EditZone ==
    \E p \in plan, kept \in {{}, zone} :
        /\ zone' = p.publish \cup p.retain \cup kept
        /\ spoken' = spoken \cup p.publish
        /\ promise' = p.intent
        /\ plan' = {}
        /\ UNCHANGED <<now, units, field, ceremonies, course>>

Publish(unit) ==
    LET log == Minted(units, unit)
    IN  /\ Len(log) <= MaxUnits[course]
        /\ units' = log
        /\ field' = field \cup {HashIn(log, unit)}
        /\ UNCHANGED <<now, zone, spoken, plan, promise, ceremonies, course>>

\* Somebody resolves the name and passes the bare chain on.
Observe == zone # {} /\ Publish(ChainRefresh)

\* Somebody else certifies the document the zone names.
Certify ==
    \E f \in Foreign :
        /\ "certify" \in course /\ zone # {}
        /\ \A n \in DOMAIN units : units[n].kind = "Record" => units[n].carriage # f.carriage
        /\ Publish(Certificate(f.doc, now, f.signer, f.carriage, {}, {}, LiveChain))

Tick ==
    /\ now < MaxTime
    /\ now' = now + 1
    /\ UNCHANGED <<zone, spoken, units, field, plan, promise, ceremonies, course>>

Certificates == {n \in field : units[n].kind = "Record"}

Priors(doc) == {{}} \cup {units[n].lineage : n \in {c \in Certificates : units[c].doc = doc}}

Ceremony ==
    \E clock \in Clocks :
        \/ "bind" \in course /\ \E b \in Bindings : Bind(b.doc, b.gen, clock)
        \/ "rotate" \in course /\ \E r \in Rotations : \E prior \in Priors(r.doc) :
              Rotate(r.doc, r.replaced, r.next, prior, clock)
        \/ "migrate" \in course /\ \E m \in Migrations : Migrate(m.pred, m.succ, m.gen, clock)
        \/ "refresh" \in course /\ \E certificate \in Certificates : Refresh(certificate, clock)

\* The highest serial seen, as --after asks for it.
Seen == {r.serial : r \in {x \in spoken : \A y \in spoken : y.serial <= x.serial}}

\* The live chain can be attached once something is published.
Attachable == {{}, {NoChain}} \cup (IF zone = {} THEN {} ELSE {{LiveChain}})

RecordNext ==
    "record" \in course /\ \E b \in Bindings, clock \in Clocks, chains \in Attachable :
        \E serial \in NextSerial(Seen, clock) : Record(b.doc, b.gen, serial, clock, chains)

RecordExplicit ==
    "record" \in course /\ \E b \in Bindings, clock \in Clocks, chains \in Attachable :
        \E serial \in Explicit : Record(b.doc, b.gen, serial, clock, chains)

\* The name was bound, its generation rotated, and the certificate of the
\* rotation refreshed.
Init ==
    LET carriage == RelayCarriage(Bound.doc, Bound.gen)
    IN  /\ now = 1
        /\ zone = {TxtRecord(1, Bound.gen, Bound.doc)}
        /\ spoken = zone \cup {TxtRecord(0, Bound.before, Bound.doc)}
        /\ units = <<RotationStatement(Bound.doc, Bound.before, Bound.gen, carriage),
                     Certificate(Bound.doc, 1, Bound.doc, carriage, {1}, {}, LiveChain)>>
        /\ field = {1, 2}
        /\ plan = {} /\ promise = {} /\ ceremonies = 0
        /\ course \in Courses

Next ==
    \/ Ceremony \/ RecordNext \/ RecordExplicit
    \/ EditZone \/ Observe \/ Certify \/ Tick

Spec == Init /\ [][Next]_vars

-----------------------------------------------------------------------------
\* A signer is authorized, and a generation on the path, exactly when every
\* event of the carriage is grounded in the order-free sense and the events
\* say so: replaying a carriage neither stops early nor depends on its order
\* (authority.rs replay).
AuthorityIsProven ==
    \A n \in DOMAIN units :
        units[n].kind # "ChainRefresh" =>
            LET u == units[n]
                root == IF u.kind = "Successor" THEN u.pred ELSE u.doc
                events == Range(u.carriage)
                whole == Grounded(events) = events
            IN  /\ u.authorized <=> u.signer = root \/ (whole /\ Sanctioned(events, root, u.signer))
                /\ u.kind = "Record" =>
                      u.path = {k \in {d.delegate : d \in Delegations(events)} : whole}

\* A serial chosen for a new record is above every serial the zone ever
\* spoke, whatever the clock says and however far the last one was ahead;
\* at the top of the range there is none (serial.rs next).
SerialsRise ==
    [][RecordNext =>
          \A p \in plan' : \A r \in p.publish :
              r.serial <= MaxSerial /\ \A s \in spoken : s.serial < r.serial]_vars
=============================================================================
