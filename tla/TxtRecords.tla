---------------------------- MODULE TxtRecords ----------------------------
(***************************************************************************)
(* The TXT binding record: its grammar, its one spelling, and the rules    *)
(* for a set of them, as the verifier's chain walk reads it and as the     *)
(* WebAssembly bindings sum it up for a console.                           *)
(*                                                                         *)
(* A text is a sequence of tokens: a digit, a field's prefix, a semicolon, *)
(* or what stands for a run of characters that is never taken apart (a     *)
(* key's base64, an algorithm, anything foreign). The grammar's length cap *)
(* is left out: what has these five fields is within it.                   *)
(***************************************************************************)
EXTENDS Serials, SequencesExt

CONSTANTS
    KeyOf,       \* [canonical base64 -> the curve point]
    Skew         \* SKEW_MS

\* split(';').
Fields(text) ==
    LET upTo[n \in 0..Len(text)] ==
            IF n = 0 THEN <<<<>>>>
            ELSE LET fields == upTo[n - 1]
                 IN  IF text[n] = ";" THEN Append(fields, <<>>)
                     ELSE Append(Front(fields), Append(Last(fields), text[n]))
    IN  upTo[Len(text)]

Prefixed(field, prefix) == field # <<>> /\ Head(field) = prefix

\* decode_key_field.
KeyFlaw(field, prefix) ==
    IF ~Prefixed(field, prefix) THEN "WrongFieldPrefix"
    ELSE IF Len(field) # 2 \/ field[2] \notin DOMAIN KeyOf THEN "NotAKey"
    ELSE "None"

\* parse_ono0: the first thing that is wrong.
Flaw(fields) ==
    LET flaws == <<IF fields[2] = <<"k=", "ed25519">> THEN "None"
                   ELSE IF Prefixed(fields[2], "k=") THEN "UnknownKeyAlgorithm"
                   ELSE "WrongFieldPrefix",
                   IF ~Prefixed(fields[3], "n=") THEN "WrongFieldPrefix"
                   ELSE SerialFlaw(Tail(fields[3])),
                   KeyFlaw(fields[4], "g="),
                   KeyFlaw(fields[5], "p=")>>
    IN  IF Len(fields) # 5 THEN "WrongFieldCount"
        ELSE IF \E n \in DOMAIN flaws : flaws[n] # "None"
             THEN flaws[CHOOSE n \in DOMAIN flaws :
                           flaws[n] # "None" /\ \A m \in 1..(n - 1) : flaws[m] = "None"]
             ELSE "None"

\* TxtRecord::classify.
ClassOf(text) ==
    LET version == Tail(Fields(text)[1])
    IN  IF text = <<>> \/ Head(text) # "v=ONO" THEN "UnknownRecord"
        ELSE IF version = <<>> \/ \E n \in DOMAIN version : ~IsDigit(version[n])
             THEN "UnknownRecord"
        ELSE IF version # <<"0">> THEN "UnknownVersion"
        ELSE IF Flaw(Fields(text)) # "None" THEN "Malformed"
        ELSE "Binding"

RecordOf(text) ==
    LET fields == Fields(text)
    IN  [doc |-> KeyOf[fields[5][2]], gen |-> KeyOf[fields[4][2]],
         serial |-> Valued(Tail(fields[3]))]

SpellingOf(key) == CHOOSE spelling \in DOMAIN KeyOf : KeyOf[spelling] = key

\* Display, and what encode_record makes of parsed arguments.
Render(record) ==
    <<"v=ONO", "0", ";", "k=", "ed25519", ";", "n=">> \o Spelled(record.serial)
    \o <<";", "g=", SpellingOf(record.gen), ";", "p=", SpellingOf(record.doc)>>

-----------------------------------------------------------------------------
\* TXT RDATA: character strings, which are one text together. No strings at
\* all are no TXT RDATA.
Concatenated(rdata) == FlattenSeq(rdata)

\* parse_bindings: what the walk's leaf proves.
Bindings(rdatas) ==
    LET texts == [n \in DOMAIN rdatas |-> Concatenated(rdatas[n])]
        bound == SelectSeq(texts, LAMBDA text : ClassOf(text) = "Binding")
    IN  [n \in DOMAIN bound |-> RecordOf(bound[n])]

-----------------------------------------------------------------------------
\* The bindings' summary of a list of texts at a time.

FarFuture(record, now) == record.serial > now + Skew

Tally(texts, class) == {n \in DOMAIN texts : ClassOf(texts[n]) = class}

\* Mutant: the top serial is sought before any record is set aside.
AtTopUndeferred(records, now) ==
    {r \in records : ~FarFuture(r, now) /\ \A s \in records : s.serial <= r.serial}

\* Deferral first; then the records of the top serial, equal ones once.
AtTop(records, now) ==
    LET considered == {r \in records : ~FarFuture(r, now)}
    IN  {r \in considered : \A s \in considered : s.serial <= r.serial}

\* classify.
Classification(texts, now) ==
    LET records == {RecordOf(texts[n]) : n \in Tally(texts, "Binding")}
        top == AtTop(records, now)
    IN  [selected       |-> {r \in top : top = {r}},
         contested      |-> IF \E r \in top : top = {r} THEN {} ELSE top,
         deferred       |-> Cardinality({n \in Tally(texts, "Binding") :
                                            FarFuture(RecordOf(texts[n]), now)}),
         foreign        |-> Cardinality(Tally(texts, "UnknownRecord")),
         unknownVersion |-> Cardinality(Tally(texts, "UnknownVersion")),
         malformed      |-> Cardinality(Tally(texts, "Malformed"))]

-----------------------------------------------------------------------------
\* The TXT RRset at a hostname's owner name, over time: consoles mint the next
\* record and add or replace, providers split the text into character strings, other
\* tools leave strings of their own, records are taken out, and time passes. Two
\* readers look at it: the bindings' summary, and a verifier that holds a
\* certificate of every document and nothing else.
CONSTANTS
    Bodies,      \* what consoles bind: [doc, gen]
    Strays,      \* RDATA that other tools leave
    Drift,       \* how far a console's clock may be ahead
    FirstTime, LastTime,
    MaxStrings, MaxStrays   \* bounds on the RRset, and on what is not the consoles'

VARIABLES
    now,
    rrset,       \* the RDATA at the owner name
    meant,       \* the records that consoles put there, and are still there
    splitting    \* whether the zone's provider splits a text

recordVars == <<now, rrset, meant, splitting>>

Derivation(content) == INSTANCE Derivation WITH Content <- content

Host == "a"

\* A provider keeps a text whole, or splits it.
Stored(text) ==
    IF splitting THEN <<SubSeq(text, 1, 5), SubSeq(text, 6, Len(text))>> ELSE <<text>>

Init == now = FirstTime /\ rrset = {} /\ meant = {} /\ splitting \in BOOLEAN

Held == {RecordOf(Concatenated(d)) : d \in {x \in rrset : ClassOf(Concatenated(x)) = "Binding"}}

\* The highest serial already published for this body.
LastSerial(body) ==
    LET serials == {r.serial : r \in {x \in Held : x.doc = body.doc /\ x.gen = body.gen}}
    IN  {s \in serials : \A t \in serials : t <= s}

\* nextSerial and encodeRecord; the operator adds the string or replaces
\* what is there.
Mint(body, clock) ==
    \E serial \in NextSerial(LastSerial(body), clock), kept \in {{}, rrset} :
        LET record == [doc |-> body.doc, gen |-> body.gen, serial |-> serial]
        IN  /\ rrset' = kept \cup {Stored(Render(record))}
            /\ Cardinality(rrset') <= MaxStrings
            /\ meant' = (IF kept = {} THEN {} ELSE meant) \cup {record}
            /\ UNCHANGED <<now, splitting>>

Stray(rdata) ==
    /\ rrset' = rrset \cup {rdata}
    /\ Cardinality(rrset') <= MaxStrings /\ Cardinality(rrset' \cap Strays) <= MaxStrays
    /\ UNCHANGED <<now, meant, splitting>>

TakeOut(rdata) ==
    /\ rrset' = rrset \ {rdata}
    /\ meant' = {r \in meant : \E d \in rrset' : Concatenated(d) = Render(r)}
    /\ UNCHANGED <<now, splitting>>

Tick ==
    /\ now < LastTime
    /\ now' = now + 1
    /\ UNCHANGED <<rrset, meant, splitting>>

Next ==
    \/ \E body \in Bodies, ahead \in Drift : Mint(body, now + ahead)
    \/ \E rdata \in Strays : Stray(rdata)
    \/ \E rdata \in rrset : TakeOut(rdata)
    \/ Tick

Spec == Init /\ [][Next]_recordVars

-----------------------------------------------------------------------------
\* The verifier: for every document named, a certificate whose chain proves
\* the RRset and whose carriage reaches every generation.
Certified(records) ==
    [doc \in {records[n].doc : n \in DOMAIN records} |->
        [kind |-> "Record", host |-> Host, doc |-> doc,
         chain |-> [valid |-> TRUE, from |-> 0, end |-> LastTime, txt |-> records],
         issued |-> 0, authorized |-> TRUE, path |-> ToSet(KeyOf),
         lineage |-> {}, predecessor |-> {}]]

NoDecisions ==
    [acceptances |-> [h \in {Host} |-> {}], claims |-> [h \in {Host} |-> {}],
     resets |-> [h \in {Host} |-> {}]]

DeriveFrom(content) ==
    Derivation(content)!Derive(Host, Derivation(content)!Extract(DOMAIN content),
                               now, NoDecisions, {})

\* What the verifier derives from a set of RDATA.
Derived(rdatas) == DeriveFrom(Certified(Bindings(SetToSeq(rdatas))))

Preview ==
    LET listing == SetToSeq(rrset)
    IN  Classification([n \in DOMAIN listing |-> Concatenated(listing[n])], now)

Deferred == {r \in Held : FarFuture(r, now)}

\* Of each document the RRset has one record at its highest serial, and none
\* from the far future beside others: else the two readers do differ. (Of two generations of
\* one document at one serial records.rs says that the verifier treats them as a contest;
\* validate_record takes the last of them.)
Plain ==
    /\ \A r, s \in Held : r.doc = s.doc /\ r.serial = s.serial => r = s
    /\ \A r \in Deferred, s \in Held \ Deferred : r.doc # s.doc

\* The two readers of an RRset agree: what the console reads back are the
\* records that consoles meant and what strays spell, no string is counted
\* twice or lost, and it calls a record the zone's word, or the zone
\* contested, when a verifier would (records.rs classify, "the reference
\* rules"; validator.rs parse_bindings; state.rs validate_record).
PreviewAgrees ==
    LET preview == Preview
        derived == Derived(rrset)
    IN  /\ meant \subseteq Held
        /\ preview.foreign + preview.unknownVersion + preview.malformed
              + Len(Bindings(SetToSeq(rrset))) = Cardinality(rrset)
        /\ Plain =>
              /\ derived.contested = (preview.contested # {})
              /\ {[doc |-> a.doc, gen |-> a.gen] : a \in derived.accepted}
                    = {[doc |-> r.doc, gen |-> r.gen] : r \in preview.selected}
              /\ derived.serial = {r.serial : r \in preview.selected}

\* dns-anchor.md: a record from the far future is "never allowed to poison
\* processing of other records. Deferral precedes everything". The verifier
\* takes each document's highest serial first and defers the result, so that
\* such a record hides a good one of its document.
DeferralPrecedesSelection ==
    Derived(rrset) = Derived({d \in rrset :
        ClassOf(Concatenated(d)) = "Binding" => RecordOf(Concatenated(d)) \notin Deferred})
=============================================================================
