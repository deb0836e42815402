------------------------------- MODULE Units -------------------------------
(***************************************************************************)
(* The byte form of the three signed units - certificate (ONC), rotation   *)
(* statement (ONR), succession statement (ONS) - and of the chain framing: *)
(* strict decoding, encoding, signing and re-attachment.                   *)
(*                                                                         *)
(* A byte string is a sequence of tokens, and every token is a number, so  *)
(* that a misplaced one is read as whatever stands in its place. A tag, a  *)
(* key, a head, a signature and an integer (canonical by construction, in  *)
(* the code) take one token each; names and carriage entries take several. *)
(* A digest is the byte string itself.                                     *)
(***************************************************************************)
EXTENDS Integers, SequencesExt

CONSTANTS
    Keys,        \* the tokens that are the canonical form of a curve point
    Hostnames,   \* the canonical spellings of hostnames
    Made,        \* [signature -> [key, region]]: what has ever been signed
    MaxUnit      \* the unit size cap

Tag == [ONC |-> 71, ONR |-> 72, ONS |-> 73]

Kinds == DOMAIN Tag

\* What stands between the tag and the signature, which of it is the signing
\* key, and the unsigned tail.
Fields ==
    [ONC |-> <<"key", "key", "integer", "hostname", "heads", "predecessor">>,
     ONR |-> <<"key", "key", "key">>,
     ONS |-> <<"key", "key", "key", "hostname">>]

SignerAt == [ONC |-> 2, ONR |-> 3, ONS |-> 3]

TailOf ==
    [ONC |-> <<"carriage", "lineage", "chain">>,
     ONR |-> <<"carriage">>,
     ONS |-> <<"carriage">>]

\* verify_strict.
Verifies(key, region, signature) ==
    signature \in DOMAIN Made /\ Made[signature] = [key |-> key, region |-> region]

Signer(u) == u.fields[SignerAt[u.kind]]

-----------------------------------------------------------------------------
\* Writing. A unit is [kind, fields, signature, tail].

Framed(bytes) == <<Len(bytes)>> \o bytes

Counted(parts, Write(_)) ==
    <<Len(parts)>> \o FlattenSeq([n \in DOMAIN parts |-> Framed(Write(parts[n]))])

Verbatim(bytes) == bytes

\* The values of the field kinds that nest no unit.
WriteFlat(kind, value) ==
    CASE kind \in {"key", "integer"}     -> <<value>>
      [] kind = "hostname"               -> Framed(value)
      [] kind = "heads"                  -> <<Len(value)>> \o value
      [] kind \in {"carriage", "chain"}  -> Counted(value, Verbatim)

WriteAll(kinds, values, Write(_, _)) ==
    FlattenSeq([n \in DOMAIN kinds |-> Write(kinds[n], values[n])])

EncodeStatement(u) ==
    <<Tag[u.kind]>> \o WriteAll(Fields[u.kind], u.fields, WriteFlat)
    \o <<u.signature>> \o WriteAll(TailOf[u.kind], u.tail, WriteFlat)

Write(kind, value) ==
    CASE kind = "predecessor" ->
            IF value = <<>> THEN <<0>> ELSE Framed(EncodeStatement(value[1]))
      [] kind = "lineage"     -> Counted(value, EncodeStatement)
      [] OTHER                -> WriteFlat(kind, value)

\* The signed region.
Region(kind, fields) == <<Tag[kind]>> \o WriteAll(Fields[kind], fields, Write)

Encode(u) ==
    Region(u.kind, u.fields) \o <<u.signature>> \o WriteAll(TailOf[u.kind], u.tail, Write)

-----------------------------------------------------------------------------
\* Reading. A reader is [bytes, pos, ok, got]: what it has read so far.

Reader(bytes) ==
    [bytes |-> bytes, pos |-> 0, ok |-> Len(bytes) <= MaxUnit, got |-> <<>>]

Remaining(r) == Len(r.bytes) - r.pos

Read(r, n) ==
    IF ~r.ok \/ n > Remaining(r) THEN [r EXCEPT !.ok = FALSE]
    ELSE [r EXCEPT !.pos = @ + n, !.got = Append(@, SubSeq(r.bytes, r.pos + 1, r.pos + n))]

\* The last thing read, checked and turned into what it stands for.
Check(r, Holds(_), Value(_)) ==
    IF ~r.ok THEN r
    ELSE IF Holds(Last(r.got)) THEN [r EXCEPT !.got = Append(Front(@), Value(Last(@)))]
    ELSE [r EXCEPT !.ok = FALSE]

One(bytes) == bytes[1]
Anything(bytes) == TRUE

ReadKey(r) == Check(Read(r, 1), LAMBDA b : b[1] \in Keys, One)

ReadInteger(r) == Check(Read(r, 1), Anything, One)

\* Reader::bounded_len, then what the length was read for.
Bounded(r, width, Then(_, _)) ==
    LET length == ReadInteger(r)
        n == Last(length.got)
    IN  IF ~length.ok \/ n * width > Remaining(length) THEN [r EXCEPT !.ok = FALSE]
        ELSE Then([length EXCEPT !.got = r.got], n)

ReadFramed(r) == Bounded(r, 1, Read)

\* One after the other.
ReadAll(r, kinds, ReadOne(_, _)) ==
    LET upTo[n \in 0..Len(kinds)] == IF n = 0 THEN r ELSE ReadOne(upTo[n - 1], kinds[n])
    IN  upTo[Len(kinds)]

\* A counted list: its n elements become one value.
Collect(r, n, ReadOne(_)) ==
    LET end == ReadAll([r EXCEPT !.got = <<>>], [k \in 1..n |-> "element"],
                       LAMBDA q, kind : ReadOne(q))
    IN  [end EXCEPT !.got = Append(r.got, @)]

ReadCounted(r, width, ReadOne(_)) ==
    Bounded(r, width, LAMBDA q, n : Collect(q, n, ReadOne))

Ascending(s) == \A n \in 1..(Len(s) - 1) : s[n] < s[n + 1]

ReadHeads(r) == Check(ReadCounted(r, 1, ReadInteger), Ascending, Verbatim)

ReadHostname(r) == Check(ReadFramed(r), LAMBDA b : b \in Hostnames, Verbatim)

ReadFlat(r, kind) ==
    CASE kind = "key"                    -> ReadKey(r)
      [] kind = "integer"                -> ReadInteger(r)
      [] kind = "hostname"               -> ReadHostname(r)
      [] kind = "heads"                  -> ReadHeads(r)
      [] kind \in {"carriage", "chain"}  -> ReadCounted(r, 1, ReadFramed)

\* Mutant: the signature need only be somebody's.
AttestedBySomeone(r, kind) == Last(r.got) \in DOMAIN Made

\* The signature covers the bytes received, tag included, and never what they
\* would encode to again.
Attested(r, kind) ==
    Verifies(r.got[SignerAt[kind]], SubSeq(r.bytes, 1, r.pos - 1), Last(r.got))

\* Signed::decode_from.
ReadSigned(bytes, kind, ReadOne(_, _)) ==
    LET tag    == Check(Read(Reader(bytes), 1), LAMBDA b : b[1] = Tag[kind], One)
        signed == ReadInteger(ReadAll([tag EXCEPT !.got = <<>>], Fields[kind], ReadOne))
    IN  [signed EXCEPT !.ok = @ /\ Attested(signed, kind)]

\* Mutant: bytes after a complete unit are let pass.
FinishedAnyway(r) == r.ok

\* Reader::finish.
Finished(r) == r.ok /\ Remaining(r) = 0

\* The set of units, none or one, that a byte string decodes to.
DecodeWith(bytes, kind, ReadOne(_, _)) ==
    LET count  == Len(Fields[kind])
        signed == ReadSigned(bytes, kind, ReadOne)
        end    == ReadAll(signed, TailOf[kind], ReadOne)
    IN  IF ~Finished(end) THEN {}
        ELSE {[kind      |-> kind,
               fields    |-> SubSeq(end.got, 1, count),
               signature |-> end.got[count + 1],
               tail      |-> SubSeq(end.got, count + 2, Len(end.got))]}

DecodeStatement(bytes, kind) == DecodeWith(bytes, kind, ReadFlat)

\* The nested units of a certificate are decoded where they stand.
ReadStatement(r, kind) ==
    Check(ReadFramed(r), LAMBDA b : DecodeStatement(b, kind) # {},
          LAMBDA b : CHOOSE u \in DecodeStatement(b, kind) : TRUE)

ReadPredecessor(r) ==
    Check(ReadFramed(r), LAMBDA b : b = <<>> \/ DecodeStatement(b, "ONS") # {},
          LAMBDA b : SetToSeq(DecodeStatement(b, "ONS")))

\* An entry's length, its tag, three keys, a signature and an empty carriage.
MinLineageEntry == 7

ReadField(r, kind) ==
    CASE kind = "predecessor" -> ReadPredecessor(r)
      [] kind = "lineage"     ->
            ReadCounted(r, MinLineageEntry, LAMBDA q : ReadStatement(q, "ONR"))
      [] OTHER                -> ReadFlat(r, kind)

Decode(bytes, kind) == DecodeWith(bytes, kind, ReadField)

-----------------------------------------------------------------------------
\* sign and from_parts, which agree on every unit either can make: heads are
\* put in order, and a unit over the cap is not made.
Canonical(kind, value) ==
    IF kind = "heads" THEN SetToSortSeq(ToSet(value), <) ELSE value

Signatures(kind, fields) ==
    {s \in DOMAIN Made : Verifies(fields[SignerAt[kind]], Region(kind, fields), s)}

Sign(kind, params, tail) ==
    LET fields == [n \in DOMAIN params |-> Canonical(Fields[kind][n], params[n])]
    IN  {u \in {[kind |-> kind, fields |-> fields, signature |-> s, tail |-> tail] :
                  s \in Signatures(kind, fields)} : Len(Encode(u)) <= MaxUnit}

\* with_attachments.
WithAttachments(u, tail) ==
    {v \in {[u EXCEPT !.tail = tail]} : Len(Encode(v)) <= MaxUnit}

SameCertificate(u, v) ==
    u.kind = v.kind /\ u.fields = v.fields /\ u.signature = v.signature

-----------------------------------------------------------------------------
\* A unit's way from its signer to a verifier's directory: it is signed, copied
\* from hand to hand as bytes that nobody vouches for, decoded where it arrives,
\* kept as a file, read back after a restart, given newer attachments without its
\* key, and handed on.
CONSTANTS
    Intended,   \* what signers set out to sign: [kind, params, tail]
    Tails,      \* the attachments at hand for a certificate
    Noise,      \* the tokens damage may put in
    MaxEdits,   \* bound on the edits under way
    MaxHeld     \* bound on the directory

VARIABLES
    carried,   \* the byte string under way, <<>> when there is none
    held,      \* the byte strings in the verifier's store, by content
    edits      \* how often what was under way was damaged

vars == <<carried, held, edits>>

Init ==
    /\ carried = <<>>
    /\ held = {}
    /\ edits = 0

UnitsOf(bytes) == UNION {Decode(bytes, kind) : kind \in Kinds}

\* A signer makes a unit and sends it off.
Publish(i) ==
    /\ \E u \in Sign(i.kind, i.params, i.tail) : carried' = Encode(u)
    /\ UNCHANGED <<held, edits>>

\* Whoever holds a unit hands out the file it keeps.
HandOn(b) ==
    /\ carried' = b
    /\ UNCHANGED <<held, edits>>

\* One edit: a token lost, put in, changed or doubled, two swapped, or the
\* rest cut off.
Damage ==
    /\ carried # <<>>
    /\ edits < MaxEdits
    /\ edits' = edits + 1
    /\ \/ \E n \in DOMAIN carried :
            \/ carried' = RemoveAt(carried, n)
            \/ carried' = InsertAt(carried, n, carried[n])
            \/ carried' = SubSeq(carried, 1, n - 1)
            \/ \E t \in Noise :
                  \/ carried' = ReplaceAt(carried, n, t)
                  \/ carried' = InsertAt(carried, n, t)
       \/ \E n \in 1..(Len(carried) - 1) :
            carried' = [carried EXCEPT ![n] = carried[n + 1], ![n + 1] = carried[n]]
       \/ \E t \in Noise : carried' = Append(carried, t)
    /\ UNCHANGED held

\* The verifier is handed bytes as a unit of some kind. What does not decode
\* leaves no trace; what does is held under the bytes received.
Receive ==
    /\ carried # <<>>
    /\ carried' = <<>>
    /\ held' = held \cup {b \in {carried} : UnitsOf(b) # {}}
    /\ Cardinality(held') <= MaxHeld
    /\ UNCHANGED edits

\* The keyless refresh of a held certificate: a new item beside the old one.
Reattach(b, tail) ==
    /\ \E u \in Decode(b, "ONC") : \E v \in WithAttachments(u, tail) :
          held' = held \cup {Encode(v)}
    /\ Cardinality(held') <= MaxHeld
    /\ UNCHANGED <<carried, edits>>

\* persist writes each unit as it encodes, and the next process loads that.
Restart ==
    /\ held' = UNION {{Encode(u) : u \in UnitsOf(b)} : b \in held}
    /\ UNCHANGED <<carried, edits>>

Next ==
    \/ \E i \in Intended : Publish(i)
    \/ \E b \in held : HandOn(b)
    \/ Damage
    \/ Receive
    \/ \E b \in held, tail \in Tails : Reattach(b, tail)
    \/ Restart

Spec == Init /\ [][Next]_vars

-----------------------------------------------------------------------------
\* A byte string has one reading and a unit one spelling: no damaged copy of a
\* held unit is that unit again under another content hash, so content
\* addressing never holds one twice, and a restart finds the very items that
\* were written (core wire.rs; certificate.rs "encode(decode(b)) = b").
OneSpelling ==
    /\ \A b \in held : Cardinality(UnitsOf(b)) = 1
    /\ \A b, c \in held : b # c => UnitsOf(b) # UnitsOf(c)
    /\ {Encode(u) : u \in UNION {UnitsOf(b) : b \in held}} = held

\* The statements that stand inside a unit.
Inner(u) ==
    IF u.kind = "ONC" THEN ToSet(u.fields[6]) \cup ToSet(u.tail[2]) ELSE {}

Meant ==
    UNION {Sign(i.kind, i.params, i.tail) : i \in Intended}

\* Whatever happened to it under way, a held unit, and every statement that
\* stands in it, is in kind and fields one that a signer set out to sign: only
\* the unsigned attachments can have changed (signed.rs decode_from).
OnlyTailsChange ==
    LET meant == UNION {{m} \cup Inner(m) : m \in Meant}
    IN  \A b \in held : \A u \in UnitsOf(b) : \A s \in {u} \cup Inner(u) :
            \E m \in meant : SameCertificate(s, m)
=============================================================================
