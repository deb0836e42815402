------------------------------- MODULE Names -------------------------------
(***************************************************************************)
(* Hostnames, and the grammar of names. A text is its sigil and the        *)
(* sequence of its parts between slashes: "~/bob" is the sigil "~" and     *)
(* <<"", "bob">>.                                                          *)
(***************************************************************************)
EXTENDS Naturals, SequencesExt

-----------------------------------------------------------------------------
\* Hostnames. A text is the sequence of its labels, split at the dots, so a trailing dot
\* is an empty last label. What the parser asks of the characters of a label is given by
\* the constants.

CONSTANTS
    Lower,      \* [label -> the label in lower case]
    ALabels,    \* [label -> its A-label in lower case], where UTS-46 finds one
    Ascii,      \* the labels in ASCII
    WellFormed, \* lower-case letters, digits and inner hyphens, not too long
    Digits,     \* the labels of digits alone
    MaxLabels   \* stands for the length limit of a name

ASSUME HostNamesAssumption ==
    /\ Digits \subseteq WellFormed /\ WellFormed \subseteq Ascii
    /\ DOMAIN Lower = Ascii
    /\ \A l \in WellFormed : Lower[l] = l
    /\ MaxLabels \in Nat

Trimmed(raw) == IF Len(raw) > 1 /\ Last(raw) = "" THEN Front(raw) ELSE raw

Lowered(raw) == [n \in DOMAIN raw |-> Lower[raw[n]]]

\* DnsName::parse.
ParseHost(raw) ==
    IF ~(ToSet(raw) \subseteq Ascii) THEN {}
    ELSE {h \in {Lowered(Trimmed(raw))} :
            /\ Len(h) \in 2..MaxLabels
            /\ ToSet(h) \subseteq WellFormed
            /\ Last(h) \notin Digits}

\* Mutant: decoders normalize what they read.
FromCanonicalNormalizing(raw) == ParseHost(raw)

\* DnsName::from_canonical: decoders reject what they would have to normalize.
FromCanonical(raw) == {h \in ParseHost(raw) : h = raw}

\* DnsName::parse_display, behind which UTS-46 stands.
ParseDisplay(raw) ==
    IF ~(ToSet(raw) \subseteq DOMAIN ALabels) THEN {}
    ELSE ParseHost([n \in DOMAIN raw |-> ALabels[raw[n]]])

-----------------------------------------------------------------------------
\* Names.

CONSTANTS
    Doc,      \* documents: the canonical ed25519 keys
    Hashed,   \* parts with a '#'
    Control,  \* parts with a control character
    Dotted,   \* [part -> its labels], of the parts tried as hostnames
    Payload   \* [part -> [length, doc, canonical]], of the parts that are valid bs58check

ASSUME NamesAssumption ==
    \* bs58check and the canonical encoding of a point spell each document once.
    /\ \A p \in DOMAIN Payload : Payload[p].doc \in Doc
    /\ \A p, q \in DOMAIN Payload : Payload[p] = Payload[q] /\ Payload[p].canonical => p = q
    /\ \A p, q \in DOMAIN Dotted : Dotted[p] = Dotted[q] => p = q

\* Segment::parse. A part has no slash.
IsSegment(part) == part \notin {"", ".", ".."} \cup Hashed \cup Control

\* parse_segments: nothing, or segments each led by a slash.
ParseSegments(rest) ==
    {path \in {Tail(rest)} : rest[1] = "" /\ \A n \in DOMAIN path : IsSegment(path[n])}

\* split_anchor: up to the first slash, and the remainder.
AnchorPart(raw) == raw.parts[1]
Remainder(raw) == <<"">> \o Tail(raw.parts)

\* Mutant: any encoding of a point is a key.
ParseDocIdLenient(part) ==
    {Payload[p].doc : p \in {q \in {part} \cap DOMAIN Payload : Payload[q].length = 32}}

\* DocAnchor::parse and key::decode: a whole key, in the one canonical encoding of its
\* point. Legacy identifiers have 16 bytes.
ParseDocId(part) ==
    {Payload[p].doc : p \in {q \in {part} \cap DOMAIN Payload :
                               Payload[q].length = 32 /\ Payload[q].canonical}}

Name(kind, anchor, path) == [kind |-> kind, anchor |-> anchor, path |-> path]

ParseLocal(raw) == {Name("Local", "~", path) : path \in ParseSegments(raw.parts)}

\* A '#' anywhere is refused: names carry no version pins.
ParseDoc(raw) ==
    {Name("Doc", d, path) : d \in ParseDocId(AnchorPart(raw)),
                              path \in ParseSegments(Remainder(raw))}

ParseDns(raw) ==
    IF AnchorPart(raw) \notin DOMAIN Dotted THEN {}
    ELSE {Name("Dns", h, path) : h \in ParseHost(Dotted[AnchorPart(raw)]),
                                 path \in ParseSegments(Remainder(raw))}

\* SupportedName::parse: the sigil decides, and nothing falls back.
ParseName(raw) ==
    CASE raw.sigil = "~" -> ParseLocal(raw)
      [] raw.sigil = "automerge:" -> ParseDoc(raw)
      [] raw.sigil = "@" -> ParseDns(raw)
      [] OTHER -> {}

PrintAnchor(name) ==
    CASE name.kind = "Local" -> ""
      [] name.kind = "Doc" -> CHOOSE p \in DOMAIN Payload : ParseDocId(p) = {name.anchor}
      [] name.kind = "Dns" -> CHOOSE p \in DOMAIN Dotted : Dotted[p] = name.anchor

Sigil(name) ==
    CASE name.kind = "Local" -> "~" [] name.kind = "Doc" -> "automerge:" [] name.kind = "Dns" -> "@"

\* Display, in the same sigil form.
PrintName(name) == [sigil |-> Sigil(name), parts |-> <<PrintAnchor(name)>> \o name.path]
=============================================================================
