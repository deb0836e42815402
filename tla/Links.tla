------------------------------- MODULE Links -------------------------------
(***************************************************************************)
(* A chain link: the resource records of one RRset with the signatures     *)
(* over it, how the builder frames it, how it is parsed, and what its      *)
(* signatures are checked against.                                         *)
(*                                                                         *)
(* A record is [owner, rtype, class, ttl, rdata]; a name is the sequence   *)
(* of its labels, the root's end first. What is signed is a value, and a   *)
(* signature is the key and that value: no other is known to verify.       *)
(*   RRSIG   [covered, algorithm, labels, originalTtl, window, signer,     *)
(*            signature]                                                   *)
(*   DNSKEY  [flags, protocol, algorithm, key]                             *)
(*   DS      [algorithm, digestType, digest], digest [owner, key]          *)
(* The key tag is left out: it only orders the keys that are tried, and    *)
(* every key of the zone is tried.                                         *)
(***************************************************************************)
EXTENDS Integers, SequencesExt

CONSTANT Uppercase   \* [label -> the label in lower case], where they differ

Supported == {"RSA_SHA256", "ECDSA_P256_SHA256", "ED25519"}

Lower(name) ==
    [n \in DOMAIN name |-> IF name[n] \in DOMAIN Uppercase THEN Uppercase[name[n]] ELSE name[n]]

\* Name::read: reject, never normalize.
Canonical(name) == Lower(name) = name

IsSignature(record) == record.rtype = "RRSIG"

-----------------------------------------------------------------------------
\* frame_rrset: of the answers, the data and then the signatures that cover
\* it at the owner, names in any case and written in canonical form.
Framed(answers, owner, rtype) ==
    LET here(record) == Lower(record.owner) = owner
        data == SelectSeq(answers, LAMBDA r : here(r) /\ r.rtype = rtype)
        covering == SelectSeq(answers,
            LAMBDA r : here(r) /\ IsSignature(r) /\ r.rdata.covered = rtype)
        records == data \o covering
    IN  IF data = <<>> \/ covering = <<>> THEN {}
        ELSE {[n \in DOMAIN records |-> [records[n] EXCEPT !.owner = owner]]}

-----------------------------------------------------------------------------
Data(records) == SelectSeq(records, LAMBDA r : ~IsSignature(r))
Signatures(records) == SelectSeq(records, IsSignature)

Rdatas(records) == {records[n].rdata : n \in DOMAIN records}

\* Record::read and Rrsig::parse.
Readable(record) ==
    /\ Canonical(record.owner)
    /\ record.class = "IN"
    /\ IsSignature(record) => Canonical(record.rdata.signer)

\* One RRset, and signatures that are all over it.
IsLink(data, signatures) ==
    /\ data # <<>>
    /\ \A n \in DOMAIN data :
          data[n].owner = data[1].owner /\ data[n].rtype = data[1].rtype
    /\ signatures # <<>>
    /\ \A n \in DOMAIN signatures :
          /\ signatures[n].owner = data[1].owner
          /\ signatures[n].rdata.covered = data[1].rtype

\* Link::parse: the link, if the records are one.
Parse(records) ==
    IF /\ \A n \in DOMAIN records : Readable(records[n])
       /\ IsLink(Data(records), Signatures(records))
    THEN {[owner |-> Data(records)[1].owner, rtype |-> Data(records)[1].rtype,
           rrset |-> Data(records),
           signatures |-> [n \in DOMAIN Signatures(records) |-> Signatures(records)[n].rdata]]}
    ELSE {}

-----------------------------------------------------------------------------
\* signed_owner: the owner, or the wildcard that a shorter label count says
\* it was expanded from. There is none for a longer one.
SignedOwner(owner, labels) ==
    IF labels > Len(owner) THEN {}
    ELSE IF labels = Len(owner) THEN {owner}
    ELSE {Append(SubSeq(owner, 1, labels), "*")}

Preamble(rrsig) == [f \in DOMAIN rrsig \ {"signature"} |-> rrsig[f]]

\* What one signature is over.
Message(preamble, owner, rtype, rdatas) ==
    [preamble |-> preamble, owner |-> owner, rtype |-> rtype, rdatas |-> rdatas]

\* Mutant: the data is taken as it is carried.
SignedDataAsCarried(link, rrsig) ==
    {Message(Preamble(rrsig), owner, link.rtype,
             [n \in DOMAIN link.rrset |-> link.rrset[n].rdata]) :
        owner \in SignedOwner(link.owner, rrsig.labels)}

\* signed_data: the signature's preamble, then the data in canonical order
\* and without duplicates, under the signed owner and the original TTL.
SignedData(link, rrsig) ==
    {Message(Preamble(rrsig), owner, link.rtype, SetToSeq(Rdatas(link.rrset))) :
        owner \in SignedOwner(link.owner, rrsig.labels)}

Signed(key, message) == [key |-> key, message |-> message]

\* Rrsig::verify, verify_signature.
Verifies(rrsig, link, key) ==
    /\ "ZONE" \in key.flags
    /\ key.algorithm = rrsig.algorithm
    /\ key.algorithm \in Supported
    /\ \E message \in SignedData(link, rrsig) : rrsig.signature = Signed(key.key, message)

\* verify_signed_link: the first signature by the zone that one of its keys
\* verifies. An empty window is an error, and no further signature is tried.
VerifiedBy(link, zone, keys) ==
    LET verified(n) ==
            /\ link.signatures[n].signer = zone
            /\ \E key \in keys : Verifies(link.signatures[n], link, key)
    IN  {link.signatures[n] : n \in {m \in DOMAIN link.signatures :
            /\ verified(m)
            /\ \A k \in 1..(m - 1) : ~verified(k)
            /\ link.signatures[m].window[1] <= link.signatures[m].window[2]}}

\* parse_keys: a key of another protocol spoils the set.
KeysOf(link) ==
    IF \A key \in Rdatas(link.rrset) : key.protocol = 3 THEN {Rdatas(link.rrset)} ELSE {}

\* ds_matches, and TrustAnchor::matches.
Commits(ds, owner, key) ==
    /\ ds.digestType = "SHA256"
    /\ ds.algorithm = key.algorithm
    /\ ds.digest = [owner |-> owner, key |-> key]

\* descend, and enter_anchored: the keys of a child, one of them committed
\* to, which sign themselves.
Descended(link, child, commitments) ==
    IF link.rtype # "DNSKEY" \/ link.owner # child THEN {}
    ELSE UNION {IF \E key \in keys, ds \in commitments : Commits(ds, child, key)
                THEN VerifiedBy(link, child, keys) ELSE {} : keys \in KeysOf(link)}

-----------------------------------------------------------------------------
\* A link's way from the zone that signed it to a verifier: the builder frames what
\* a resolver answered, and the link is handed on inside chains, refreshes and
\* certificates, by caches that reorder records, repeat them and count their TTL
\* down, and by others that lose, change or mix them.
CONSTANTS
    Zone,          \* the zone that signs
    ZoneKeys,      \* its keys, the one that signs for it first
    Published,     \* what it signs: [owner, rtype, rdatas, ttl, window]
    Commitments,   \* what its parent says of its keys
    StandsFor,     \* [wildcard -> names it stands in for]
    Changed,       \* [rdata -> what it may turn into]
    Times,         \* other windows
    MaxTouches     \* bound on what happens to a link

VARIABLES
    link,       \* the records under way
    faithful,   \* no one did more than a cache may
    touches

linkVars == <<link, faithful, touches>>

-----------------------------------------------------------------------------
\* Signing, by the zone (RFC 4035): one signature for each of its zone keys.
Rrsig(set, key) ==
    LET labels == Len(SelectSeq(set.owner, LAMBDA l : l # "*"))
        preamble == [covered |-> set.rtype, algorithm |-> key.algorithm, labels |-> labels,
                     originalTtl |-> set.ttl, window |-> set.window, signer |-> Zone]
        message == Message(preamble, set.owner, set.rtype, SetToSeq(set.rdatas))
    IN  [f \in DOMAIN preamble \cup {"signature"} |->
            IF f = "signature" THEN Signed(key.key, message) ELSE preamble[f]]

Record(owner, rtype, ttl, rdata) ==
    [owner |-> owner, rtype |-> rtype, class |-> "IN", ttl |-> ttl, rdata |-> rdata]

Rrsigs(set) == {Rrsig(set, key) : key \in {k \in ToSet(ZoneKeys) : "ZONE" \in k.flags}}

\* A resolver's answer at an owner, which may be one that a wildcard stands
\* in for.
Answer(set, owner) ==
    SetToSeq({Record(owner, set.rtype, set.ttl, rdata) : rdata \in set.rdatas}
             \cup {Record(owner, "RRSIG", set.ttl, rrsig) : rrsig \in Rrsigs(set)})

OwnersOf(set) == IF set.owner \in DOMAIN StandsFor THEN StandsFor[set.owner] ELSE {set.owner}

Everything == UNION {Range(Answer(set, set.owner)) : set \in Published}

Init ==
    /\ \E set \in Published : \E owner \in OwnersOf(set) :
          link \in Framed(Answer(set, owner), Lower(owner), set.rtype)
    /\ faithful = TRUE
    /\ touches = 0

Touch(records, still) ==
    /\ touches < MaxTouches
    /\ link' = records
    /\ faithful' = (faithful /\ still)
    /\ touches' = touches + 1

\* What a cache may do.
Reorder == \E n \in 1..(Len(link) - 1) :
    Touch([link EXCEPT ![n] = link[n + 1], ![n + 1] = link[n]], TRUE)

Repeat == \E n \in DOMAIN link : Touch(Append(link, link[n]), TRUE)

Age == \E n \in DOMAIN link :
    link[n].ttl > 0 /\ Touch([link EXCEPT ![n].ttl = @ - 1], TRUE)

\* What it may not.
Lose == \E n \in DOMAIN link : Touch(RemoveAt(link, n), FALSE)

Mix == \E r \in Everything \ Range(link) : Touch(Append(link, r), FALSE)

Move == \E names \in Range(StandsFor) : \E name \in names :
    Touch([n \in DOMAIN link |-> [link[n] EXCEPT !.owner = name]], FALSE)

Changes(record) ==
    {[record EXCEPT !.class = "CH"]}
    \cup (IF IsSignature(record)
          THEN {[record EXCEPT !.rdata.labels = l] : l \in 1..4}
               \cup {[record EXCEPT !.rdata.originalTtl = record.ttl]}
               \cup {[record EXCEPT !.rdata.window = w] : w \in Times}
               \cup {[record EXCEPT !.rdata.algorithm = a] : a \in Supported}
               \cup {[record EXCEPT !.rdata.signer = SubSeq(Zone, 1, 1)]}
          ELSE {[record EXCEPT !.rdata = r] :
                   r \in IF record.rdata \in DOMAIN Changed THEN Changed[record.rdata] ELSE {}})

Change == \E n \in DOMAIN link : \E r \in Changes(link[n]) \ {link[n]} :
    Touch([link EXCEPT ![n] = r], FALSE)

Next == Reorder \/ Repeat \/ Age \/ Lose \/ Mix \/ Move \/ Change

Spec == Init /\ [][Next]_linkVars

-----------------------------------------------------------------------------
\* What the verifier takes of the link: the signature that it accepts.
Accepted(parsed) ==
    IF parsed.rtype = "DNSKEY" THEN Descended(parsed, Zone, Commitments)
    ELSE VerifiedBy(parsed, Zone, ToSet(ZoneKeys))

\* The zone signed this set, at this name or at a wildcard that stands in
\* for it.
WasSigned(parsed, rrsig) ==
    \E set \in Published :
        /\ set.rtype = parsed.rtype
        /\ set.rdatas = Rdatas(parsed.rrset)
        /\ rrsig.window = set.window
        /\ IF rrsig.labels = Len(parsed.owner) THEN parsed.owner = set.owner
           ELSE /\ Last(set.owner) = "*" /\ rrsig.labels = Len(set.owner) - 1
                /\ IsStrictPrefix(Front(set.owner), parsed.owner)

\* A link is accepted for what its zone signed and nothing else, in name,
\* type, data and time, whatever became of it on its way; and reordering,
\* repetition and a TTL counted down never cost it its acceptance (link.rs
\* parse, rrsig.rs signed_data, validator.rs verify_signed_link).
VerifiesWhatWasSigned ==
    /\ \A parsed \in Parse(link) : \A rrsig \in Accepted(parsed) : WasSigned(parsed, rrsig)
    /\ faithful => \E parsed \in Parse(link) : Accepted(parsed) # {}
=============================================================================
