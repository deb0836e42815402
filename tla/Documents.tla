----------------------------- MODULE Documents -----------------------------
(***************************************************************************)
(* The documents that devices hold, and the names resolved across them. A  *)
(* native device keeps a directory of documents, each with or without a    *)
(* carriage, and edits its user's own document as petnames; a browser tab  *)
(* keeps documents in memory. Other applications, and the user's decision  *)
(* tools, write to the same documents; the substrate merges concurrent     *)
(* writes.                                                                 *)
(***************************************************************************)
EXTENDS Petnames, DecisionsView, CertificateList

CONSTANTS
    Native, Browser,
    Own,        \* the user's own document: the root of "~", with the decisions in it
    Library,    \* [document -> its replica elsewhere], of the documents one can obtain
    Arriving,   \* how they reach a directory: [doc, carriage]
    Fresh,      \* the documents a browser may mint
    Zone,       \* [hostname -> the records of its zone], as a chain proves them now
    Path, Target,          \* what petnames are given
    PathText, AnchorText,  \* what a browser's user may type
    NameText,
    Foreign,    \* [part -> what other applications write: <<key, value>>]
    HostText,              \* what decision tools write: hostnames as given,
    Entry,                 \* acceptances [document, cited],
    Claimed,               \* and documents someone introduced
    Unit,                  \* the certificates to be stored
    MaxCommands            \* bound: the commands that write

\* What a text between slashes is split into: one part or more.
IsText(parts) == parts # <<>> /\ parts \in Seq(ToSet(parts))

Parts == {"names", "decisions", "certificates"}

ASSUME DocumentsAssumption ==
    /\ Own \in Doc /\ DOMAIN Library \subseteq Doc /\ Fresh \subseteq Doc /\ Target \subseteq Doc
    /\ Native \cap Browser = {} /\ Unit \subseteq DOMAIN SignedRegion
    /\ \A a \in DOMAIN Library : IsDocument(Library[a])
    /\ \A x \in Arriving : x.doc \in DOMAIN Library
    /\ \A p \in Path : IsPathKey(p)    \* petnames are given segments
    /\ \A p \in PathText : IsText(p)
    /\ \A t \in AnchorText \cup NameText : IsText(t.parts)
    /\ \A h \in DOMAIN Zone : IsFiniteSet(Zone[h])
    /\ \A p \in Parts : \A w \in Foreign[p] : w[1] = Root(w[1].prop)

Device == Native \cup Browser

VARIABLES
    docs,      \* [device -> [held document -> [doc, carriage]]]
    clock,     \* the stamps handed out
    commands,  \* how many more commands may write
    part,      \* bound: what the commands of this behaviour are about
    decided    \* history: the entries of acceptances, and what their writers had seen

vars == <<docs, clock, commands, part, decided>>

Replica(doc, carriage) == [doc |-> doc, carriage |-> carriage]

-----------------------------------------------------------------------------
(* Names. *)

\* anchor_of: the zone's word is its highest serial, which must be unique to one document.
ZoneDocument(host) ==
    LET records == IF host \in DOMAIN Zone THEN Zone[host] ELSE {}
        top == {r.doc : r \in {x \in records : \A y \in records : y.serial <= x.serial}}
    IN  IF Cardinality(top) = 1 THEN top ELSE {}

AnchorOf(name, root) ==
    CASE name.kind = "Doc" -> {name.anchor}
      [] name.kind = "Local" -> root
      [] name.kind = "Dns" -> ZoneDocument(name.anchor)

Refused == [status |-> "Refused"]

Graded(files) ==
    [a \in DOMAIN files |->
        [doc |-> files[a].doc,
         grade |-> IF files[a].carriage = "None" THEN "TrustedSubstrate" ELSE "CarriageVerified"]]

\* load_docs: a carriage that does not vouch for its document refuses the whole directory.
LoadDocs(files) ==
    IF \E a \in DOMAIN files : files[a].carriage = "Broken" THEN {} ELSE {Graded(files)}

\* NameWalk::run.
NameWalk(files, raw, root) ==
    LET outcomes == UNION {UNION {{Walk(held, a, name.path) :
                                     a \in AnchorOf(name, root) \cap DOMAIN held}
                                    : held \in LoadDocs(files)} : name \in ParseName(raw)}
    IN  IF outcomes = {} THEN Refused ELSE The(outcomes)

\* HeldDocuments.resolve: a root that is not held is a target like another.
ResolveHeld(files, raw, root) ==
    LET outcomes == UNION {{IF a \in DOMAIN files THEN Walk(Graded(files), a, name.path)
                            ELSE Unsynced(0, a) : a \in AnchorOf(name, root)}
                             : name \in ParseName(raw)}
    IN  IF outcomes = {} THEN Refused ELSE The(outcomes)

Outcome(files, d, raw) ==
    IF d \in Native THEN NameWalk(files, raw, {Own}) ELSE ResolveHeld(files, raw, {Own})

-----------------------------------------------------------------------------
(* What a user types into a browser. *)

\* parse_anchor: with or without the scheme.
ParseAnchor(raw) ==
    IF raw.sigil \in {"", "automerge:"} /\ Len(raw.parts) = 1 THEN ParseDocId(raw.parts[1]) ELSE {}

\* Mutant: the path is taken as it comes.
PathOfUnchecked(parts) == {parts}

\* path_of.
PathOf(parts) == {p \in {parts} : IsPathKey(p)}

Reserved(path) == path[1] = ".well-known"

-----------------------------------------------------------------------------
\* The schema of the decisions, as it was laid out once and synchronized.
Skeleton ==
    LET s1 == Put(Blank, DecisionsKey, Map, 1)
        s2 == Put(s1, Key(1, <<"v">>), Number(SchemaVersion), 2)
        s3 == Put(s2, Key(1, <<"claims">>), List, 3)
        s4 == Put(s3, Key(1, <<"acceptances">>), Map, 4)
    IN  Put(s4, Key(1, <<"resets">>), Map, 5)

Init ==
    /\ docs = [d \in Device |-> [a \in {Own : n \in {d} \cap Native} |-> Replica(Skeleton, "None")]]
    /\ clock = 10 /\ commands = MaxCommands
    /\ part \in Parts
    /\ decided = {}

\* A command about p that turns d's replica of a into one of the outcomes.
Write(p, d, a, outcomes) ==
    /\ part = p /\ commands > 0 /\ a \in DOMAIN docs[d]
    /\ \E doc \in outcomes : docs' = [docs EXCEPT ![d][a].doc = doc]
    /\ clock' = clock + 2 /\ commands' = commands - 1
    /\ UNCHANGED part

OwnDoc(d) == docs[d][Own].doc

Pin(d, path, target) ==
    /\ Write("names", d, Own, PinAt(OwnDoc(d), path, target, clock + 1))
    /\ UNCHANGED decided

Unpin(d, path) ==
    /\ Write("names", d, Own, UnpinAt(OwnDoc(d), path))
    /\ UNCHANGED decided

RenamePetname(d, from, to) ==
    /\ Write("names", d, Own, Rename(OwnDoc(d), from, to, clock + 1))
    /\ UNCHANGED decided

\* HeldDocuments.bind.
Bind(d, anchor, path, target) ==
    /\ \E a \in ParseAnchor(anchor), p \in PathOf(path), t \in ParseAnchor(target) :
          /\ ~Reserved(p) /\ a \in DOMAIN docs[d]
          /\ Write("names", d, a, {Put(docs[d][a].doc, Root(p), Reference(t), clock + 1)})
    /\ UNCHANGED decided

\* External: another application writes to the root map.
ForeignWrite(d, key, value) ==
    /\ Write(part, d, Own, {Put(OwnDoc(d), key, value, clock + 1)})
    /\ UNCHANGED decided

\* External: a decision tool replaces what it sees in a hostname's register, with the host
\* as it was given to it.
WriteAcceptance(d, raw, document, cited) ==
    /\ \E m \in Field(OwnDoc(d), "acceptances", "Map") :
          Write("decisions", d, Own,
                {Put(OwnDoc(d), Key(m, raw), AcceptanceEntry(document, cited), clock + 1)})
    /\ decided' = decided \cup {[raw |-> raw, document |-> document, cited |-> cited,
                                 stamp |-> clock + 1, saw |-> OwnDoc(d).seen]}

\* External: a hash is added to a hostname's reset list, which is made if there is none.
WriteReset(d, raw, hash) ==
    /\ \E m \in Field(OwnDoc(d), "resets", "Map") :
          LET key == Key(m, raw)
              lists == ObjectAt(OwnDoc(d), key, "List")
              ready == IF lists = {} THEN Put(OwnDoc(d), key, List, clock + 1) ELSE OwnDoc(d)
              list == IF lists = {} THEN clock + 1 ELSE CHOOSE l \in lists : TRUE
          IN  Write("decisions", d, Own, {Push(ready, list, Bytes(hash), clock + 2)})
    /\ UNCHANGED decided

\* External: an introduction.
WriteClaim(d, raw, document) ==
    /\ \E l \in Field(OwnDoc(d), "claims", "List") :
          Write("decisions", d, Own, {Push(OwnDoc(d), l, ClaimEntry(raw, document), clock + 1)})
    /\ UNCHANGED decided

StoreCertificate(d, unit) ==
    /\ Write("certificates", d, Own, PutCertificate(OwnDoc(d), unit, clock + 1))
    /\ UNCHANGED decided

\* External: something that is no unit is added to the list.
ForeignEntry(d) ==
    /\ \E l \in ObjectAt(OwnDoc(d), CertificatesKey, "List") :
          Write("certificates", d, Own, {Push(OwnDoc(d), l, Other, clock + 1)})
    /\ UNCHANGED decided

-----------------------------------------------------------------------------
Obtain(d, a, replica) ==
    /\ docs' = [docs EXCEPT ![d] =
                   [b \in DOMAIN docs[d] \cup {a} |-> IF b = a THEN replica ELSE docs[d][b]]]
    /\ UNCHANGED <<clock, commands, part, decided>>

\* External: a device's directory receives a document that is kept elsewhere, with or
\* without its carriage.
Replicate(d, a, carriage) ==
    /\ part = "names" /\ a \notin DOMAIN docs[d]
    /\ Obtain(d, a, Replica(Library[a], carriage))

\* External: the substrate merges another device's replica.
Sync(d, e) ==
    /\ Own \in DOMAIN docs[e]
    /\ Obtain(d, Own, [docs[d][Own] EXCEPT !.doc = MergeDocs(@, docs[e][Own].doc)])

\* HeldDocuments.createDocument.
CreateDocument(d, a) ==
    /\ part = "names" /\ a \in Fresh /\ \A e \in Device : a \notin DOMAIN docs[e]
    /\ Obtain(d, a, Replica(Blank, "None"))

\* HeldDocuments.holdAt: held documents are never clobbered.
HoldAt(d, anchor) ==
    \E a \in ParseAnchor(anchor) :
        part = "names" /\ a \notin DOMAIN docs[d] /\ Obtain(d, a, Replica(Blank, "None"))

\* HeldDocuments.hold: whatever is held there is replaced by the saved bytes.
Hold(d, anchor, e) ==
    \E a \in ParseAnchor(anchor) :
        a \in DOMAIN docs[e] /\ Obtain(d, a, Replica(docs[e][a].doc, "None"))

Next ==
    \/ \E d \in Native :
        \/ \E p \in Path : Unpin(d, p) \/ \E t \in Target : Pin(d, p, t)
        \/ \E p, q \in Path : RenamePetname(d, p, q)
        \/ \E x \in Arriving : Replicate(d, x.doc, x.carriage)
        \/ \E e \in Device \ {d} : Sync(d, e)
    \/ \E d \in Browser :
        \/ \E a, t \in AnchorText, p \in PathText : Bind(d, a, p, t)
        \/ \E a \in Fresh : CreateDocument(d, a)
        \/ \E a \in AnchorText : HoldAt(d, a) \/ \E e \in Device \ {d} : Hold(d, a, e)
    \/ \E d \in Device : Own \in DOMAIN docs[d] /\
        (\/ \E w \in Foreign[part] : ForeignWrite(d, w[1], w[2])
         \/ \E raw \in HostText :
            \/ \E x \in Entry : WriteAcceptance(d, raw, x.document, x.cited)
            \/ \E h \in Hash : WriteReset(d, raw, h)
            \/ \E a \in Claimed : WriteClaim(d, raw, a)
         \/ \E u \in Unit : StoreCertificate(d, u)
         \/ ForeignEntry(d))

Spec == Init /\ [][Next]_vars

-----------------------------------------------------------------------------
\* namestore.rs read: the edges it reports are those that resolution follows, and it passes
\* over no reference in silence: one that a merge left without effect is a conflict.
ReadsAgree ==
    \A d \in Device : \A a \in DOMAIN docs[d] :
        LET doc == docs[d][a].doc
            read == Read(doc)
        IN  /\ \A path \in Props(doc, RootObject) \ read.malformed :
                  Lookup(doc, path) = {e[2] : e \in {x \in read.edges : x[1] = path}}
            /\ \A w \in doc.live :
                  w.key.object = RootObject /\ IsPathKey(w.key.prop) /\ w.value.kind = "Reference"
                  => <<w.key.prop, w.value.target>> \in read.edges \cup read.conflicts

Extends(new, old) ==
    \/ new = old \/ old = Refused
    \/ /\ old.status = "Unsynced"
       /\ \/ new.status = "Resolved"
          \/ new.status = "Dangling" /\ new.consumed >= old.consumed
          \/ new.status = "Unsynced" /\ new.consumed > old.consumed

\* resolve.rs: a device that obtains one more document learns more of a walk that had
\* stopped for want of it, and no walk that ended changes its end; unless the document
\* comes with a carriage that does not vouch for it, which refuses the directory.
MoreReplicasOnlyExtend ==
    [][\A d \in Device :
          docs'[d] # docs[d]
          /\ (\A a \in DOMAIN docs[d] : a \in DOMAIN docs'[d] /\ docs'[d][a] = docs[d][a])
          => \A raw \in NameText :
                \/ Extends(Outcome(docs'[d], d, raw), Outcome(docs[d], d, raw))
                \/ \E a \in DOMAIN docs'[d] \ DOMAIN docs[d] : docs'[d][a].carriage = "Broken"]_vars

\* petname.rs rename: "changes nothing but display" and loses no pin, also when it fails
\* between its transactions; where the new label is not taken by another document.
RenameOnlyRelabels ==
    [][\A d \in {x \in Native : docs'[x] # docs[x]}, from, to \in Path :
          RenamePetname(d, from, to) /\ Lookup(OwnDoc(d), to) \subseteq Lookup(OwnDoc(d), from)
          => Targets(Read(OwnDoc(d)').edges) = Targets(Read(OwnDoc(d)).edges)]_vars

\* Of what a device has seen decided: all that no later decision on the same register knew.
Standing(d) ==
    LET seen == {e \in decided : e.stamp \in OwnDoc(d).seen}
    IN  {e \in seen : \A f \in seen : f.raw = e.raw => e.stamp \notin f.saw}

\* decisions.rs acceptances: concurrent decisions about a hostname are all read, on every
\* device they reach, and nothing is read that no one decided about that hostname.
DecisionsSurvive ==
    \A d \in {x \in Device : Own \in DOMAIN docs[x]} :
        SchemaRoot(OwnDoc(d)) # {} =>
            Acceptances(OwnDoc(d)) =
                {[host |-> e.raw, document |-> e.document, cited |-> e.cited] :
                    e \in {x \in Standing(d) : /\ FromCanonical(x.raw) # {} /\ x.cited # {}
                                               /\ x.document \in Doc /\ x.cited \subseteq Hash}}

AllBytes(doc) ==
    \A l \in ObjectAt(doc, CertificatesKey, "List") :
        \A id \in ElementsOf(doc, l) : Winner(doc, Element(l, id)).value.kind = "Bytes"

\* certificates.rs put: the new bytes are in the list, every other certificate is left alone,
\* and a certificate is replaced and not appended; where the list holds nothing but bytes.
PutKeepsOthers ==
    [][\A d \in {x \in Device : Own \in DOMAIN docs[x]}, unit \in Unit :
          StoreCertificate(d, unit) /\ AllBytes(OwnDoc(d))
          => LET before == Listed(Locate(OwnDoc(d)))
                 after == Listed(Locate(OwnDoc(d)'))
             IN  /\ unit \in ToSet(after)
                 /\ \A u \in ToSet(before) : u \in ToSet(after) \/ SameCertificate(u, unit)
                 /\ Len(after) > Len(before)
                    => \A u \in ToSet(before) : ~SameCertificate(u, unit)]_vars

\* held.rs bind: what a user binds is reached by the name made of the same texts.
BoundIsReachable ==
    [][\A d \in {x \in Browser : commands' # commands /\ docs'[x] # docs[x]},
          anchor, target \in AnchorText, path \in PathText :
          Bind(d, anchor, path, target)
          => LET name == [sigil |-> "automerge:", parts |-> anchor.parts \o path]
             IN  \E t \in ParseAnchor(target) :
                    Outcome(docs'[d], d, name) \in
                        {Resolved(t, "TrustedSubstrate"), Unsynced(Len(path), t)}]_vars
=============================================================================
