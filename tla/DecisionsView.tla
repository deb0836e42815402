--------------------------- MODULE DecisionsView ---------------------------
(***************************************************************************)
(* The decision document read into the derivation's input. It is a map at  *)
(* a reserved root key: a version, a list of claims, a register of         *)
(* acceptances for each hostname, and a list of excluded hashes for each   *)
(* hostname. What has not the expected shape contributes nothing.          *)
(***************************************************************************)
EXTENDS Namestore

CONSTANT Hash   \* the strings of 32 bytes in use

SchemaVersion == 0

DecisionsKey == Key(RootObject, <<".well-known", "onomancy", "decisions">>)

\* A claim or an acceptance is a map written whole, in one transaction.
ClaimEntry(host, document) == [kind |-> "Claim", host |-> host, document |-> document]
AcceptanceEntry(document, cited) ==
    [kind |-> "Acceptance", document |-> document, cited |-> cited]

\* schema_root: the reserved map, gated on the schema version.
SchemaRoot(doc) ==
    {m \in ObjectAt(doc, DecisionsKey, "Map") :
        Value(doc, Key(m, <<"v">>)) = {Number(SchemaVersion)}}

\* A field of the schema that holds an object of the expected kind.
Field(doc, name, kind) ==
    UNION {ObjectAt(doc, Key(m, <<name>>), kind) : m \in SchemaRoot(doc)}

ListValues(doc, list) == UNION {Value(doc, Element(list, id)) : id \in ElementsOf(doc, list)}

\* claims.
Claims(doc) ==
    LET entries == {v \in UNION {ListValues(doc, l) : l \in Field(doc, "claims", "List")} :
                      v.kind = "Claim" /\ v.document \in Doc}
    IN  UNION {{[host |-> h, document |-> e.document] : h \in FromCanonical(e.host)}
                 : e \in entries}

\* A single element that is no hash voids the entry.
HashList(doc, key) ==
    {{v.unit : v \in ListValues(doc, l)} :
        l \in {x \in ObjectAt(doc, key, "List") :
                 \A v \in ListValues(doc, x) : v.kind = "Bytes" /\ v.unit \in Hash}}

WellShaped(value) ==
    /\ value.kind = "Acceptance"
    /\ value.cited # {} /\ value.cited \subseteq Hash
    /\ value.document \in Doc

Register(doc, map, values(_)) ==
    UNION {{[host |-> h, document |-> v.document, cited |-> v.cited] :
               v \in {x \in values(Key(map, raw)) : WellShaped(x)}, h \in FromCanonical(raw)}
             : raw \in Props(doc, map)}

\* Mutant: a register has one value.
AcceptancesOne(doc) ==
    UNION {Register(doc, m, LAMBDA key : Value(doc, key)) : m \in Field(doc, "acceptances", "Map")}

\* acceptances: all the conflicting values of a hostname's register.
Acceptances(doc) ==
    UNION {Register(doc, m, LAMBDA key : {w.value : w \in At(doc, key)})
             : m \in Field(doc, "acceptances", "Map")}

\* resets: of conflicting lists, the winner.
Resets(doc) ==
    UNION {UNION {{[host |-> h, excluded |-> X] :
                      h \in FromCanonical(raw), X \in HashList(doc, Key(m, raw)) \ {{}}}
                    : raw \in Props(doc, m)}
             : m \in Field(doc, "resets", "Map")}

\* DecisionsView::decisions.
Decisions(doc) ==
    [acceptances |-> Acceptances(doc), claims |-> Claims(doc), resets |-> Resets(doc)]
=============================================================================
