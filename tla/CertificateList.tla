-------------------------- MODULE CertificateList --------------------------
(***************************************************************************)
(* The certificates a document holds at the reserved key: a list, or a     *)
(* reference to the document that holds the list.                          *)
(***************************************************************************)
EXTENDS Namestore

CONSTANT SignedRegion   \* [unit -> its signed region], of the units that decode

CertificatesKey == Root(<<".well-known", "onomancy", "certificates">>)

Located(kind, what) == [kind |-> kind, what |-> what]

\* The byte entries in list order, others skipped.
ByteEntries(doc, list) ==
    LET value(id) == Winner(doc, Element(list, id)).value
        bytes == InOrder({id \in ElementsOf(doc, list) : value(id).kind = "Bytes"})
    IN  [n \in DOMAIN bytes |-> value(bytes[n]).unit]

\* locate.
Locate(doc) ==
    IF At(doc, CertificatesKey) = {} THEN Located("Absent", <<>>)
    ELSE LET w == Winner(doc, CertificatesKey)
         IN  CASE w.value.kind = "Reference" -> Located("Elsewhere", w.value.target)
               [] w.value.kind = "List" -> Located("Inline", ByteEntries(doc, w.stamp))
               [] OTHER -> Located("NotAListOrReference", <<>>)

Listed(location) == IF location.kind = "Inline" THEN location.what ELSE <<>>

\* certificates: at most one reference is followed; nothing held is nothing found.
Certificates(held, anchor) ==
    IF anchor \notin DOMAIN held THEN Located("Inline", <<>>)
    ELSE LET here == Locate(held[anchor])
         IN  IF here.kind # "Elsewhere" THEN here
             ELSE IF here.what \notin DOMAIN held THEN Located("Inline", <<>>)
             ELSE LET there == Locate(held[here.what])
                  IN  IF there.kind = "Elsewhere" THEN Located("SecondHop", here.what) ELSE there

SameCertificate(unit, other) ==
    unit \in DOMAIN SignedRegion /\ other \in DOMAIN SignedRegion
    /\ SignedRegion[unit] = SignedRegion[other]

\* Mutant: the same certificate is recognized by its bytes.
ReplacedByBytes(entries, unit) == {n \in DOMAIN entries : entries[n] = unit}

\* The entries put may replace.
Replaced(entries, unit) == {n \in DOMAIN entries : SameCertificate(entries[n], unit)}

\* put: the position is one among the byte entries, and is used as one in the list.
PutCertificate(doc, unit, stamp) ==
    LET here == Locate(doc)
        entries == Listed(here)
        lists == ObjectAt(doc, CertificatesKey, "List")
        list == IF lists = {} THEN stamp ELSE CHOOSE l \in lists : TRUE
        ready == IF lists = {} THEN Put(doc, CertificatesKey, List, stamp) ELSE doc
        replaced == Replaced(entries, unit)
        id == IF replaced = {} THEN stamp + 1 ELSE Items(doc, list)[Min(replaced)]
    IN  IF here.kind \notin {"Absent", "Inline"} THEN {}
        ELSE {Put(ready, Element(list, id), Bytes(unit), stamp + 1)}
=============================================================================
