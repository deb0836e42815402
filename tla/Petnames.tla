------------------------------ MODULE Petnames ------------------------------
(***************************************************************************)
(* Petnames: edges in the user's own namestore. A write takes the document *)
(* and the next free stamp and returns the set of its outcomes, which is   *)
(* empty where it is refused. Each outcome is what is left by a command    *)
(* that may fail between its transactions.                                 *)
(***************************************************************************)
EXTENDS Namestore

\* PetnameStore::pin.
PinAt(doc, path, target, stamp) ==
    IF path = <<>> THEN {} ELSE {Put(doc, Root(path), Reference(target), stamp)}

\* PetnameStore::unpin.
UnpinAt(doc, path) == {Delete(doc, Root(path)) : t \in Lookup(doc, path)}

\* Mutant: the old label is removed first.
RenameUnpinFirst(doc, from, to, stamp) ==
    UNION {LET gone == Delete(doc, Root(from))
           IN  {gone} \cup PinAt(gone, to, t, stamp) : t \in Lookup(doc, from)}

\* PetnameStore::rename: two transactions, pin and unpin.
Rename(doc, from, to, stamp) ==
    IF from = to THEN {doc : t \in Lookup(doc, from)}
    ELSE UNION {LET pinned == PinAt(doc, to, t, stamp)
                IN  pinned \cup UNION {UnpinAt(d, from) : d \in pinned}
                  : t \in Lookup(doc, from)}

\* pins: the claims whose document some edge targets. A claim is [host, document].
PinnedClaims(doc, claims) == {c \in claims : c.document \in Targets(Read(doc).edges)}
=============================================================================
