------------------------------ MODULE Evidence ------------------------------
(***************************************************************************)
(* Stage 1 of derive, stated over a SET of held items: which binding rows  *)
(* and which statements the held items amount to.  Replicas.tla models     *)
(* the loop over the store that computes the same.                         *)
(*                                                                         *)
(* An item is its content hash; Content says what the bytes behind the     *)
(* hash decode to.  Signature checks were settled at decode, so Content    *)
(* carries only what the derivation asks its two seams: whether the        *)
(* DNSSEC chain validates (with its window and TXT records), whether the   *)
(* authority carriage authorizes the signer, and which generation keys     *)
(* lie on the carriage's delegation path.                                  *)
(*                                                                         *)
(*   Record       host doc chain issued authorized path lineage predecessor*)
(*   ChainRefresh host chain                                               *)
(*   Rotation     doc replaced successor authorized                        *)
(*   Successor    host pred succ authorized path                           *)
(*                                                                         *)
(* A chain is [valid, from, end, txt], txt the RRset as a sequence of      *)
(* [doc, gen, serial].  lineage and predecessor are sets of the hashes of  *)
(* the statements a certificate carries.                                   *)
(***************************************************************************)
EXTENDS Ladder, FiniteSets, Sequences

CONSTANTS
    Content,   \* [hash -> item]
    Skew       \* SKEW_MS, the serial deferral bound

Hash == DOMAIN Content

OfKind(kind) == {i \in DOMAIN Content : Content[i].kind = kind}

Chains == [valid : BOOLEAN, from : Nat, end : Nat,
           txt : Seq([doc : Nat, gen : Nat, serial : Nat])]

ASSUME ContentAssumption ==
    /\ Hash \subseteq Nat
    /\ Skew \in Nat
    /\ \A i \in Hash : Content[i].kind \in {"Record", "ChainRefresh", "Rotation", "Successor"}
    /\ \A i \in OfKind("Record") \cup OfKind("ChainRefresh") : Content[i].chain \in Chains
    /\ \A c \in OfKind("Record") :
          /\ Content[c].issued \in Nat
          /\ Content[c].lineage \subseteq OfKind("Rotation")
          /\ Content[c].predecessor \subseteq OfKind("Successor")
          /\ IsFiniteSet(Content[c].lineage \cup Content[c].predecessor)
    /\ \A s \in OfKind("Rotation") : Content[s].replaced \in Nat /\ Content[s].successor \in Nat

-----------------------------------------------------------------------------
\* The zone's word for a document: among the RRset's records for it, the one
\* with the greatest serial (the last of several equal ones, as max_by_key
\* has it). Empty when the RRset does not name the document.
Word(txt, doc) ==
    {txt[n] : n \in {m \in DOMAIN txt :
        /\ txt[m].doc = doc
        /\ \A k \in DOMAIN txt : txt[k].doc = doc =>
              \/ txt[k].serial < txt[m].serial
              \/ txt[k].serial = txt[m].serial /\ k <= m}}

Row(att, hash, host, chain, word, issued, onPath) ==
    [att    |-> att,        doc    |-> word.doc,    gen    |-> word.gen,
     hash   |-> hash,       host   |-> host,        end    |-> chain.end,
     serial |-> word.serial, issued |-> issued,     from   |-> chain.from,
     onPath |-> onPath]

\* validate_record: chain proof, then signer authority, then the TXT
\* cross-check against the certificate's own document.
Validates(c) ==
    /\ Content[c].chain.valid
    /\ Content[c].authorized
    /\ Word(Content[c].chain.txt, Content[c].doc) # {}

ValidRecords(H) == {c \in H : Content[c].kind = "Record" /\ Validates(c)}

CertificateRow(c, word) ==
    Row("Certificate", c, Content[c].host, Content[c].chain, word,
        Content[c].issued, word.gen \in Content[c].path)

CertificateRows(H) ==
    UNION {{CertificateRow(c, word) :
               word \in Word(Content[c].chain.txt, Content[c].doc)} :
           c \in ValidRecords(H)}

\* A bare refresh brings no carriage: its generation is on path only if the
\* carriage of some validated certificate of the same binding has it.
Vouched(H, host, word) ==
    \E c \in ValidRecords(H) :
        /\ Content[c].host = host
        /\ Content[c].doc = word.doc
        /\ word.gen \in Content[c].path

RefreshRows(H) ==
    UNION {{Row("ChainOnly", f, Content[f].host, Content[f].chain, word, 0,
                Vouched(H, Content[f].host, word)) :
              word \in UNION {Word(Content[f].chain.txt, t.doc) :
                  t \in {Content[f].chain.txt[n] : n \in DOMAIN Content[f].chain.txt}}} :
           f \in {i \in H : Content[i].kind = "ChainRefresh" /\ Content[i].chain.valid}}

Rows(H) == CertificateRows(H) \cup RefreshRows(H)

-----------------------------------------------------------------------------
\* A statement counts standalone or carried by a held certificate, whatever
\* became of that certificate's own chain.
Carries(c, s) == s \in Content[c].lineage \cup Content[c].predecessor

Carriers(H, s) == {c \in H : Content[c].kind = "Record" /\ Carries(c, s)}

Statements(H, kind) ==
    {s \in OfKind(kind) :
        Content[s].authorized /\ (s \in H \/ Carriers(H, s) # {})}

\* Mutant: an excluded carrier leaves its statements behind.
ExcludedByNameOnly(H, s, X) == s \in X

\* Provenance::excluded: named itself, or only ever carried by excluded
\* certificates.
Excluded(H, s, X) == s \in X \/ (s \notin H /\ Carriers(H, s) \subseteq X)

Unexcluded(H, kind, X) == {s \in Statements(H, kind) : ~Excluded(H, s, X)}

\* validate_and_extract: what stages 2 to 8 read of the store.
Extract(H) == [held |-> H, rows |-> Rows(H)]

\* is_deferred: a serial from the far future, or a window not yet begun.
Deferred(row, now) ==
    row.serial > now + Skew \/ Grade(row, now) = "NotYetBegun"
=============================================================================
