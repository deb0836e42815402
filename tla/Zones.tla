------------------------------- MODULE Zones -------------------------------
(***************************************************************************)
(* The DNS as the chain courier sees it: what a recursive resolver with    *)
(* checking disabled answers about a tree of zones that sign, delegate,    *)
(* roll their keys and alias names.                                        *)
(*                                                                         *)
(* A name is the sequence of its labels, the root's end first, so that an  *)
(* ancestor is a prefix. A world w has                                     *)
(*   cut    [zone -> [ds, signed : BOOLEAN]], the root's among them;       *)
(*   alias  [owner -> target], the CNAMEs;                                 *)
(*   txt    the owners of an _onomancy TXT RRset;                          *)
(*   wild   the owners that a wildcard stands in for;                      *)
(*   window [zone -> [key -> <<inception, expiration>>]];                  *)
(*   stage  [zone -> where it is in a key roll], to begin with.            *)
(* A zone signs with key 1, then with both of its keys, then with key 2.   *)
(***************************************************************************)
EXTENDS Integers, FiniteSets, Sequences, SequencesExt

Root == <<>>

Stages == {"Old", "Rolling", "New"}
Keys == {1, 2}

\* trim_to: the suffix of a name that has the given number of labels.
TrimTo(n, depth) == SubSeq(n, 1, depth)

KeysAt(stage) ==
    CASE stage = "Old" -> <<1>>
      [] stage = "Rolling" -> <<1, 2>>
      [] stage = "New" -> <<2>>

\* The zone that a name's records are in: the deepest cut above or at it.
ZoneOf(w, n) ==
    CHOOSE z \in DOMAIN w.cut :
        /\ IsPrefix(z, n)
        /\ \A y \in DOMAIN w.cut : IsPrefix(y, n) => Len(y) <= Len(z)

\* A delegation is signed by the parent of the cut it is at.
SigningZone(w, n, rtype) == IF rtype = "DS" THEN ZoneOf(w, Front(n)) ELSE ZoneOf(w, n)

Signatures(w, stage, z) ==
    IF w.cut[z].signed
    THEN [i \in 1..Len(KeysAt(stage[z])) |->
             [signer |-> z, key |-> KeysAt(stage[z])[i],
              window |-> w.window[z][KeysAt(stage[z])[i]]]]
    ELSE <<>>

Signing(w) == {z \in DOMAIN w.cut : w.cut[z].signed}
Delegated(w) == {z \in DOMAIN w.cut \ {Root} : w.cut[z].ds}

\* What an RRset says, if it exists: a set of no or one value.
Data(w, stage, n, rtype) ==
    CASE rtype = "DNSKEY" -> {ToSet(KeysAt(stage[z])) : z \in {n} \cap Signing(w)}
      [] rtype = "DS"     -> {ToSet(KeysAt(stage[z])) : z \in {n} \cap Delegated(w)}
      [] rtype = "CNAME"  -> {w.alias[o] : o \in {n} \cap DOMAIN w.alias}
      [] rtype = "TXT"    -> {n} \cap w.txt

Rrsets(w, stage, n, rtype) ==
    {[owner |-> n, rtype |-> rtype, data |-> d, expanded |-> n \in w.wild,
      signatures |-> Signatures(w, stage, SigningZone(w, n, rtype))]
        : d \in Data(w, stage, n, rtype)}

\* The names that an alias path visits in a number of hops.
Visited(w, n, hops) ==
    LET at[i \in 0..hops] ==
            IF i = 0 THEN n
            ELSE IF at[i - 1] \in DOMAIN w.alias THEN w.alias[at[i - 1]] ELSE at[i - 1]
    IN  at

\* The whole answer to a question. The answer to the leaf's holds the aliases
\* that the resolver followed, and what they lead to.
Answer(w, stage, question, hops) ==
    IF question.rtype = "TXT"
    THEN UNION {Rrsets(w, stage, n, "CNAME") \cup Rrsets(w, stage, n, "TXT")
                   : n \in Range(Visited(w, question.name, hops))}
    ELSE Rrsets(w, stage, question.name, question.rtype)

\* What else a resolver may answer: one RRset less, or no signatures.
Degraded(answer) ==
    {answer \ {r} : r \in answer} \cup {{[r EXCEPT !.signatures = <<>>] : r \in answer}}
=============================================================================
