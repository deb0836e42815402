----------------------------- MODULE Validator -----------------------------
(***************************************************************************)
(* The chain-validation walk: from the trust anchors down the zone cuts    *)
(* that the links of a chain frame, over aliases, to the TXT leaf. A link  *)
(* is one RRset with its signatures:                                       *)
(*   [owner, rtype, data, expanded, signatures],                           *)
(* a signature [signer, key, window]. Signatures hold by construction when *)
(* the zone's keys include theirs; a child's keys match a delegation when  *)
(* they share one.                                                         *)
(***************************************************************************)
EXTENDS Zones

CONSTANTS Anchors,    \* the root keys that the verifier trusts
          MaxHops,    \* MAX_CNAME_HOPS, of the builder and of the validator
          Horizon     \* no time is later

ASSUME ValidatorAssumption == Anchors \subseteq Keys /\ MaxHops \in Nat /\ Horizon \in Nat

\* A walk either goes on, with verdict "Walking", or has ended.
Ended(v, verdict) == [v EXCEPT !.verdict = verdict]

Later(a, b) == IF a < b THEN b ELSE a
Earlier(a, b) == IF a < b THEN a ELSE b

\* verify_signed_link: the first signature of the current zone that one of
\* its keys verifies narrows the window.
Usable(v, link) ==
    {i \in DOMAIN link.signatures :
        link.signatures[i].signer = v.zone /\ link.signatures[i].key \in v.keys}

Verified(v, link) ==
    IF Usable(v, link) = {} THEN Ended(v, "NoUsableSignature")
    ELSE LET used == link.signatures[CHOOSE i \in Usable(v, link) :
                                        \A j \in Usable(v, link) : i <= j].window
             joint == <<Later(v.window[1], used[1]), Earlier(v.window[2], used[2])>>
         IN  IF joint[2] < joint[1] THEN Ended(v, "EmptyWindow")
             ELSE [v EXCEPT !.window = joint]

Walks(v) == v.verdict = "Walking"

Delegation(v, link) ==
    IF ~IsStrictPrefix(v.zone, link.owner) THEN Ended(v, "NotDescending")
    ELSE [Verified(v, link) EXCEPT !.pending = <<link>>]

Descend(v, link) ==
    LET child == [v EXCEPT !.zone = link.owner, !.keys = link.data, !.pending = <<>>]
    IN  IF link.rtype # "DNSKEY" \/ link.owner # v.pending[1].owner THEN Ended(v, "UnexpectedLink")
        ELSE IF link.data \cap v.pending[1].data = {} THEN Ended(v, "DsMismatch")
        ELSE Verified(child, link)

\* Mutant: re-entry starts the window afresh.
FollowCnameAfresh(v, link) ==
    LET here == [Verified(v, link) EXCEPT !.target = link.data, !.hops = @ + 1]
    IN  IF v.hops >= MaxHops THEN Ended(v, "TooManyCnames")
        ELSE IF link.owner # v.target THEN Ended(v, "WrongOwner")
        ELSE IF IsPrefix(v.zone, link.data) THEN here
        ELSE [here EXCEPT !.zone = Root, !.keys = v.rootKeys, !.window = <<0, Horizon>>]

\* A target outside the current zone can only be reached from the root.
FollowCname(v, link) ==
    LET here == [Verified(v, link) EXCEPT !.target = link.data, !.hops = @ + 1]
    IN  IF v.hops >= MaxHops THEN Ended(v, "TooManyCnames")
        ELSE IF link.owner # v.target THEN Ended(v, "WrongOwner")
        ELSE IF IsPrefix(v.zone, link.data) THEN here
        ELSE [here EXCEPT !.zone = Root, !.keys = v.rootKeys]

\* Mutant: a synthesized leaf binds.
FinishBindingUnchecked(v, link) ==
    LET here == Verified(v, link)
    IN  IF link.owner # v.target THEN Ended(v, "WrongOwner")
        ELSE IF ~Walks(here) THEN here
        ELSE Ended(here, "Proven")

FinishBinding(v, link) ==
    LET here == Verified(v, link)
    IN  IF link.owner # v.target THEN Ended(v, "WrongOwner")
        ELSE IF ~Walks(here) THEN here
        ELSE IF link.expanded THEN Ended(v, "WildcardExpansion")
        ELSE Ended(here, "Proven")

Step(v, link) ==
    IF ~Walks(v) THEN v
    ELSE IF v.pending # <<>> THEN Descend(v, link)
    ELSE CASE link.rtype = "DS"    -> Delegation(v, link)
           [] link.rtype = "CNAME" -> FollowCname(v, link)
           [] link.rtype = "NSEC"  -> v
           [] link.rtype = "TXT"   -> FinishBinding(v, link)
           [] OTHER                -> Ended(v, "UnexpectedLink")

\* The root's keys, one of them an anchor, which sign themselves.
EnterAnchored(owner, link) ==
    LET start == [zone |-> Root, keys |-> link.data, rootKeys |-> link.data,
                  target |-> owner, pending |-> <<>>, hops |-> 0,
                  window |-> <<0, Horizon>>, verdict |-> "Walking"]
    IN  IF link.owner # Root \/ link.data \cap Anchors = {} THEN Ended(start, "Unanchored")
        ELSE Verified(start, link)

Refused(verdict) == [verdict |-> verdict]

\* validate_detailed: what the whole chain proves of an owner.
Validate(owner, chain) ==
    IF chain = <<>> THEN Refused("Empty")
    ELSE IF \E i \in DOMAIN chain : chain[i].signatures = <<>> THEN Refused("Parse")
    ELSE IF Head(chain).rtype # "DNSKEY" THEN Refused("UnexpectedLink")
    ELSE LET end == FoldLeft(Step, EnterAnchored(owner, Head(chain)), Tail(chain))
         IN  IF Walks(end) THEN Ended(end, "MissingLeaf") ELSE end
=============================================================================
