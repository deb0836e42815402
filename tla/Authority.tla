----------------------------- MODULE Authority ------------------------------
(***************************************************************************)
(* The authority a unit's carriage proves. A carriage is the sequence of   *)
(* Keyhive events that travels with a certificate or a statement; to judge *)
(* it, KeyhiveAuthority replays it into a fresh Keyhive instance and asks  *)
(* that instance who is a member of what.                                  *)
(*                                                                         *)
(* A document is its root key. An event either introduces a key,           *)
(*   [kind |-> "Prekeys", key]                                             *)
(* or delegates, proof being the delegation it extends (at most one),      *)
(*   [kind |-> "Delegated", subject, issuer, delegate, can, proof]         *)
(***************************************************************************)
EXTENDS Integers, SequencesExt

Prekeys(key) == [kind |-> "Prekeys", key |-> key]

Delegated(subject, issuer, delegate, can, proof) ==
    [kind |-> "Delegated", subject |-> subject, issuer |-> issuer,
     delegate |-> delegate, can |-> can, proof |-> proof]

Delegations(got) == {e \in got : e.kind = "Delegated"}

\* Access, in its order.
Access == <<"Relay", "Read", "Edit", "Admin">>
AtMost(a, b) == \E i, j \in DOMAIN Access : Access[i] = a /\ Access[j] = b /\ i <= j

\* receive_static_event (Keyhive): a delegation is taken when its delegate
\* is known and it stands on the subject itself or on an ingested delegation
\* to its issuer that it does not exceed.
Ingests(e, got) ==
    \/ e.kind = "Prekeys"
    \/ /\ e.kind = "Delegated"
       /\ Prekeys(e.delegate) \in got
       /\ e.proof \subseteq got
       /\ e.proof = {} => e.issuer = e.subject
       /\ \A p \in e.proof :
             p.subject = e.subject /\ p.delegate = e.issuer /\ AtMost(e.can, p.can)

-----------------------------------------------------------------------------
\* replay: rounds over what is left, in order, until nothing is left or a
\* round makes no progress.
Attempt(state, e) ==
    IF Ingests(e, state.got) THEN [state EXCEPT !.got = @ \cup {e}]
                             ELSE [state EXCEPT !.left = Append(@, e)]

Round(state) == FoldLeft(Attempt, [got |-> state.got, left |-> <<>>], state.left)

\* Mutant: deferred events are not retried.
ReplayOnce(carriage) ==
    LET last == Round([got |-> {}, left |-> carriage])
    IN  IF last.left = <<>> THEN {last.got} ELSE {}

\* Each round but the last takes an event, so there are no more rounds than events.
Rounds(carriage) ==
    FoldLeft(LAMBDA state, e : Round(state), [got |-> {}, left |-> carriage], carriage)

\* The instance the carriage amounts to; none if some event never ingests.
Replay(carriage) ==
    LET last == Rounds(carriage)
    IN  IF last.left = <<>> THEN {last.got} ELSE {}

-----------------------------------------------------------------------------
\* sanctioned: signer is a direct member of the root's graph, and the hop
\* that delegates to it is the root's own or was held with Admin access.
Sanctioned(got, root, signer) ==
    \E d \in Delegations(got) :
        /\ d.subject = root
        /\ d.delegate = signer
        /\ d.proof = {} \/ \E p \in d.proof : AtMost("Admin", p.can)

Authorizes(root, signer, carriage) ==
    signer = root \/ \E got \in Replay(carriage) : Sanctioned(got, root, signer)

\* on_path, for every key at once: the members of any graph in the carriage,
\* at any depth, with any access.
Path(carriage) == UNION {{d.delegate : d \in Delegations(got)} : got \in Replay(carriage)}

VouchesDocument(anchor, carriage) ==
    \E got \in Replay(carriage) : \E d \in Delegations(got) : d.subject = anchor

\* mint.rs: introduce a key and delegate to it from the root.
RelayCarriage(root, key) ==
    <<Prekeys(key), Delegated(root, root, key, "Relay", {})>>

-----------------------------------------------------------------------------
\* Reference definition: the events a set of events grounds, whatever their
\* order.
Grounded(E) ==
    {e \in E : \A S \in SUBSET E :
        (\A x \in E : Ingests(x, S) => x \in S) => e \in S}
=============================================================================
