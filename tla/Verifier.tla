------------------------------ MODULE Verifier ------------------------------
(***************************************************************************)
(* One device: a grow-only store, a clock, the user's decision document,   *)
(* and the state derived from them.  Every action that changes an input    *)
(* derives the bindings again, as every caller of VerifierState::compute   *)
(* does.                                                                   *)
(*                                                                         *)
(* The decision document is a replicated document outside the verifier:    *)
(* the derivation only reads it, and a peer device may have edited it      *)
(* concurrently.  Its edits are the actions marked external.               *)
(***************************************************************************)
EXTENDS Derivation, Surfacing

CONSTANTS
    Host,       \* hostnames
    Doc,        \* documents
    Acceptance, \* [doc, cited]: the acceptances the user may write
    Decided,    \* hostnames with acceptances and resets
    Introduced, \* hostnames with claims
    Claimed,    \* documents that may be claimed or pinned
    Resettable, \* sets of hashes a reset entry may exclude
    Ingestible, \* the items that may reach this device
    StartTime, MaxTime

ASSUME VerifierAssumption ==
    /\ Ingestible \subseteq Hash /\ Decided \cup Introduced \subseteq Host
    /\ Doc \subseteq Nat /\ Claimed \subseteq Doc
    /\ \A r \in Rows(Hash) : r.doc \in Doc
    /\ \A a \in Acceptance : a.doc \in Doc /\ a.cited \in SUBSET Hash
    /\ Resettable \subseteq SUBSET Hash
    /\ StartTime \in Nat /\ MaxTime \in Nat

VARIABLES
    held,       \* the store's items
    now,        \* the clock reading
    decisions,  \* the decision document
    targets,    \* the documents the user's petnames point at
    bindings    \* [host -> derived state]

vars == <<held, now, decisions, targets, bindings>>

\* pins: a claim links a hostname to a document, a petname pins the document.
Pins(h, dec, edges) == dec.claims[h] \cap edges

\* VerifierState::compute. A hostname that no input mentions derives the empty
\* state.
Compute(H, time, dec, edges) ==
    LET ev == Extract(H)
    IN  [h \in Host |-> Derive(h, ev, time, dec, Pins(h, dec, edges))]

Recompute ==
    bindings' = Compute(held', now', decisions', targets')

NoDecisions ==
    [acceptances |-> [h \in Host |-> {}],
     claims      |-> [h \in Host |-> {}],
     resets      |-> [h \in Host |-> {}]]

Init ==
    /\ held = {} /\ now = StartTime
    /\ decisions = NoDecisions /\ targets = {}
    /\ bindings = Compute({}, StartTime, NoDecisions, {})

\* Store::insert.
Ingest(i) ==
    /\ i \notin held
    /\ held' = held \cup {i}
    /\ UNCHANGED <<now, decisions, targets>>
    /\ Recompute

\* A later clock reading.
Tick ==
    /\ now < MaxTime
    /\ now' = now + 1
    /\ UNCHANGED <<held, decisions, targets>>
    /\ Recompute

\* External: the user accepts, replacing the entry this device saw.
Accept(h, a) ==
    /\ decisions.acceptances[h] # {a}
    /\ decisions' = [decisions EXCEPT !.acceptances[h] = {a}]
    /\ UNCHANGED <<held, now, targets>>
    /\ Recompute

\* External: another device's acceptance, written concurrently, is merged in.
MergeAcceptance(h, a) ==
    /\ decisions.acceptances[h] # {}
    /\ a \notin decisions.acceptances[h]
    /\ decisions' = [decisions EXCEPT !.acceptances[h] = @ \cup {a}]
    /\ UNCHANGED <<held, now, targets>>
    /\ Recompute

\* External: a reset entry is written, or edited away again.
Reset(h, X) ==
    /\ decisions.resets[h] # X
    /\ decisions' = [decisions EXCEPT !.resets[h] = X]
    /\ UNCHANGED <<held, now, targets>>
    /\ Recompute

\* External: an introduction claims a name. Claims are never deleted.
Claim(h, d) ==
    /\ d \notin decisions.claims[h]
    /\ decisions' = [decisions EXCEPT !.claims[h] = @ \cup {d}]
    /\ UNCHANGED <<held, now, targets>>
    /\ Recompute

\* PetnameStore::pin and unpin, by the document an edge targets.
Pin(d) ==
    /\ d \notin targets
    /\ targets' = targets \cup {d}
    /\ UNCHANGED <<held, now, decisions>>
    /\ Recompute

Unpin(d) ==
    /\ d \in targets
    /\ targets' = targets \ {d}
    /\ UNCHANGED <<held, now, decisions>>
    /\ Recompute

Next ==
    \/ \E i \in Ingestible : Ingest(i)
    \/ Tick
    \/ \E h \in Decided, a \in Acceptance : Accept(h, a) \/ MergeAcceptance(h, a)
    \/ \E h \in Decided, X \in Resettable : Reset(h, X)
    \/ \E h \in Introduced, d \in Claimed : Claim(h, d)
    \/ \E d \in Claimed : Pin(d) \/ Unpin(d)

Spec == Init /\ [][Next]_vars
=============================================================================
