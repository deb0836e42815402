----------------------------- MODULE Surfacing ------------------------------
(***************************************************************************)
(* Events are diffs: what a caller surfaces when one hostname's derived    *)
(* state went from before to after, and which of it may interrupt the user.*)
(* An event is <<kind>>, or <<kind, what the event names>>.                *)
(***************************************************************************)
EXTENDS Integers, Sequences

When(condition, kind) == {e \in {<<kind>>} : condition}

\* new_items: one event per element that appeared.
Appeared(kind, before, after) == {<<kind, x>> : x \in after \ before}

\* The accepted documents: at most one.
Bound(state) == {b.doc : b \in state.accepted}

SameBinding(before, after) ==
    Bound(before) # {} /\ Bound(before) = Bound(after)

\* host_diff.
HostDiff(before, after) ==
    UNION {
        When(Bound(before) # Bound(after), "BindingChanged"),
        When(SameBinding(before, after)
                /\ \E old \in before.serial, new \in after.serial : new < old,
             "SerialRegression"),
        When(SameBinding(before, after)
                /\ \E p \in before.accepted, q \in after.accepted : p.grade # q.grade,
             "GradeChanged"),
        Appeared("LineageForkSurfaced", before.forks, after.forks),
        Appeared("SuccessionForkSurfaced", before.successionForks, after.successionForks),
        When(~before.contested /\ after.contested, "ContestedEntered"),
        When(before.contested /\ ~after.contested, "ContestedCleared"),
        Appeared("PendingSurfaced", before.pending, after.pending),
        Appeared("PendingCleared", after.pending, before.pending),
        Appeared("LosingAcceptanceSurfaced", before.losing, after.losing),
        Appeared("LosingAcceptanceCleared", after.losing, before.losing),
        Appeared("DivergenceSurfaced", before.divergence, after.divergence),
        Appeared("DivergenceCleared", after.divergence, before.divergence)}

\* EventKind::may_prompt: the event class, as against the badge class.
MayPrompt(event) ==
    event[1] \in {"BindingChanged", "LineageForkSurfaced",
                    "SerialRegression", "SuccessionForkSurfaced"}
=============================================================================
