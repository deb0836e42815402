---------------------------- MODULE MCPublishing ----------------------------
(***************************************************************************)
(* Two documents, 1 and 2, and the generations 3 and 4.                    *)
(***************************************************************************)
EXTENDS PublishingSafety

\* Document 1 delegates to 5 with Admin access, and 5 to 6; the same events
\* with the last one first; and 5's grant without the one it stands on.
Admin == Delegated(1, 1, 5, "Admin", {})
Onward == Delegated(1, 5, 6, "Read", {Admin})

MCForeign == {
    [doc |-> 1, signer |-> 6,
     carriage |-> <<Onward, Prekeys(6), Admin, Prekeys(5)>>],
    [doc |-> 1, signer |-> 6, carriage |-> <<Prekeys(6), Onward>>]}
MCBound == [doc |-> 1, gen |-> 4, before |-> 3]
MCBindings == {[doc |-> 1, gen |-> 4], [doc |-> 2, gen |-> 4]}
MCRotations == {[doc |-> 1, replaced |-> 4, next |-> 3], [doc |-> 1, replaced |-> 4, next |-> 7],
                [doc |-> 1, replaced |-> 3, next |-> 7]}
MCMigrations == {[pred |-> 1, succ |-> 2, gen |-> 4], [pred |-> 2, succ |-> 1, gen |-> 3]}
MCDrift == {-1, 0}
MCMaxUnits ==
    ({"bind", "refresh"} :> 4) @@ ({"rotate", "refresh"} :> 5) @@ ({"migrate", "refresh"} :> 5) @@
    ({"certify", "refresh"} :> 5) @@ ({"record"} :> 3) @@ ({"bind", "migrate"} :> 5)
MCCourses == DOMAIN MCMaxUnits
=============================================================================
