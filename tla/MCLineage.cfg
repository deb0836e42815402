SPECIFICATION Spec
CONSTANTS
    Content <- MCContent
    Skew = 1
    Host = {"a", "b"}
    Doc = {1, 2}
    Acceptance = {}
    Decided = {"b"}
    Introduced = {"a"}
    Claimed = {2}
    Resettable <- MCResettable
    Ingestible = {1, 2, 3, 4, 5, 7, 8, 9}
    StartTime = 2
    MaxTime = 3
INVARIANTS
    RetiredOnlyInDispute
    MergeRepairs
PROPERTIES
    IntroductionsOnlyBadge
