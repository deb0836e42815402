SPECIFICATION Spec
CONSTANTS
    Content <- MCContent
    Skew = 1
    Host = {"a", "b"}
    Doc = {1, 2, 3}
    Acceptance <- MCAcceptance
    Decided = {"a"}
    Introduced = {}
    Claimed = {}
    Resettable <- MCResettable
    Ingestible = {1, 2, 3, 4, 5, 6, 7, 8}
    StartTime = 2
    MaxTime = 4
INVARIANTS
    TypeOK
    AcceptedIsAttested
    FreshWins
    DisplacedOnlyByFresh
    ContestNeedsDispute
    ResetLeavesNoTrace
PROPERTIES
    HostsAreIsolated
    PendingNeverDisplaces
