SPECIFICATION PrunedSpec
CONSTANTS
    Content <- RipeningContent
    Skew = 1
    Horizon = 4
    Host = {"a"}
    Doc = {1, 2}
    Acceptance = {}
    Decided = {}
    Introduced = {}
    Claimed = {}
    Resettable = {}
    Ingestible = {1, 3, 4, 5, 6, 8}
    StartTime = 2
    MaxTime = 3
INVARIANTS
    PruneUnobservable
