SPECIFICATION PrunedSpec
CONSTANTS
    Content <- RipeningContent
    Skew = 1
    Horizon = 4
    Host = {"a"}
    Doc = {1, 2}
    Acceptance <- MCAcceptance
    Decided = {"a"}
    Introduced = {}
    Claimed = {}
    Resettable <- MCResettable
    Ingestible = {1, 2, 3, 4, 5, 6, 8, 9}
    StartTime = 2
    MaxTime = 3
INVARIANTS
    PruneExact
PROPERTIES
    PruneKeepsWitness
    ReceiptsSurvive
