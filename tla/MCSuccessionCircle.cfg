SPECIFICATION Spec
CONSTANTS
    Content <- CircleContent
    Skew = 1
    Host = {"a"}
    Doc = {1, 2, 3}
    Acceptance <- MCAcceptance
    Decided = {"a"}
    Introduced = {}
    Claimed = {}
    Resettable = {}
    Ingestible = {1, 2, 3, 5}
    StartTime = 2
    MaxTime = 2
PROPERTIES
    ChallengerNeverBlanks
