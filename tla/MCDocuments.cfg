SPECIFICATION Spec
CONSTANTS
    Lower <- MCLower
    ALabels <- MCALabels
    Ascii = {"", "ex", "org", "7", "Ex"}
    WellFormed = {"ex", "org", "7"}
    Digits = {"7"}
    MaxLabels = 3
    Doc = {1, 2, 3, 4}
    Hashed = {"x#y"}
    Control = {}
    Dotted <- MCDotted
    Payload <- MCPayload
    Hash = {1}
    SignedRegion <- MCSignedRegion
    Native = {"laptop"}
    Browser = {"tab"}
    Own = 1
    Library <- MCLibrary
    Fresh = {4}
    Zone <- MCZone
    Path <- MCPath
    Target = {2}
    PathText <- MCPathText
    AnchorText <- MCAnchorText
    NameText <- MCNameText
    Foreign <- MCForeign
    Arriving <- MCArriving
    HostText <- MCHostText
    Entry <- MCEntry
    Claimed = {2}
    Unit = {1, 2, 3}
    MaxCommands = 3
INVARIANTS
    ReadsAgree
    DecisionsSurvive
PROPERTIES
    MoreReplicasOnlyExtend
    RenameOnlyRelabels
    PutKeepsOthers
    BoundIsReachable
