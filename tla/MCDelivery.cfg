SPECIFICATION MCSpec
CONSTANTS
    Anchors = {1, 2}
    MaxHops = 2
    Horizon = 9
    Owner <- MCOwner
    Worlds <- MCWorlds
    Upstreams = 2
    MaxLinks = 14
    MaxTrouble = 2
    MaxRolls = 1
    Content <- MCContent
    Skew = 1
    Replica = {r1, r2}
    Item = {1, 2, 3, 4}
    Hostnames <- MCHostnames
    Made <- MCMade
    MaxUnit = 36
    Intended <- MCIntended
    Tails <- MCTails
    Noise = {0, 7}
    MaxEdits = 1
    MaxHeld = 2
    UnitKeys <- MCUnitKeys
    KeyOf <- MCKeyOf
    MaxSerial = 12
    Bodies <- MCBodies
    Strays <- MCStrays
    Drift = {0, 2}
    FirstTime = 9
    LastTime = 10
    MaxStrings = 3
    MaxStrays = 1
    Uppercase <- MCUppercase
    Zone <- MCZone
    ZoneKeys <- MCZoneKeys
    Published <- MCPublished
    Commitments <- MCCommitments
    StandsFor <- MCStandsFor
    Changed <- MCChanged
    Times <- MCTimes
    MaxTouches = 2
    Stories = {"chain", "link", "records", "unit", "stores"}
CHECK_DEADLOCK FALSE
INVARIANTS
    NoFalseBinding
    PublishedBindingArrives
    WindowIsJoint
    FramedHasShape
    VerifiesWhatWasSigned
    PreviewAgrees
    OneSpelling
    OnlyTailsChange
    OrderUnobservable
PROPERTIES
    EveryAnswerCounts
    PoolSpec
