SPECIFICATION Spec
CONSTANTS
    Anchors = {1, 2}
    MaxHops = 2
    Horizon = 9
    Owner <- MCOwner
    Worlds <- Synthesized
    Upstreams = 1
    MaxLinks = 14
    MaxTrouble = 0
    MaxRolls = 0
CHECK_DEADLOCK FALSE
INVARIANT SynthesizedIsRejected
