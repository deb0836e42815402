SPECIFICATION FairSpec
CONSTANTS
    Content <- MCContent
    Skew = 1
    Host = {"a"}
    resolve = resolve
    again = again
    watch = watch
    Proc = {resolve, again, watch}
    Looping = {watch}
    Offered <- MCOffered
    Served = {}
    StartTime = 2
    MaxTime = 3
    MaxFailures = 1
INVARIANT
    NothingForgotten
PROPERTIES
    NeverSkipsEvidence
    EvidenceSpreads
    LoopNeverStops
