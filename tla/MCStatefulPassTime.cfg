SPECIFICATION Spec
CONSTANTS
    Content <- MCContent
    Skew = 1
    Host = {"a"}
    resolve = resolve
    again = again
    watch = watch
    Proc = {resolve}
    Looping = {}
    Offered <- OneOffer
    Served = {}
    StartTime = 2
    MaxTime = 3
    MaxFailures = 0
PROPERTIES
    EveryChangeSurfaced
