SPECIFICATION Spec
CONSTANTS
    DeriveHost <- Derived
    TopWord <- SaidOf
    Bound <- MCBound
    Bindings <- MCBindings
    Rotations <- MCRotations
    Migrations <- MCMigrations
    Foreign <- MCForeign
    Drift <- MCDrift
    Explicit = {4}
    Courses <- MCCourses
    Life = 1
    Skew = 0
    MaxSerial = 4
    MaxTime = 2
    MaxCeremonies = 2
    MaxUnits <- MCMaxUnits
CHECK_DEADLOCK FALSE
INVARIANTS
    PlansDeliver
    DisputesHaveACause
    OneShotAgrees
    AuthorityIsProven
PROPERTIES
    SerialsRise
