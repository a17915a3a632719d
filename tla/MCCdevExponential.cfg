SPECIFICATION FairSpec
CONSTANTS
    IntBits = 12
    default_max_exponent = 5
    Device <- MCDevice
    Requests <- MCRequests
    BootStates <- MCBootStates
INVARIANTS
    TypeOK
    IdleIsDeactivated
    StateInRange
PROPERTIES
    ActivationNeverWeakens
    ReleasedWhenCool
    HotReachesMax
