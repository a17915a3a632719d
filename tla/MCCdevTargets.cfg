SPECIFICATION FairSpec
CONSTANTS
    IntBits = 12
    default_max_exponent = 5
    Device <- MCDevice
    Requests <- MCRequests
    BootStates <- MCBootStates
INVARIANTS
    HoldsAreRequests
    OneHoldPerTrip
    MostRestrictiveLast
PROPERTIES
    DeviceIsShared
    ReleasedWithLastHold
    HotTripServed
    HoldsGivenUp
