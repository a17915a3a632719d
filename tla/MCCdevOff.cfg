SPECIFICATION Spec
CONSTANTS
    IntBits = 12
    default_max_exponent = 5
    Device <- MCDevice
    Requests <- MCRequests
    BootStates <- MCBootStates
INVARIANTS
    OffRemovesTrip
