SPECIFICATION Spec
CONSTANTS
    Slots = 3
    HeaderSize = 4
    PchNames <- MCPchNames
    SysPaths <- MCSysPaths
    Dotted <- MCDotted
    Machines <- MCMachines
    SensorCalls <- MCSensorCalls
    VirtualCalls <- MCVirtualCalls
    ZoneCalls <- MCZoneCalls
    ZoneNames <- MCZoneNames
    CdevCalls <- MCCdevCalls
    MaxCalls = 3
    MaxCrashes = 2
INVARIANTS
    DecodedAsWritten
    RelationsBound
    IdsIdentify
CHECK_DEADLOCK FALSE
