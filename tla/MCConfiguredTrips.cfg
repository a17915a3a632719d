SPECIFICATION Spec
CONSTANTS
    Slots = 3
    HeaderSize = 4
    PchNames <- MCPchNames
    SysPaths <- MCSysPaths
    Dotted <- MCDotted
    Machines <- MCExampleMachines
    SensorCalls <- MCSensorCalls
    VirtualCalls <- MCVirtualCalls
    ZoneCalls <- MCZoneCalls
    ZoneNames <- MCZoneNames
    CdevCalls <- MCCdevCalls
    MaxCalls = 0
    MaxCrashes = 0
INVARIANT
    ConfiguredTripsExist
CHECK_DEADLOCK FALSE
