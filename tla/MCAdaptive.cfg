SPECIFICATION FairSpec
CONSTANTS
    IntBits = 20
    default_max_exponent = 3
    AsyncSensors = {}
    consecutive_critical_events = 4
    ignore_critical = FALSE
    def_async_trip_offset = 5000
    def_async_trip_offset_pct = 10
    SensorNames <- MCSensors
    Zones <- MCZones
    Devices <- MCDevices
    Envs <- MCEnvs
    Temps <- MCTemps
    debug_mode = FALSE
    conditions <- MCConditions
    targets <- MCTargets
    psvts <- MCPsvts
    itmts <- MCItmts
    InputDevices = {"Power_source"}
INVARIANTS
    TripsAreTold
    TablesInForce
    LimitInRange
PROPERTIES
    ChangesAreCalledFor
    TargetSettles
    HeldSetIsTaken
