SPECIFICATION FairSpec
CONSTANTS
    IntBits = 12
    default_max_exponent = 3
    Devices <- MCDevices
    AsyncSensors = {1}
    consecutive_critical_events = 1
    ignore_critical = FALSE
    def_async_trip_offset = 2
    def_async_trip_offset_pct = 10
    Zones <- MCZonesConf
    Temps <- MCTemps
    NewTemps = {7}
    BootTemp = 4
    BootPref = "ENERGY_CONSERVE"
    MaxChanges = 2
INVARIANTS
    SequentialOrder
    ThrottledIsPolled
PROPERTIES
    HotZoneIsCooled
    CoolIsReleased
