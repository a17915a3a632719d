SPECIFICATION CSpec
CONSTANTS
    IntBits = 12
    default_max_exponent = 3
    Devices <- MCDevices
    AsyncSensors = {1}
    consecutive_critical_events = 2
    ignore_critical = FALSE
    def_async_trip_offset = 2
    def_async_trip_offset_pct = 10
    Zones <- MCZonesConf
    Temps <- MCTemps
    NewTemps = {}
    BootTemp = 3
    BootPref = "ENERGY_CONSERVE"
    MaxChanges = 1
PROPERTIES
    ShutdownIsEarned
    CriticalShutsDown
