SPECIFICATION FairSpec
CONSTANTS
    SensorOrder <- MCOrder
    Configs <- AllConfigs
    PipePages = 16
    MaxEvents = 1
    MaxCalls = 2
INVARIANTS
    MasksCatchUp
    PolledEverySecond
PROPERTIES
    HotIsPolled
    TerminateStops
