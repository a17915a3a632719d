SPECIFICATION Spec
CONSTANTS
    Platforms <- MCPlatforms
    SaneMax = 6
    DefWindow = 1
    Range = 10
    MaxPower = 2
    MaxGap = 2
    Targets <- MCTargets
    MaxWraps = 2
    MaxTargets = 2
INVARIANTS
    EnergyAccounted
    PowerIsPlausible
    FoundIsRestored
    MaximumHolds
