SPECIFICATION FairSpec
CONSTANTS
    Instances = {1}
    Options <- MCOptions
    KZones = 2
    Int3400 = 2
    Policies = {"user_space", "step_wise", "fair_share"}
    Boot <- MCBoot
    Unreadable = {{}, {1}}
    MaxCalls = 2
INVARIANT
    PreferenceInForce
PROPERTIES
    PoliciesRestored
    TerminationCompletes
