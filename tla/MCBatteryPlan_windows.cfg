\* Windows that move, failures and restarts: is the battery held, and let go?
SPECIFICATION PlanFairSpec
CONSTANTS
    WChaMax = 1
    Day = 3
    Plans <- SomePlans
    Full = 1
    PowerStep = 1
    FactoryRevert = 2
    LongestRevert = 3
    DeviceRevert = 2
    MinRefresh = 1
    UserModes = {"auto"}
    UserPowers = {1}
    Events = 2
INVARIANTS
    SettingsTakeEffect
PROPERTIES
    RateStaysInForce
    NotForcedForEver
CHECK_DEADLOCK FALSE
