\* Presses, polls and lost answers side by side: what does the inverter hold, and what is shown?
SPECIFICATION WebFairSpec
CONSTANTS
    Callers = {c1, c2}
    Setups = {default, own}
    Default = default
    Unknown = Unknown
    WebEvents = 4
INVARIANTS
    GridChargingNeedsAc
PROPERTIES
    SwitchesCatchUp
CHECK_DEADLOCK FALSE
