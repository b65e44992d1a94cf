\* Does a new value switch a limit on again that the user has switched off?
SPECIFICATION Spec
CONSTANTS
    Devices = {"plain", "edge", "franklin"}
    Values <- SomeValues
    Rating = 1
    ModelSets <- BothModels
    Unsupported = {}
    Waiting = 3
    Events = 4
INVARIANTS
    SwitchedOffStaysOff
CHECK_DEADLOCK FALSE
