\* Three kinds of device, writes that fail: is what was asked for in force?
SPECIFICATION Spec
CONSTANTS
    Devices = {"plain", "edge", "franklin"}
    Values <- SomeValues
    Rating = 1
    ModelSets <- BothModels
    Unsupported = {}
    Waiting = 3
    Events = 4
INVARIANTS
    CommandInForce
    NoOldValueInForce
CHECK_DEADLOCK FALSE
