\* Is a timeout in the rebuild the end of the connect?
SPECIFICATION Spec
CONSTANTS
    Generations = 3
    ChainOf <- Reorders
    IdOf <- ReorderIds
    Faults = 2
    None = None
INVARIANTS
    NoScanAfterSilence
