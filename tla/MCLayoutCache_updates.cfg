\* Updates that move the tail, and a replacement.
SPECIFICATION FairSpec
CONSTANTS
    Generations = 4
    ChainOf <- Updates
    IdOf <- UpdateIds
    Faults = 5
    None = None
INVARIANTS
    ReadsAtRightOffsets
    CompleteUnlessKnownPartial
    CurrentIdentityCurrentLayout
PROPERTIES
    NoModelLostWhileThere
    EventuallyServesTheDevice
