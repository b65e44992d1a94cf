\* Blocks that fail, come and go: is every reading recent, and every command kept?
SPECIFICATION FairSpec
CONSTANTS
    Block <- RawBlocks
    Written = "command"
    Field <- CommandFields
    Control = "control"
    Active = 1
    Value = {0, 1}
    Profiles <- Vendors
    Reprobe = 3
    Retry = 3
    Rewrites = 2
    Events = 3
INVARIANTS
    ReadingsAreRecent
PROPERTIES
    AnswersAgain
    KeptAlive
CHECK_DEADLOCK FALSE
