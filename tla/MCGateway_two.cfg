\* Two entries: a poll each, a write of the first, and its unload.
SPECIFICATION FairSpec
CONSTANTS
    e1 = e1
    e2 = e2
    p1 = p1
    p2 = p2
    p3 = p3
    w1 = w1
    None = None
    Entry = {e1, e2}
    Poll = {p1, p2}
    Write = {w1}
    EntryOf <- OwnerOf
    Round = {e1}
    Raw = {e1}
    Stored = {e1}
    Unloads = {e1}
    Reads = 1
    Steps = 2
INVARIANTS
    OneConversation
    LockNotLeaked
    QuietWhileResting
PROPERTIES
    FailedSessionDropped
    OnlyAnUnloadCutsOthers
    RestBeforeTheLockIsFree
    OneTalkerAndRest
    EveryTaskEnds
