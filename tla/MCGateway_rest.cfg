\* One entry that reads a raw block: is the gateway left alone?
SPECIFICATION Spec
CONSTANTS
    e1 = e1
    e2 = e2
    p1 = p1
    p2 = p2
    p3 = p3
    w1 = w1
    None = None
    Entry = {e1, e2}
    Poll = {p1}
    Write = {}
    EntryOf <- OwnerOf
    Round = {e1}
    Raw = {e1}
    Stored = {e1}
    Unloads = {}
    Reads = 1
    Steps = 1
INVARIANTS
    QuietAfterUnanswered
