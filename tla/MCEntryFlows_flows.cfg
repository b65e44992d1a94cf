\* Dialogs side by side, inverters that move: which entry is moved, what stays open, what runs?
SPECIFICATION FairSpec
CONSTANTS
    Places = {p1, p2}
    serial = serial
    plain = plain
    Inverters <- MCInverters
    Serials <- MCSerials
    Entries = {e1, e2}
    Flows = {f1, f2}
    Nobody = Nobody
    NoSerial = NoSerial
    CancelWhileClosing = FALSE
    Events = 3
INVARIANTS
    OneEntryPerUid
    NoProbeLeftOpen
PROPERTIES
    MovedOnlyWithItsInverter
    EventuallyCurrent
CHECK_DEADLOCK FALSE
