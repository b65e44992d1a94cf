\* Failures, standby, ignored issues and models that come and go.
SPECIFICATION Spec
CONSTANTS
    m1 = m1
    m2 = m2
    Model = {m1}
    Tolerance = 5
    Persistent = 3
    StandbyWhenIdle = FALSE
    Failures = 7
INVARIANTS
    EntitiesTellTheOutage
    IssuesStandForFailures
    StandbyIsNoFault
PROPERTIES
    ShownIssueKeepsItsStamp
    IgnoredStaysIgnored
