SPECIFICATION FairSpec
CONSTANTS
    Dials = {d1}
    Probes = {p1, p2}
    Handlers = {h1}
    HasHealth = TRUE
    BackendErrors <- ErrorClasses
INVARIANTS
    ConnectionsAreAccounted
    OneAttemptAfterCtxEnds
    NoSleepAfterWakeup
    WaitsEndForTheirReason
PROPERTIES
    DialsReturn
