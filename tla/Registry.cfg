SPECIFICATION FairSpec
CONSTANTS
    Calls = {c1, c2, c3}  Requests <- AllRequests  HasFallback = TRUE
    a1 = a1  A1 = A1  b1 = b1  keyA = keyA  keyB = keyB
    Names <- MCNames  Keys = {keyA, keyB}  Lower <- MCLower
    Absent = Absent  Nil = Nil  None = None
INVARIANTS
    IInv
    LiveRoutesAreRunning
    StoppedAtMostOnce
    NoBackendLeaked
    FailedAddIsUndone
    EventsMatchTable
PROPERTIES
    CallsReturn
    ImplementsRouteTable
