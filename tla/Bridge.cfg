SPECIFICATION FairSpec
CONSTANTS
    Bridges = {b1}
    Backends = {"tcp", "k8s", "mem"}
    MaxGen = 2
INVARIANTS
    ReturnedListenersAreTracked
    NoStaleRoute
    ResponsesAreNotTruncated
    NothingIsLeftBehind
PROPERTIES
    ClosedBridgesAreForgotten
    CloseUnwinds
