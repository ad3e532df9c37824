SPECIFICATION Spec
CONSTANTS
    Bridges = {b1}
    Backends = {"tcp"}
    MaxGen = 1
INVARIANTS
    CloseUnbindsListeners
