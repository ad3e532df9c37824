SPECIFICATION Spec
CONSTANTS
    Clients = {c1, c2}
    None = None
INVARIANTS
    DaemonsAreShared
