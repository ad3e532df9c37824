SPECIFICATION FairSpec
CONSTANTS
    Clients = {c1, c2}
    None = None
INVARIANTS
    OneDaemonServes
    RunsDeregister
    ChildrenKeepTheirNames
PROPERTIES
    ClientsReturn
