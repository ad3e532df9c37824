SPECIFICATION FairSpec
CONSTANTS
    Reqs = {q1}
    MaxGen = 2
    Rewritten = {2}
INVARIANTS
    HandlersCleanUp
    TunnelsAreNotCut
    RewriteIsApplied
PROPERTIES
    ProxyUnwinds
