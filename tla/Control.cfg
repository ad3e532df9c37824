SPECIFICATION Spec
CONSTANTS
    Requests = {r1, r2, r3, r4}
    Keys = {k1}
    Held = Held
    None = None
INVARIANTS
    AnswersAccountForRoutes
    SpecsMatchRoutes
