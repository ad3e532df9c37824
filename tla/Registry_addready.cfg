SPECIFICATION Spec
CONSTANTS
    Calls = {c1, c2, c3}  Requests <- OneName  HasFallback = FALSE
    a1 = a1  A1 = A1  b1 = b1  keyA = keyA  keyB = keyB
    Names <- MCNames  Keys = {keyA, keyB}  Lower <- MCLower
    Absent = Absent  Nil = Nil  None = None
INVARIANTS
    AddReadyRemovesItsOwnRoute
