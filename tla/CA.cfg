SPECIFICATION Spec
CONSTANTS
  Procs = {p1, p2, p3}
  Names = {a, b}
  NoFile = NoFile
  Torn = Torn
  None = None
SYMMETRY Symmetry
CHECK_DEADLOCK FALSE
INVARIANTS
  LoadsSucceed
  OneCA
  RoutesVerify
  UninstallRemoves
