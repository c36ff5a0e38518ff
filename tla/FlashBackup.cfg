CONSTANTS
  Calls = {b1, b2, b3}
  Keeps = {0, 1, 2}
SPECIFICATION Spec
SYMMETRY Symmetry
CHECK_DEADLOCK FALSE
INVARIANTS
  TypeOK
  ReportedIsComplete
  PruningKeepsOne
