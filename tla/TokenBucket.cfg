CONSTANTS
  Callers = {c1, c2}
  Capacity = 2
  TokenTime = 3
  MaxWait = 4
  Window = 6
  Limit = 3
  MaxBack = 5
SPECIFICATION Spec
INVARIANTS
  TypeOK
  WindowBound
