SPECIFICATION Spec
CONSTANTS
  c1 = c1
  c2 = c2
  a = a
  b = b
  d = d
  Calls = {c1, c2}
  Containers <- ContainersDef
  MaxUi = 1
SYMMETRY Symmetry
INVARIANTS TypeOK OutcomesAreHonest
PROPERTIES KeepsTheRest DeletesOnlyEmpty
CHECK_DEADLOCK FALSE
