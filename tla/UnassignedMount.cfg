SPECIFICATION ServedSpec
CONSTANTS
  c1 = c1
  Calls = {c1}
  Table <- AllTools
  Mutating <- IsMutating
  Elicits = {TRUE, FALSE}
  Transports = {"stdio"}
PROPERTIES MountsOnlyUnassigned
CHECK_DEADLOCK FALSE
