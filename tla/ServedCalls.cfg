SPECIFICATION ServedSpec
CONSTANTS
  c1 = c1
  Calls = {c1}
  Table <- AllTools
  Mutating <- IsMutating
  Elicits = {TRUE, FALSE}
  Transports = {"stdio", "stateless", "sessions"}
INVARIANTS ServedTypeOK ConsentedEffects PermittedEffects HonestReplies NoStrayServer
PROPERTIES EveryCallAnswered
CHECK_DEADLOCK FALSE
