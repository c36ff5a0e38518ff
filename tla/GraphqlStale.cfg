CONSTANTS
  Readers = {r1}
  Writers = {w1}
  MaxQueryRetries = 2
  MaxMutationRetries = 1
  TTL = 1
  NoEntry = NoEntry
SPECIFICATION Spec
INVARIANT
  NoPreMutationSnapshot
