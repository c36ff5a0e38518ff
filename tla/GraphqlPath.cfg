CONSTANTS
  Readers = {r1, r2}
  Writers = {w1}
  MaxQueryRetries = 2
  MaxMutationRetries = 1
  TTL = 1
  NoEntry = NoEntry
SPECIFICATION FairSpec
INVARIANTS
  TypeOK
  MutationAtMostOnce
  PreMutationOnlyIfRaced
PROPERTY
  EveryCallReturns
