CONSTANTS
  Callers = {c1, c2, c3, c4}
  Conns = {k1, k2}
  NoConn = NoConn
  MaxChannels = 2
SPECIFICATION FairSpec
INVARIANTS
  TypeOK
  SlotsAccounted
  NoLostWakeup
  OneConnection
  TimerMeansIdle
  IdleArmedAfterUse
PROPERTIES
  NoEndInFlight
  ImplementsSlots
  EveryCallReturns
  IdleConnectionCloses
