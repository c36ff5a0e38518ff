CONSTANTS
  Callers = {c1, c2, c3}
  Conns = {k1, k2}
  NoConn = NoConn
  MaxChannels = 1
  Deadline = 2
  OpenLimit = 1
  MaxAge = 12
SPECIFICATION TimedSpec
INVARIANT
  BoundedCall
