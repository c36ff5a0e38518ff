CONSTANTS
  Sessions = {s1, s2}
  Requests = {q1, q2}
  Uris = {u1}
  Parts = {p1, p2}
  Expiry = 1
  Interval = 1
  NoSession = NoSession
SPECIFICATION FeedSpec
INVARIANTS
  FeedTypeOK
  PairsAccounted
  IdleBounded
  NoLeakedOperation
  AllOrNothing
  EndedSessionsAreSilent
PROPERTY
  ClosesOnce
  AbandonedSessionEnds
