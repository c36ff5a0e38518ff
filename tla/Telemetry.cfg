SPECIFICATION TelemetrySpec
CONSTANTS
  BucketTime = 2
  Capacity = 3
  Rows = 2
  Values = {1, 2}
  MaxTime = 8
  MaxSamples = 3
  Containers = {d1, d2}
  Eviction = 3
  Freshness = 1
INVARIANTS WindowIsExact GhostsAreBounded
CHECK_DEADLOCK FALSE
