CONSTANTS
  Servers = {v1}
  Uris = {u1}
  Parts = {p1}
SPECIFICATION Spec
INVARIANT
  DeadDoesNotBlock
