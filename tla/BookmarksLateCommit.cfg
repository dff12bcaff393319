CONSTANTS
  Names = {1, 2}
  c1 = c1
  c2 = c2
  Changesets = {c1, c2}
  NoCs = nocs
  Writers = {w1, w2}
  NoWriter = nobody
  Ops <- SomeOps
  Source <- SomeMoves
  BatchLimit = 1
  MaxAttempts = 2
  MaxCalls = 2
  MaxFaults = 1
  MaxFlips = 1
SYMMETRY Symmetry
SPECIFICATION Spec
INVARIANT SubscriptionIsCurrent
CHECK_DEADLOCK FALSE
