SPECIFICATION Spec
CONSTANTS
  Requests = {q1, q2}
  NoRequest = NoRequest
  Limit = 1
  MaxMonth = 2
  Invites = {i0, i1, i2}
  Owner = i0
  Seats = 2
  MaxTokens = 3
  MaxFaults = 1
SYMMETRY Symmetry
CHECK_DEADLOCK FALSE
INVARIANTS TypeOK SeatsKept RedeemedOnce OneLiveToken UsageAccounted ServedWithinLimit NobodyWaitsInCircle OnlyLocksStop
PROPERTIES SuspendedFrozen ImplementsAccount
