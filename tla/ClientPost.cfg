SPECIFICATION MCSpec
CONSTANTS
  c1 = c1  c2 = c2  c3 = c3
  e1 = e1  e2 = e2
  Events = {e1, e2}
  Calls = {c1, c2, c3}
  EventOf <- MCEventOf
  Malformed = {c3}
  MaxRetries = 1
  Reused = {c2}
  LegacyCore = TRUE
  Decisions = {"CONSTRAIN", "HALT"}
INVARIANT DoubledOnlyUnheard
INVARIANT RetryIsNoReplay
INVARIANT VerdictKept
PROPERTY ImplementsDelivery
PROPERTY EmitEnds
CHECK_DEADLOCK FALSE
