SPECIFICATION Spec
ACTION_CONSTRAINT MCWithin
CONSTANTS
  s1 = s1  s2 = s2  e1 = e1  e2 = e2
  Session = {s1, s2}
  Event = {e1, e2}
  Hook = {h1}
  Drainer = {d1, d2}
  File = {f1, f2, f3}
  SessionOf <- MCSessionOf
  Unbuildable = {e2}
  MaxRecoveryAttempts = 2
  MaxOccasions <- MCMax1111
  Nobody = Nobody  NoFile = NoFile  NoEvent = NoEvent  NoSession = NoSession
SYMMETRY MCSymmetry
INVARIANT NoLoss
INVARIANT RetryAllowance
PROPERTY ImplementsOutbox
