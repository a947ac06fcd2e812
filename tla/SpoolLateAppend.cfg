SPECIFICATION Spec
CONSTANTS
  s1 = s1  s2 = s2  e1 = e1  e2 = e2
  Session = {s1}
  Event = {e1}
  Hook = {h1}
  Drainer = {d1, d2}
  File = {f1, f2}
  SessionOf <- MCSessionOf
  Unbuildable = {}
  MaxRecoveryAttempts = 1
  MaxOccasions <- MCMax0000
  Nobody = Nobody  NoFile = NoFile  NoEvent = NoEvent  NoSession = NoSession
SYMMETRY MCSymmetry
INVARIANT LateAppendsSurvive
