SPECIFICATION GateSpec
CONSTANTS
  c1 = c1  c2 = c2  k1 = k1  s1 = s1
  Call = {c1, c2}
  Session = {s1}
  Key = {k1}
  SessionOf <- MCSameSession
  KeyOf <- MCSameKey
  ContractOf <- MCTools
  FailClosed = TRUE
SYMMETRY MCSymmetry
INVARIANT ProceedsOnAnswer
INVARIANT LatchOnlyByCore
INVARIANT ObservedOnce
CHECK_DEADLOCK FALSE
