SPECIFICATION PatientSpec
CONSTANTS
  c1 = c1  c2 = c2  k1 = k1  s1 = s1
  Call = {c1}
  Session = {s1}
  Key = {k1}
  SessionOf <- MCSessionOf
  KeyOf <- MCKeyOf
  ContractOf <- MCContractOf
  FailClosed = TRUE
INVARIANT WakesForADecision
INVARIANT SilentIfActedOn
PROPERTY DecisionReaches
CHECK_DEADLOCK FALSE
