SPECIFICATION MCSpec
CONSTANTS
  s1 = s1  s2 = s2  e1 = e1
  Session = {s1, s2}
  Event = {e1}
  Hook = {g1}
  Drainer = {k1, k2}
  File = {f1, f2, f3}
  SessionOf <- MCSessionOf
  Unbuildable = {}
  MaxRecoveryAttempts = 1
  MaxOccasions <- MCMax0110
  Nobody = Nobody  NoFile = NoFile  NoEvent = NoEvent  NoSession = NoSession
  Nudger = {h1, h2}
  Flusher = {d1, d2}
  MaxFaults = 2
  Agent = {"provider"}
  Reader = {"r1", "r2"}
  AgentOf <- MCAgentOf
  MaxDelta = 2
  MaxSink = 3
  t1 = t1  t2 = t2  t3 = t3
  Tool = {t1, t2, t3}
  Operation = {"op"}
  OperationOf <- MCOperationOf
  Invocation = {"id"}
  InvocationOf <- MCInvocationOf
  NoInvocation = NoInvocation
  NoTool = NoTool
INVARIANT FreshMeansFlush
INVARIANT FindingsToldOnce
INVARIANT OwnStart
PROPERTY CarryOverSettles
PROPERTY EventsReachAFlusher
CHECK_DEADLOCK FALSE
