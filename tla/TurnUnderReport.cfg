SPECIFICATION Spec
CONSTANTS
  Main = Main  a1 = a1
  Agent = {a1}
  MaxLines = 2
  MaxEnds = 0
INVARIANT NeverUnderReported
CHECK_DEADLOCK FALSE
