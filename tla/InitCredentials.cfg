SPECIFICATION CredentialsSpec
CONSTANTS
  Agent = {a1, a2}
  Run = {r1, r2}
  MaxCommands = 3
  MaxGen = 3
  Broken = Broken
  Blank = Blank
INVARIANT InitLooksNothingUp
CHECK_DEADLOCK FALSE
