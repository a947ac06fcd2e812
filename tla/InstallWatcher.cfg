SPECIFICATION MCSpec
CONSTANTS
  Field = {"content_capture", "fail_closed"}
  Plain = {"fail_closed"}
  Default <- MCDefault
  Capture = "content_capture"
  Command = {c1, c2}
  Updates <- MCUpdates
  Edits <- MCEdits
  Pushes <- MCPushes
  Legacies <- MCLegacies
  Hook = {h1}
  Envs <- MCEnvs
  MaxEdits = 2
  Absent = Absent
  Torn = Torn
  None = None
  Ask = {q1, q2}
  q1 = q1
  q2 = q2
  Rules <- MCRules
  SelfFiled = {}
  AllowSelf = FALSE
  HasHost = TRUE
  MaxPerHour = 1
  Hour = 2
  MaxClock = 2
  MaxRuns = 1
  NoAsk = NoAsk
  Agent = {a1, a2}
  Run = {r1, r2}
  MaxCommands = 3
  MaxGen = 3
  Broken = Broken
  Blank = Blank
  Install = {i1, i2}
  Engine = {"e1", "e2"}
  Event = {"PreToolUse"}
  Gating = "PreToolUse"
  Previous <- MCPrevious
  MaxInstalls = 2
  MaxTouches = 1
  Garbled = Garbled
  NoEngine = "none"
VIEW Running
SYMMETRY Alike
CHECK_DEADLOCK FALSE
INVARIANT WatcherBesideGate
