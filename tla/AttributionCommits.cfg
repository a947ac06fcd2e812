SPECIFICATION MCSpec
CONSTANTS
  s1 = s1  s2 = s2  w1 = w1  w2 = w2
  Session = {s1, s2}
  Worktree = {w1, w2}
  Committer = {k1, k2}
  Outside = Outside  Garbage = Garbage  NoId = NoId
  Envs <- MCEnvs
  MaxCommits = 3
  MaxTouches = 3
  Nested = {}
  MaxWalk = 2
  MaxSessions = 2
SYMMETRY MCSymmetry
INVARIANT TreesApart
INVARIANT HealedAsTrailer
INVARIANT EvidenceBound
CHECK_DEADLOCK FALSE
