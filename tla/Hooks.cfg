SPECIFICATION MCSpec
CONSTANTS
  Scripts <- MCScripts
  Main = Main  a1 = a1
  Agent = {a1}
  MaxLines = 3
  MaxEnds = 1
INVARIANT ActivityNamesOneThing
INVARIANT HalvesMeet
INVARIANT EventIdentity
INVARIANT NoUnauthorizedContent
INVARIANT GoalIsPrompt
INVARIANT SpooledFirst
INVARIANT CountedOnce
INVARIANT DeliveredCounted
VIEW Running
CHECK_DEADLOCK FALSE
