SPECIFICATION Spec
CONSTANTS
  b1 = b1
  b2 = b2
  b3 = b3
  cli = cli
  runner = runner
  tui = tui
  Branch = {b1, b2}
  Main = b1
  NoBranch = NoBranch
  Operator = {cli}
  Worker = {runner}
  MaxClaims = 1
  MaxClock = 10
  Limit <- StoryLimit
CHECK_DEADLOCK FALSE
INVARIANT StoryInv CanonIsHuman RebuildAgrees
