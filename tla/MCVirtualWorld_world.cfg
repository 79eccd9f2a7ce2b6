SPECIFICATION WorldSpec
CONSTANTS
  b1 = b1
  b2 = b2
  c1 = c1
  p1 = p1
  pid = pid
  w1 = w1
  w2 = w2
  Branch = {b1, b2}
  Main = b1
  NoBranch = NoBranch
  Clock = {c1}
  Path = {p1}
  Pid = {pid}
  Value = {1}
  Executor = {w1, w2}
  MaxAppends = 2
  MaxTrouble = 1
CHECK_DEADLOCK FALSE
SYMMETRY ExecutorSymmetry
INVARIANT WorldInv RuntimesAgree WorldIsVisible
