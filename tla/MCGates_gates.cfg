SPECIFICATION GatesSpec
CONSTANTS
  r1 = r1
  r2 = r2
  p1 = p1
  p2 = p2
  f1 = f1
  q1 = q1
  v1 = v1
  c1 = c1
  c2 = c2
  NoRunner = NoRunner
  Job <- GateJobs
  Runner = {r1, r2}
  Rivals <- Unserialised
  Fork = {f1}
  Probe = {q1}
  Request = {v1}
  Clone = {c1, c2}
  Operator = {p1, p2}
  MaxForks = 2
  MaxProposals = 1
  MaxCalls = 2
  MaxFaults = 1
  MaxOverdue = 1
CHECK_DEADLOCK FALSE
SYMMETRY GateSymmetry
INVARIANT GatesInv VerifiedApart ApprovedComesAbout
