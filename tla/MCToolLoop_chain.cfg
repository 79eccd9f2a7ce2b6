SPECIFICATION ToolSpec
CONSTANTS
  r1 = r1
  r2 = r2
  s1 = s1
  s2 = s2
  NoRunner = NoRunner
  Job = {1, 2, 3, 4, 5}
  Runner = {r1, r2}
  Rivals <- OneBranch
  ToolJob = {1, 3, 5}
  Root = 1
  Asks = {1, 3}
  RootState <- FreshOrDeep
  MaxDepth = 2
  Signature = {s1, s2}
  MaxFaults = 1
  MaxOverdue = 1
SYMMETRY ChainSymmetry
INVARIANT ToolInv ChainOnTime
CONSTRAINT FewTroubles
