SPECIFICATION MCSpec
CONSTANTS
  n1 = n1
  Name = {n1}
  OutputCap = 1
  MaxOutput = 2
  MaxRuns = 1
  MaxContents = 2
  MaxDrifts = 1
  MaxChanges = 1
  MaxFaults = 1
  MaxCrashes = 1
CHECK_DEADLOCK FALSE
INVARIANT WorkerInv ResultIsTrue
PROPERTY ForeignKept EveryRunEnds
