SPECIFICATION FairRunnerSpec
CONSTANTS
  r1 = r1
  r2 = r2
  b1 = b1
  Nobody = Nobody
  NoRunner = NoRunner
  Job = {1, 2}
  Runner = {r1, r2}
  Branch = {b1}
  Provider = {}
  BranchOf <- OneBranch
  ProviderOf <- NoProvider
  KeyOf <- NoKey
  Serialized = {1, 2}
  Priority <- SamePriority
  MaxAttempts <- OneAttempt
  ProviderLimit <- NoLimit
  LeaseTicks = 1
  BackoffBase = 0
  MaxBackoff = 0
  ClockReading = {0}
  ReadyDepth = 0
  RetryModes = {}
  AttemptCap = 0
  UntilHuman = TRUE
  Pausable = {b1}
  Retryable = {TRUE}
  Archivable = {1}
  PerAttempt = {}
  MaxTroubles = 1
  BeatEvery = 0
PROPERTY OneJobAcrossABoundary EveryJobSettles
