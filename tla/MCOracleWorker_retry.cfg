SPECIFICATION OracleSpec
CONSTANTS
  r1 = r1
  r2 = r2
  b1 = b1
  Nobody = Nobody
  NoRunner = NoRunner
  Job = {1}
  Runner = {r1}
  Branch = {b1}
  Provider = {}
  BranchOf <- OneBranch
  ProviderOf <- NoProvider
  KeyOf <- NoKey
  Serialized = {1}
  Priority <- SamePriority
  MaxAttempts <- TwoAttempts
  ProviderLimit <- NoLimit
  LeaseTicks = 2
  BackoffBase = 0
  MaxBackoff = 0
  ClockReading = {0}
  ReadyDepth = 0
  RetryModes = {}
  AttemptCap = 0
  UntilHuman = FALSE
  Pausable = {}
  Retryable = {TRUE}
  Archivable = {}
  PerAttempt = {}
  MaxTroubles = 0
  BeatEvery = 1
  Synthetic = {}
  MaxRetries = 0
  CallCap = 2
INVARIANT RetryCanDeliver
