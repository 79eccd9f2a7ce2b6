SPECIFICATION OracleSpec
CONSTANTS
  r1 = r1
  r2 = r2
  b1 = b1
  Nobody = Nobody
  NoRunner = NoRunner
  Job = {1, 2}
  Runner = {r1, r2}
  Branch = {b1}
  Provider = {}
  BranchOf <- OneBranch
  ProviderOf <- NoProvider
  KeyOf <- NoKey
  Serialized = {1, 2}
  Priority <- SamePriority
  MaxAttempts <- TwoAndOne
  ProviderLimit <- NoLimit
  LeaseTicks = 1
  BackoffBase = 0
  MaxBackoff = 0
  ClockReading = {0}
  ReadyDepth = 0
  RetryModes = {}
  AttemptCap = 0
  UntilHuman = FALSE
  Pausable = {}
  Retryable = {TRUE}
  Archivable = {}
  PerAttempt = {}
  MaxTroubles = 1
  BeatEvery = 0
  Synthetic = {2}
  MaxRetries = 1
  CallCap = 2
SYMMETRY RunnerSymmetry
INVARIANT OracleInv CompletedIsAnalysed NoSecondCall
