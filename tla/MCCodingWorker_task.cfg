SPECIFICATION CodingSpec
CONSTANTS
  f1 = f1
  f2 = f2
  r1 = r1
  r2 = r2
  b1 = b1
  Nobody = Nobody
  NoRunner = NoRunner
  Job = {1}
  Runner = {r1, r2}
  Branch = {b1}
  Provider = {}
  BranchOf <- OneBranch
  ProviderOf <- NoProvider
  KeyOf <- NoKey
  Serialized = {1}
  Priority <- SamePriority
  MaxAttempts <- TwoAttempts
  ProviderLimit <- NoLimit
  LeaseTicks = 2
  BackoffBase = 0
  MaxBackoff = 0
  ClockReading = {0}
  ReadyDepth = 0
  RetryModes = {}
  AttemptCap = 0
  UntilHuman = FALSE
  Pausable = {}
  Retryable = {TRUE, FALSE}
  Archivable = {1}
  PerAttempt = {1}
  MaxTroubles = 1
  BeatEvery = 1
  Signature = {f1}
SYMMETRY RunnerSymmetry
INVARIANT CodingInv OneHandler OneRunOnTime
PROPERTY ResultOfItsLease
