SPECIFICATION PatchSpec
CONSTANTS
  r1 = r1
  r2 = r2
  b1 = b1
  c1 = c1
  Nobody = Nobody
  NoRunner = NoRunner
  Job = {1, 2, 3}
  Runner = {r1, r2}
  Branch = {b1}
  Provider = {}
  BranchOf <- OneBranch
  ProviderOf <- NoProvider
  KeyOf <- NoKey
  Serialized = {1, 2, 3}
  Priority <- SamePriority
  MaxAttempts <- OneAttempt
  ProviderLimit <- NoLimit
  LeaseTicks = 1
  BackoffBase = 0
  MaxBackoff = 0
  ClockReading = {0}
  ReadyDepth = 0
  RetryModes = {}
  AttemptCap = 0
  UntilHuman = FALSE
  Pausable = {}
  Retryable = {TRUE, FALSE}
  Archivable = {2}
  PerAttempt = {}
  MaxTroubles = 1
  BeatEvery = 0
  Patch = {c1}
  Validated = {c1}
  PatchOf <- OnePatch
  Applies = {1, 3}
  RetryOf <- RetriesTwoLater
SYMMETRY RunnerSymmetry
INVARIANT PatchInv StagingOnTime RecoveryRunsNoSandbox
PROPERTY ImplementsReview
