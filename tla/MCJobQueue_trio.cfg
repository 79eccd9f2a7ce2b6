SPECIFICATION Spec
CONSTANTS
  r1 = r1
  r2 = r2
  b1 = b1
  p1 = p1
  key = key
  Nobody = Nobody
  NoRunner = NoRunner
  Job = {1, 2, 3}
  Runner = {r1, r2}
  Branch = {b1}
  Provider = {p1}
  BranchOf <- TrioBranch
  ProviderOf <- TrioProvider
  KeyOf <- TrioKey
  Serialized = {1, 2}
  Priority <- TrioPriority
  MaxAttempts <- TrioMaxAttempts
  ProviderLimit <- LimitOne
  LeaseTicks = 1
  BackoffBase = 1
  MaxBackoff = 1
  ClockReading = {1, 2}
  ReadyDepth = 1
  RetryModes = {TRUE, FALSE}
  AttemptCap = 2
SYMMETRY RunnerSymmetry
INVARIANT TypeOK QueueInv BranchSerialized ProviderWithinLimit SingleRecovery ProjectionAccepts
PROPERTY BudgetRespected SettledStays ImplementsClaims
