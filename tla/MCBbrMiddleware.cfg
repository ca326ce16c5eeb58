SPECIFICATION SuiteSpec
CONSTANTS
  Units = {"bbr"}
  Callers = {c1, c2, c3}
  MinRTT = 1
  MaxRTT = 64
  AlphaNum = 1
  AlphaDen = 2
  BetaNum = 3
  BetaDen = 10
  Warmup = 3
  Latencies = {0, 2, 20, 70}
  SreCallers = {c1, c2}
  SreBucketCount = 3
  BucketDuration = 2
  KNum = 2
  KDen = 1
  SreMaxCounted = 2
  WindowMaxTime = 12
  MaxOutcomes = 4
  Waiters = {w1, w2}
  Token = 20
  Rate = 8
  Burst = 42
  Slop = 1
  MaxTime = 6
  MaxAdmitted = 5
  Requests = {r1, r2, r3}
  CallsDone = FALSE
  RTTs = {0, 2}
  BbrBucketCount = 2
  Second = 4
  CpuNum = 4
  CpuDen = 5
  MinQPS = 1
  BbrMaxCounted = 3
CHECK_DEADLOCK FALSE
INVARIANT BbrInflightIsServed
