SPECIFICATION SuiteSpec
CONSTANTS
  Units = {"breaker"}
  MaxTries = 2
  Callers = {c1, c2}
  BucketCount = 2
  BucketDuration = 1
  SleepWindow = 1
  Volume = 2
  ErrNum = 1
  ErrDen = 2
  MaxTime = 3
  MaxCalls = 4
SYMMETRY CallerSymmetry
CHECK_DEADLOCK FALSE
INVARIANT TrialInProgress
