CONSTANTS
  s1 = s1  s2 = s2  s3 = s3
  w1 = w1  w2 = w2
  None = None
  Suites = {s1, s2}
  Workers = {w1, w2}
  Retries = 1
  PassThreshold <- ThresholdMixed
  RealDevice <- OneReal
  Async = FALSE
  FailFast = FALSE
  Expected = 2
SPECIFICATION Spec
SYMMETRY WorkerSymmetry
INVARIANTS
  TypeOK
  OneTokenPerSuite
  QuietAfterReturn
  LiveJobsWatched
  AttemptsDoNotOverlap
  AttemptsAreFresh
  PassIsEarned
  FailureAfterAllAttempts
  NoNeedlessAttempt
