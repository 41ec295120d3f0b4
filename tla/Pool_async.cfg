CONSTANTS
  s1 = s1  s2 = s2  s3 = s3
  w1 = w1  w2 = w2
  None = None
  Suites = {s1, s2, s3}
  Workers = {w1, w2}
  Retries = 0
  PassThreshold <- ThresholdOne
  RealDevice <- OneReal
  Async = TRUE
  FailFast = FALSE
  Expected = 3
SPECIFICATION FairSpec
PROPERTY RunReturns
