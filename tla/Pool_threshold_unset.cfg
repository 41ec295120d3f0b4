CONSTANTS
  s1 = s1  s2 = s2  s3 = s3
  w1 = w1  w2 = w2
  None = None
  Suites = {s1}
  Workers = {w1}
  Retries = 1
  PassThreshold <- ThresholdUnset
  RealDevice <- AllVirtual
  Async = FALSE
  FailFast = FALSE
  Expected = 1
SPECIFICATION Spec
INVARIANT PassNeedsSuccess
