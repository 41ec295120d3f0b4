CONSTANTS
  s1 = s1  s2 = s2
  t1 = t1  t2 = t2  t3 = t3
  Suites = {s1, s2}
  Tests = {t1, t2}
  Cells = {s1, s2}
  Bundle <- SameBundle
  CellOf <- OneCell
  UserFilter <- NoFilter
  Retries = 1
  PassThreshold <- ThresholdOne
  Mechanisms = {"class option"}
SPECIFICATION Spec
INVARIANT FirstAttemptIsWhole
