CONSTANTS
  s1 = s1  s2 = s2
  t1 = t1  t2 = t2  t3 = t3
  Suites = {s1, s2}
  Tests = {t1, t2, t3}
  Cells = {s1, s2}
  Bundle <- MixedBundle
  CellOf <- OwnCell
  UserFilter <- ClassFilter
  Retries = 2
  PassThreshold <- ThresholdMixed
  Mechanisms = {"class option", "tests to run", "runner config"}
SPECIFICATION Spec
INVARIANTS
  TypeOK
  AttemptsCoverUnpassed
  PassIsComplete
  FirstAttemptIsWhole
  StaysSelected
