CONSTANTS
  local = local  remote = remote
  test = test  project = project
  e1 = e1  e2 = e2  e3 = e3
  Suites = {local, remote}
  Local = {local}
  Requests <- RequestsMC
  Created <- CreatedMC
  Timeout <- TimeoutMC
  PollWaitTime = 1
  DefaultWait = 3
SPECIFICATION Spec
INVARIANTS
  TypeOK
  NothingUnread
  PassMeansPassed
  TableAgreesWithExit
PROPERTIES
  SeenInTime
  RunReturns
