SPECIFICATION Spec
CONSTANTS
  Projects <- McProjects
  Walk <- McWalk
  Ignored = {"f3"}
  Recordings = {"f1", "f2"}
  TestsIn <- McTestsIn
  AsRegex <- McAsRegex
  AsGlob <- McAsGlob
  NameRegex <- McNameRegex
  Slot <- McSlot
  Offered <- McOffered
  Rank <- McRank
  Satisfies <- McSatisfies
  Runtimes <- McRuntimes
INVARIANTS
  EveryTestRuns
  ExpectedIsSubmitted
  SubmittedJobsCanPass
  EnvPrecedence
CHECK_DEADLOCK FALSE
