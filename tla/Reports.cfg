CONSTANTS
  s1 = s1  s2 = s2
  None = None
  Projects <- MCProjects
  Folder <- MCFolder
  RealDevice <- MCRealDevice
  Earlier <- MCEarlier
  Misnamed = {}
  Element <- MCElement
  CaseName <- MCCaseName
SPECIFICATION Spec
INVARIANTS
  SummariesTellTheVerdict
  TestsHaveTheirLastResult
