CONSTANTS
  Projects <- MCProjects
  Tree <- MCTree
  Excluded <- MCExcluded
  Stored <- MCStored
  Runs = 2
  MaxItems = 7
SPECIFICATION Spec
INVARIANTS
  JobsGetWhatTheyName
  ModulesAreComplete
