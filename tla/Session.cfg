CONSTANTS
  s1 = s1  s2 = s2
  Suites = {s1, s2}
  Timeouts = {0, 1}
  Grace = 1
  TunnelTimeout = 1
  MaxPresses = 2
SPECIFICATION Spec
INVARIANTS
  TypeOK
  NoJobLeftBehind
  HardExitIsAsked
  ExitCodeTellsOutcome
  ReportsAreWhole
  DryRunIsHarmless
PROPERTIES
  RunEnds
  InterruptEnds
