SPECIFICATION Spec
CONSTANTS
  Sources <- MCSources
  Vaults <- MCVaults
  MaxRuns = 3
  MaxEdits = 2
  MaxKills = 1
INVARIANTS
  CodeUntouched
  RerunIsQuiet
  MarkersCanGo
  AnchorsFromBelow
CHECK_DEADLOCK FALSE
