SPECIFICATION Spec
CONSTANTS
  Notes <- MCNotes
  Roots <- MCRoots
  Edits <- MCEdits
  Stamps <- MCStamps
  Window = 1
  Bulky <- MCBulky
  Captures = {c1, c2}
  MaxCommits = 3
  MaxCaptures = 2
  MaxCuts = 1
  MaxExports = 2
  MaxFailures = 1
INVARIANTS
  CapturedOnce
  LossIsBounded
  CaptureHeals
  ExportsAreLogged
SYMMETRY Alike
CHECK_DEADLOCK FALSE
