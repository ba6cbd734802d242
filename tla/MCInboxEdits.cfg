SPECIFICATION Spec
CONSTANTS
  Slugs <- MCSlugs
  Drafts <- MCDrafts
  NoSlug = ""
  GateProcs = {g1, g2}
  RunIds = {"r"}
  Capture = {"d1", "d4"}
  MaxGates = 0
  MaxFaults = 1
  MaxEdits = 1
  Sessions = {"s1", "s2"}
  Said <- MCSaid
  StubSlug <- MCStubSlug
  Hooks = {h1}
  MaxStubs = 1
  MaxFirings = 3
  MaxMishaps = 1
  MaxRuns = 3
  MaxTrouble = 2
PROPERTY CaptureCostsNoData
SYMMETRY Alike
CHECK_DEADLOCK FALSE
