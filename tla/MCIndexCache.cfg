SPECIFICATION Spec
CONSTANTS
  Procs = {"hook", "old", "portable"}
  Commits = {1, 2, 3}
  Files <- MCFiles
  Supported <- MCSupported
  TreeOf <- MCTreeOf
  Absent = Absent
  Opaque <- MCOpaque
  ExtractorOf <- MCExtractorOf
  Parses <- MCParses
  None = None
  MaxMoves = 1
  MaxAsks = 3
  MaxCuts = 1
INVARIANTS
  NoWrongEntry
  NoGapUnlessPatchCut
  TornOnlyByOverlap
PROPERTY
  ServesTheTree
CHECK_DEADLOCK FALSE
