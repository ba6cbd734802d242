SPECIFICATION Spec
CONSTANTS
  Notes = {"a"}
  Texts <- MCTexts
  Size <- MCSize
  Indexers = {"index"}
  Recalls = {"recall"}
  MaxTime = 2
  MaxEdits = 2
  MaxRuns = 3
  MaxKills = 1
INVARIANTS
  StaleOnlyWhileRead
  IndexMakesTrue
  QuietRecallServes
CHECK_DEADLOCK FALSE
