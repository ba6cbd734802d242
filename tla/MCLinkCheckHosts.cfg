SPECIFICATION Spec
CONSTANTS
  Urls <- MCUrls
  Host <- MCHost
  Named <- MCNamed
  Servers = {"a", "b"}
  TTL = 1
  MaxRuns = 2
  MaxDays = 1
  MaxChanges = 2
CHECK_DEADLOCK FALSE
INVARIANT OneRequestToAHost
