SPECIFICATION Spec
CONSTANTS
  Types <- MCTypes
  Uncited <- MCUncited
  Stacks <- MCStacks
  AliasOf <- MCAliasOf
  LowerOf <- MCLowerOf
  DefaultsKnown <- MCDefaultsKnown
  Files <- MCFiles
  Bodies <- MCBodies
  Settings <- MCSettings
  DaysOf <- MCDaysOf
  DefaultDays = 3
  Today = 4
  Idf <- MCIdf
  BodyPassSize = 2
  NeighbourWindow = 2
  TopN = 2
  IntentGate = 500
  Thresholds <- MCThresholds
  Asked <- MCAsked
INVARIANTS
  FixRepairs
  FixIsIdempotent
  PublishedRecallsFresh
  CuratedIsNotWorse
CHECK_DEADLOCK FALSE
