SPECIFICATION Spec
CONSTANTS
    Stages = {"recall", "research"}
    Locked = {"recall"}
    Stampable = {"recall", "research"}
    Cap <- MCCap
    Runs = {r1}
    Drains = {d1}
    Recorders = {e1}
    Tiers = {"none", "host"}
    Notes = {1, 2}
    FirstQueued = {2}
    NoRel = 0
    NoStage = "no stage"
    Costs = {0, 1}
    MaxCost = 1
    Chains <- MCChains
    MaxAsks = 2
    MaxFaults = 0
    MaxEdits = 1
    r1 = r1
    d1 = d1
    e1 = e1
INVARIANT
    BooksAnySpend
CHECK_DEADLOCK FALSE
