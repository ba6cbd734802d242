SPECIFICATION Spec
CONSTANTS
    app = app
    lib = lib
    sweep = sweep
    glance = glance
    place = place
    submit = submit
    Repos <- MCRepos
    Files = {1, 2}
    RepoOf <- MCRepoOf
    BaseOf <- MCBaseOf
    Absent = Absent
    Contents <- MCOpaqueContents
    Notes = {1, 2}
    Cites <- MCCites
    Verified = {1, 2}
    NoSymbol = NoSymbol
    Sweepers = {}
    Deep = {}
    Slugs = {1, 2}
    Slug <- MCSlug
    Levels = {"high", "medium", "low"}
    Low = "low"
    Blank = "blank"
    None = "none"
    NoHook = NoHook
    FirstTree <- MCFirstTree
    FirstConf <- MCFirstConf
    Quiet = TRUE
    MaxHeads = 2
    MaxLog = 3
    MaxEdits = 0
    MaxFaults = 0
    MaxGaps = 0
INVARIANTS
    BrokenMeansGone
CHECK_DEADLOCK FALSE
