SPECIFICATION Spec
CONSTANTS
    app = app
    lib = lib
    sweep = sweep
    glance = glance
    place = place
    submit = submit
    Repos <- MCRepos
    Files = {1, 2}
    RepoOf <- MCRepoOf
    BaseOf <- MCBaseOf
    Absent = Absent
    Contents <- MCContents
    Notes = {1}
    Cites <- MCBothCites
    Verified = {1}
    NoSymbol = NoSymbol
    Sweepers = {}
    Deep = {}
    Slugs = {1}
    Slug <- MCSlug
    Levels = {"high", "medium", "low"}
    Low = "low"
    Blank = "blank"
    None = "none"
    NoHook = NoHook
    FirstTree <- MCFirstTree
    FirstConf <- MCFirstConf
    Quiet = TRUE
    MaxHeads = 2
    MaxLog = 3
    MaxEdits = 0
    MaxFaults = 0
    MaxGaps = 0
PROPERTIES
    RestoredOnlyWhenSound
CHECK_DEADLOCK FALSE
