SPECIFICATION Spec
CONSTANTS
    app = app
    lib = lib
    sweep = sweep
    glance = glance
    place = place
    submit = submit
    Repos = {app, lib}
    Files = {1, 2}
    RepoOf <- SharedRepoOf
    BaseOf <- SharedBaseOf
    Absent = Absent
    Contents <- SharedContents
    Notes = {1, 2}
    Cites <- SharedCites
    Verified = {2}
    NoSymbol = NoSymbol
    Sweepers = {}
    Deep = {}
    Slugs = {1}
    Slug <- SharedSlug
    Levels = {"high", "medium", "low"}
    Low = "low"
    Blank = "blank"
    None = "none"
    NoHook = NoHook
    FirstTree <- MCFirstTree
    FirstConf <- SharedConf
    Quiet = FALSE
    MaxHeads = 2
    MaxLog = 2
    MaxEdits = 1
    MaxFaults = 1
    MaxGaps = 0
INVARIANTS
    RecordsWorthRestoring
    ShowsOnlyWhatAuthorsGave
CHECK_DEADLOCK FALSE
