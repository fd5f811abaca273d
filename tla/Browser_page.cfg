SPECIFICATION BrowserSpec
CONSTANTS
    Uploads = {u1, u2}
    Total = 2
    fileManager = fileManager
    drop = drop
    Calls = {fileManager, drop}
    Checks = {fileManager}
    Workloads <- MCWorkloads
    ChunkLimit = 1
    NoCall = NoCall
    NoUpload = NoUpload
    Ids = {a}
    Views = {row, timeline}
    MaxChanges = 2
    MaxFetches = 2
    MaxBatches = 2
    MaxFailures = 1
    Players = {p1}
    MaxJobs = 2
    MaxPolls = 2
    MaxResumes = 1
    old = old
    new = new
    Urls = {old, new}
    NewUrl <- MCNewUrl
    MaxSaves = 2
    MaxQueue = 2
    MaxEvents = 2
    all = all
    videos = videos
    Filters = {all, videos}
    Months = {may, june}
    Length <- MCLength
    NoView = NoView
    MaxLoads = 2
    MaxAsks = 2
    MaxFilters = 1
    MaxTroubles = 1
    MaxOverlays = 3
INVARIANTS
    ReportedIsStored
    ReadyViewIsCurrent
    StoreFollowsCache
    TimelineHasNoGaps
    OverlayShowsItsMonth
PROPERTIES
    EveryCallReturns
    CardsAreFilled
    StartsAndResumesEnd
    ProgressGoesForward
CHECK_DEADLOCK FALSE
