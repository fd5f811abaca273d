CONSTANTS
    Sessions = {alice, bob, carol}
    StaysConnected = {alice, bob}
    Admin = alice
    Tabs = 2
    ProfileIds = {p1, p2}
    NoProfile = NoProfile
    MaxProfiles = 2
    Claimants = {s1, s2, s3}
    NoAdmin = NoAdmin
    Unread = Unread
    MayFail = TRUE
    Browsers = {b1, b2}
    Administrators = {b1}
    Nobody = Nobody
    MaxCasts = 2
    MaxInputs = 3
    Clients = {1, 2}
    Rate <- ClientRates
    GlobalRate = 1
    Requests = {r1, r2}
    Sizes = {1, 2}
    Burst = 2
    StaleAfter = 2
    Timeout = 2
    MaxTime = 3
    films = films
    shows = shows
    saga = saga
    folder = folder
    Categories = {films, shows}
    Parents = {saga}
    Folders = {folder}
    CategoryOf <- MCCategoryOf
    Children <- MCChildren
    OnPage <- MCOnPage
    MediaTypes = {all, videos}
    AllTypes = all
    NoFolder = NoFolder
    NoViewKey = NoViewKey
    NoGrid = NoGrid
    MaxTasks = 3
    MaxPage = 3
    MaxIndexAsks = 1
    MaxUpsets = 1
SPECIFICATION SessionsSpec
SYMMETRY Symmetric
INVARIANTS
    RegistryIsConsistent
    DeletedProfileHasNoOwner
    ExclusiveWhileConnected
    MirrorWhileConnected
    ControllersAgree
    WithinRate
    LayoutShowsChoice
PROPERTIES
    ReliesOnCastService
    RoleChangesRightly
    LoneRequestSucceeds
CHECK_DEADLOCK FALSE
