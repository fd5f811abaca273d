CONSTANTS
    Browsers = {b1, b2}
    Media = {m1, m2}
    Nothing = Nothing
    MaxPresses = 3
    MaxOpened = 3
    MaxPlays = 1
    MaxDrops = 1
    MaxEvents = 5
    Records = 2
    Threshold = 1
    NoSession = NoSession
    MaxOpenings = 2
    MaxLeaves = 1
    MaxPages = 4
    MaxMisses = 1
SPECIFICATION RoomsSpec
SYMMETRY Symmetric
INVARIANTS
    GuestsInRoomFollow
    HostsAreHosts
    ViewerShowsWhatWasAsked
    ViewerSkipsNoPage
CHECK_DEADLOCK FALSE
