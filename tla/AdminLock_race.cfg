CONSTANTS
    Claimants = {s1, s2}
    NoAdmin = NoAdmin
    Unread = Unread
    MayFail = FALSE
SPECIFICATION LockSpec
PROPERTY
    ReplacedOnlyWithPassword
