\* Clients may go away at any point, and the sessions come to rest; so do the
\* thumbnails when every request there may be has been made.
CHECK_DEADLOCK FALSE
CONSTANTS
    Uploads = {u1, u2}
    Requests = {r1, r2}
    Names = {movie}
    Total = 2
    MaxSuffix = 1
    Resent = {u2}
    f1 = f1
    f2 = f2
    g1 = g1
    Tasks = {f1, f2, g1}
    CategoryOf <- MCCategoryOf
    Workers = {w1, w2}
    Indexers = {indexer}
    Regenerators = {regenerator}
    Clearers = {a1}
    MaxQueue = 1
    MaxRequests = 2
    NoTask = NoTask
    Waiting = Waiting
SPECIFICATION UploadsSpec
INVARIANTS
    SettledIsDelivered
    AnnouncedIsWhole
    EachTaskOnce
PROPERTIES
    ImplementsService
    EverySessionEnds
    OrphansAreSwept
    StatusEnds
