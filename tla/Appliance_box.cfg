CONSTANTS
    Clients = {c1, c2}
    Admins = {c1}
    TVs = {t1}
    NoTv = NoTv
    NoCast = NoCast
    NoClient = NoClient
    MaxTimers = 2
    Overlap = FALSE
    Beside = {"countdown"}
    MayFail = TRUE
    Cloudflare = {cloudflared}
    Pinggy = {ssh}
    None = None
    StartsOverlap = FALSE
    MaxFaults = 1
SPECIFICATION ApplianceSpec
INVARIANTS
    TvShowsTheCast
    StoppedMeansStopped
PROPERTIES
    ImplementsCastService
    TimersSpareCasts
    ArmedTimerStopsKiosk
    BootIsAnswered
    MeshRecovers
