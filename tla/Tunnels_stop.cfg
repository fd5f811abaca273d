CONSTANTS
    Cloudflare = {}
    Pinggy = {}
    None = None
    StartsOverlap = FALSE
    MaxFaults = 0
SPECIFICATION TunnelsSpec
INVARIANT StoppedMeshIsDown
