CONSTANTS
    Uploads = {u1, u2}
    Requests = {r1}
    Names = {movie}
    Total = 1
    MaxSuffix = 1
    Resent = {}
SPECIFICATION Spec
PROPERTIES
    NoSilentOverwrite
