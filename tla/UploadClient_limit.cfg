SPECIFICATION ClientSpec
CONSTANTS
    Uploads = {u1, u2}
    Total = 3
    fileManager = fileManager
    drop = drop
    Calls = {fileManager, drop}
    Checks = {fileManager}
    Workloads <- MCWorkloads
    ChunkLimit = 1
    NoCall = NoCall
    NoUpload = NoUpload
INVARIANTS
    ChunksAreLimited
CHECK_DEADLOCK FALSE
