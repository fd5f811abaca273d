SPECIFICATION FairSpec
CONSTANTS
    Categories <- MCCategories
    AutoIds <- MCAuto
    Children <- MCChildren
    Files = {"alien", "cartoon"}
    Home <- MCHome
    Worker = worker
    Reindexers = {reindexer}
    Nothing = Nothing
    MaxChanges = 1
    MaxReindexes = 1
    MaxFailures = 1
INVARIANTS IInv NoGhostRows
PROPERTY IndexCatchesUp
