CONSTANTS
    r1 = r1
    r2 = r2
    cl = cl
    ta = ta
    tb = tb
    NoTitle = NoTitle
    Titles = {ta, tb}
    Ids <- Lookups
    Kind <- LookupKind
    Versions <- LookupVersions
    SinceMode = "checkpoint"
    MaxSeq = 4
SPECIFICATION FairSpec
INVARIANTS
    NothingSkipped
    TableFollowsMirror
PROPERTIES
    CatchesUpUnlessBlocked
