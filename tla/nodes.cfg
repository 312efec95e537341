\* Two programs at a time, two keys, up to two records in their stores.
CONSTANTS
    p1 = p1
    p2 = p2
    Process <- TwoProcesses
    Name <- Names
    Tag <- AllTags
    Lower <- LowerCase
    TagSets <- SomeTagSets
    NoTag = NoTag
    Limits = {1, 2}
    NoKey = NoKey
    NoAddress = NoAddress
    NoNode = NoNode
    Unreadable = Unreadable
    MaxKeys = 2
    MaxRecords = 2
SPECIFICATION Spec
SYMMETRY Symmetry
\* A machine may come to rest: the last program over, and none started.
CHECK_DEADLOCK FALSE
INVARIANTS TypeOK OnlyServersSharePeerIds AnnouncedIsOffered ReportsAreComplete
