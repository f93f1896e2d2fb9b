SPECIFICATION FairSpec
CONSTANTS
    i1 = i1
    i2 = i2
    v1 = v1
    v2 = v2
    l1 = l1
    l2 = l2
    NoRow = NoRow
    Untouched = Untouched
    Ids <- MCIds
    Values <- MCValues
    Listers <- MCListers
    Imports <- MCImports
    Kinds <- MCKinds
INVARIANTS TypeOK CacheCoherent PreparedRowsComplete DirtIsScheduled
PROPERTIES RowsChangeByCallsOnly CallsTakeEffect DirtyFlushed
