SPECIFICATION Spec
CONSTANTS
    messages = messages
    swipes = swipes
    i1 = i1
    i2 = i2
    v1 = v1
    NoRow = NoRow
    Untouched = Untouched
    Cols <- MCCols
    Ids <- MCIds
    Values <- MCValues
    Appends <- MCAppends
    Upserts <- MCUpserts
    Changes <- MCChanges
    Replacements <- MCReplacements
    StaleTears = FALSE
INVARIANTS TypeOK TornIsRestorable
PROPERTIES ImplementsGroupedWrites
