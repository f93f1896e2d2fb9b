SPECIFICATION Spec
CONSTANTS
    c1 = c1
    c2 = c2
    r1 = r1
    r2 = r2
    Absent = Absent
    Cols <- MCCols
    Contents <- MCContents
    Txns <- MCTxns
    Syncs = TRUE
    Overlaps = {"committed"}
SYMMETRY Symmetry
INVARIANT RecoveryNeverStuck
