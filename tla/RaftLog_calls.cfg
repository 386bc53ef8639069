SPECIFICATION ReadSpec
CONSTANTS
    l1 = l1
    l2 = l2
    LeaderIds <- MCLeaderIds
    NoRow = NoRow
    MaxIndex = 3
    MaxVote = 2
    MaxBatch = 2
    Bits = 4
    PowerLossPossible = TRUE
SYMMETRY Symmetry
INVARIANTS
    TypeOK
    NoHole
    AgreesWithRaft
    ReadsExact
    ScanInOrder
PROPERTY ImplementsPersistentLog
