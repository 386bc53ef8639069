SPECIFICATION StoreSpec
CONSTANTS
    MaxIndex = 3
    Payload <- MCShortPayload
    Rejected = {}
    Store = "memory"
    MaxBuilds = 2
    Sent <- MCSent
    Leader = Leader
    NoRow = NoRow
INVARIANTS
    SnapshotNearMeta
    StateMatchesApplied
    MemoryAgreesWithLog
    SnapshotIdsUnique
