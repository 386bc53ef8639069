SPECIFICATION StoreFairSpec
CONSTANTS
    MaxIndex = 4
    Payload <- MCPayload
    Rejected <- MCRejected
    Store = "disk"
    MaxBuilds = 2
    Sent = {}
    Leader = Leader
    NoRow = NoRow
INVARIANTS
    TypeOK
    AppliedAtMostOnce
    SnapshotSelfDescribing
    AppliedOnDisk
    LogRecreatesState
PROPERTY LoggedIsApplied
