SPECIFICATION Spec
CONSTANTS
    MaxIndex = 4
    Payload <- MCPayload
    Rejected = {}
    Store = "memory"
    MaxBuilds = 1
    Sent = {}
INVARIANT SnapshotExact
