SPECIFICATION Spec
CONSTANTS
    MaxIndex = 4
    Payload <- MCPayload
    Rejected = {}
    Store = "disk"
    MaxBuilds = 2
    Sent = {}
INVARIANT CurrentSnapshotMatches
