SPECIFICATION StoreSpec
CONSTANTS
    MaxIndex = 3
    Payload <- MCShortPayload
    Rejected = {}
    Store = "memory"
    MaxBuilds = 2
    Sent = {}
    Leader = Leader
    NoRow = NoRow
INVARIANT LogRecreatesState
