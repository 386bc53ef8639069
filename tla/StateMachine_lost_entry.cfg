SPECIFICATION Spec
CONSTANTS
    MaxIndex = 4
    Payload <- MCPayload
    Rejected = {}
    Store = "disk"
    MaxBuilds = 0
    Sent = {}
INVARIANT StateMatchesApplied
