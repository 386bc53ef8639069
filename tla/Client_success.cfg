SPECIFICATION Spec
CONSTANTS
    n1 = n1
    n2 = n2
    n3 = n3
    a1 = a1
    a2 = a2
    a3 = a3
    a4 = a4
    a5 = a5
    Calls = {1, 2}
    Nodes <- MCNodes
    Addrs <- MCAddrs
    Invalid <- MCInvalid
    FirstLeader <- n1
    FirstAddr <- MCFirstAddr
    GivenLeader <- n3
    MaxChanges = 2
    NoNode = NoNode
    NoAddr = NoAddr
INVARIANT SuccessMeansAccepted
CHECK_DEADLOCK FALSE
