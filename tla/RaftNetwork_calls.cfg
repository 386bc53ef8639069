SPECIFICATION Spec
CONSTANTS
    a1 = a1
    a2 = a2
    a3 = a3
    a4 = a4
    N = 3
    Behind = {2}
    Faulty = {2, 3}
    Candidates = {1, 2}
    Addrs <- MCAddrs
    FirstAddr <- MCFirstAddr
    Chunks = 2
    MaxElections = 2
    MaxRestarts = 1
    MaxStops = 1
    NoAddr = NoAddr
INVARIANTS
    TypeOK
    CountedIsStored
    CommittedKept
CHECK_DEADLOCK FALSE
