CONSTANTS
    Peers = {p1, p2}
    NoPeer = NoPeer
    BaseFds = 4
    MaxFds = 12
    MaxThreads = 10
    Backlog = 7
    Faults <- NoFaults
SPECIFICATION Spec
INVARIANTS
    SameContext
