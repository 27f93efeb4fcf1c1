\* Every fault may occur; descriptors, threads and the queue run out.
CONSTANTS
    Peers = {p1, p2, p3}
    NoPeer = NoPeer
    BaseFds = 4
    MaxFds = 8
    MaxThreads = 5
    Backlog = 1
    Faults <- AllFaults
SPECIFICATION Spec
SYMMETRY Symmetry
INVARIANTS
    TypeOK
    SessionOnCurrentSocket
    WatchedNotOlder
    LifetimeCapacity
PROPERTIES
    ServesOneAtATime
