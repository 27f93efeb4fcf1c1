\* The client and one other peer.  The server may wait for the client for ever.
CONSTANTS
    Peers = {p1, p2}
    TheClient = p1
    NoPeer = NoPeer
    BaseFds = 4
    MaxFds = 10
    MaxThreads = 2
    Backlog = 7
    Faults <- NoFaults
    Flight1 = 1
    Flight2 = 1
    ClientFaults <- SomeClientFaults
SPECIFICATION FairSysSpec
CHECK_DEADLOCK FALSE
INVARIANTS
    SentMeansServed
    LiveClientIsHarmless
PROPERTIES
    StallsOnlyAfterGivingUp
