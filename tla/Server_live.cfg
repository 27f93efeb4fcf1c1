\* Liveness: no symmetry; threads are scheduled fairly, peers are not.
CONSTANTS
    Peers = {p1, p2}
    NoPeer = NoPeer
    BaseFds = 4
    MaxFds = 12
    MaxThreads = 10
    Backlog = 7
    Faults <- SomeFaults
SPECIFICATION FairSpec
PROPERTIES
    StalledOnlyBySilence
    SctpConnectionStopsServer
