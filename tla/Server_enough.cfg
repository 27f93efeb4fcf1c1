\* Just the descriptors that three connections need, and no external fault.
CONSTANTS
    Peers = {p1, p2, p3}
    NoPeer = NoPeer
    BaseFds = 4
    MaxFds = 12
    MaxThreads = 10
    Backlog = 7
    Faults <- NoFaults
SPECIFICATION Spec
SYMMETRY Symmetry
INVARIANTS
    SurvivesCooperativePeers
