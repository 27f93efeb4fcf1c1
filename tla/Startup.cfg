\* Ranges of 5, 4 and 3 bits for 64, 32 and 16.
CONSTANTS
    ArgumentLists <- AllLines
    LongLongRange = 32
    PortRange = 16
    WireRange = 8
    Faults <- AllFaults
SPECIFICATION Spec
INVARIANTS
    TypeOK
    StartsOnlyComplete
    PortsAsTyped
