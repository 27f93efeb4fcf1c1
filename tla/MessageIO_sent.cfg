\* send_message with a full send buffer and no other fault.
CONSTANTS
    ClientLength = 4
    ServerLength = 3
    ReceiveLength = 3
    Calls = 1
    Capacity = 2
    Leftovers <- EveryLeftover
    Faults <- NoFaults
SPECIFICATION Spec
INVARIANTS
    TrueMeansSent
