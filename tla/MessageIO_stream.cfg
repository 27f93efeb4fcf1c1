\* Both directions and every fault; the client's messages are one byte longer than
\* what the server receives, as 14 is than 13.
CONSTANTS
    ClientLength = 4
    ServerLength = 3
    ReceiveLength = 3
    Calls = 3
    Capacity = 4
    Leftovers <- EveryLeftover
    Faults <- AllFaults
SPECIFICATION FairSpec
INVARIANTS
    TypeOK
    TrueUnlessOvercounted
    TrueMeansFilled
PROPERTIES
    MessagesInOrder
    ClientCallsReturn
