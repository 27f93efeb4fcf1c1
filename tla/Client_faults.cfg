\* TCP and SCTP, every fault may occur, flights in several segments.
CONSTANTS
    Flight1 = 2
    Flight2 = 2
    Faults <- AllFaults
SPECIFICATION FairSpec
INVARIANTS
    TypeOK
    FirstTryIsHonest
    SctpConnectIsHonest
    NothingLeftConnecting
    ReceiverSeesOpenSocket
    SentOnlyAfterHandshake
    GivenUpAfterThree
PROPERTIES
    SenderEnds
