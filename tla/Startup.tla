-------------------------------- MODULE Startup --------------------------------
(***************************************************************************)
(* From the command line to the first thread: main and validate_argument   *)
(* of tls_client.cpp, then TransportInterface::init and create_socket.     *)
(* Arguments are read by position; the flags in front of the addresses and *)
(* ports are never looked at, nor is the result of the conversion.         *)
(***************************************************************************)
EXTENDS Integers, Sequences

CONSTANTS
    ArgumentLists,   \* what may be typed: sequences of tokens, see below
    LongLongRange,   \* values of an unsigned long long, 2^64
    PortRange,       \* values of a uint32_t, 2^32
    WireRange,       \* values of the port in a sockaddr_in, 2^16
    Faults           \* calls that may fail: "socket" (with its options), "bind"
                     \* (a server's listen too), "thread" (pthread_create)

\* A token is its text, one of the words the code knows or what it may be instead,
\* the number its first characters make, 0 if they make none, and whether others
\* follow.
Words == {"-tcp", "-sctp", "-c", "-s", "address", "number", "other", "none"}
Tokens == [text : Words, number : Int, tail : {"none", "some"}]

ASSUME StartupAssumption ==
    /\ ArgumentLists \subseteq Seq(Tokens)
    /\ LongLongRange \in Nat \ {0} /\ PortRange \in Nat \ {0} /\ WireRange \in Nat \ {0}
    /\ LongLongRange % PortRange = 0 /\ PortRange % WireRange = 0
    /\ Faults \subseteq {"socket", "bind", "thread"}

TCP == 0
SCTP == 1
CLIENT == 0
SERVER == 1

VARIABLES
    pc,              \* the next call, or how start-up ended
    arguments,       \* argv without the program's name
    transport_type,
    protocol,
    src_address, dest_address,   \* tokens, NoToken before they are assigned
    src_port, dest_port,         \* uint32_t, Unset before they are assigned
    m_socket_address_src,        \* sin_port of the address bound, Unset before
    m_socket_address_dest        \* sin_port of the address to connect to

values == <<transport_type, protocol, src_address, dest_address, src_port, dest_port>>
addresses == <<m_socket_address_src, m_socket_address_dest>>
vars == <<pc, arguments, values, addresses>>

NoToken == [text |-> "none", number |-> 0, tail |-> "none"]
Unset == -1

Exits == {"exit", "crash"}
Threads == {"sender", "listener"}

\* A thread that cannot be created leaves main asleep by itself.
Alone == "alone"

Starts(thread) == pc' = thread \/ ("thread" \in Faults /\ pc' = Alone)

TypeOK ==
    /\ pc \in {"validate", "socket", "source", "bind", "dest", Alone} \cup Threads
              \cup Exits
    /\ arguments \in Seq(Tokens)
    /\ transport_type \in {CLIENT, SERVER}
    /\ protocol \in {TCP, SCTP}
    /\ src_address \in Tokens /\ dest_address \in Tokens
    /\ src_port \in {Unset} \cup 0..(PortRange - 1)
    /\ dest_port \in {Unset} \cup 0..(PortRange - 1)
    /\ m_socket_address_src \in {Unset} \cup 0..(WireRange - 1)
    /\ m_socket_address_dest \in {Unset} \cup 0..(WireRange - 1)
    /\ pc \in Threads => m_socket_address_src # Unset
    /\ pc = "sender" => m_socket_address_dest # Unset

Init ==
    /\ pc = "validate"
    /\ arguments \in ArgumentLists
    /\ transport_type = CLIENT
    /\ protocol = TCP
    /\ src_address = NoToken /\ dest_address = NoToken
    /\ src_port = Unset /\ dest_port = Unset
    /\ m_socket_address_src = Unset /\ m_socket_address_dest = Unset

-------------------------------------------------------------------------------
(* Conversions. *)

\* Out of range in either direction gives ULLONG_MAX; a minus sign wraps around.
strtoull(n) ==
    IF n >= LongLongRange \/ n <= -LongLongRange
      THEN LongLongRange - 1
      ELSE n % LongLongRange

\* Mutant: a number that does not fit becomes the largest one that does.
ConvertClamps(token) ==
    IF strtoull(token.number) >= PortRange THEN PortRange - 1 ELSE strtoull(token.number)

\* The value, whatever follows the digits: the result false is not looked at.
convertStrToLong(token) == strtoull(token.number) % PortRange

\* Mutant: the port keeps its 32 bits.
htonsUncut(port) == port

\* As a number; the order of its bytes is the network's business.
htons(port) == port % WireRange

inet_pton(token) == token.text = "address"

-------------------------------------------------------------------------------
(* main and validate_argument. *)

\* Past the end of the vector anything may be found.
Argument(i) ==
    IF i < Len(arguments)
      THEN {arguments[i + 1]}
      ELSE {[NoToken EXCEPT !.text = w] : w \in {"-c", "-s", "other"}}

IsClient(role) == role.text = "-c"

\* Mutant: the server's arguments are not counted.
CountsClientOnly(role) ==
    role.text = "-s" \/ (role.text = "-c" /\ Len(arguments) = 10)

RightCount(role) ==
    \/ role.text = "-c" /\ Len(arguments) = 10
    \/ role.text = "-s" /\ Len(arguments) = 6

Accepted ==
    /\ pc = "validate"
    /\ arguments # <<>>
    /\ protocol' = IF arguments[1].text = "-sctp" THEN SCTP ELSE TCP
    /\ \E role \in Argument(1), address \in Argument(3), port \in Argument(5) :
          /\ RightCount(role)
          /\ src_address' = address
          /\ src_port' = convertStrToLong(port)
          /\ IF IsClient(role)
               THEN \E dest \in Argument(7), its_port \in Argument(9) :
                       /\ transport_type' = CLIENT
                       /\ dest_address' = dest
                       /\ dest_port' = convertStrToLong(its_port)
               ELSE transport_type' = SERVER /\ UNCHANGED <<dest_address, dest_port>>
    /\ pc' = "socket"
    /\ UNCHANGED <<arguments, addresses>>

Rejected ==
    /\ pc = "validate"
    /\ arguments = <<>> \/ \E role \in Argument(1) : ~RightCount(role)
    /\ pc' = "exit"
    /\ UNCHANGED <<arguments, values, addresses>>

\* With one argument the next one is compared all the same.
ReadsPastEnd ==
    /\ pc = "validate"
    /\ Len(arguments) = 1
    /\ pc' = "crash"
    /\ UNCHANGED <<arguments, values, addresses>>

-------------------------------------------------------------------------------
(* TransportInterface::init and create_socket. *)

Exit == pc' = "exit" /\ UNCHANGED <<arguments, values, addresses>>

CreateSocket ==
    /\ pc = "socket"
    /\ \/ pc' = "source" /\ UNCHANGED <<arguments, values, addresses>>
       \/ "socket" \in Faults /\ Exit

\* Mutant: an address that is not one leaves INADDR_ANY.
SourceUnchecked ==
    /\ pc = "source"
    /\ pc' = "bind"
    /\ m_socket_address_src' = htons(src_port)
    /\ UNCHANGED <<arguments, values, m_socket_address_dest>>

SourceAddress ==
    /\ pc = "source"
    /\ \/ /\ inet_pton(src_address)
          /\ pc' = "bind"
          /\ m_socket_address_src' = htons(src_port)
          /\ UNCHANGED <<arguments, values, m_socket_address_dest>>
       \/ ~inet_pton(src_address) /\ Exit

Bind ==
    /\ pc = "bind"
    /\ \/ /\ IF transport_type = CLIENT THEN pc' = "dest" ELSE Starts("listener")
          /\ UNCHANGED <<arguments, values, addresses>>
       \/ "bind" \in Faults /\ Exit

DestAddress ==
    /\ pc = "dest"
    /\ \/ /\ inet_pton(dest_address)
          /\ Starts("sender")
          /\ m_socket_address_dest' = htons(dest_port)
          /\ UNCHANGED <<arguments, values, m_socket_address_src>>
       \/ ~inet_pton(dest_address) /\ Exit

\* main sleeps for ever, or is gone.
Done == pc \in {Alone} \cup Threads \cup Exits /\ UNCHANGED vars

Next ==
    \/ Accepted \/ Rejected \/ ReadsPastEnd
    \/ CreateSocket \/ SourceAddress \/ Bind \/ DestAddress
    \/ Done

Spec == Init /\ [][Next]_vars

-------------------------------------------------------------------------------
(* Properties. *)

Typed(i) == arguments[i + 1]

\* No command line starts a thread unless it is as long as its role needs and has
\* addresses in their places, whatever is found where arguments[1] is read past the
\* end: neither a short line nor an address and a port that changed places.
StartsOnlyComplete ==
    pc \in Threads =>
        /\ Len(arguments) = IF pc = "sender" THEN 10 ELSE 6
        /\ Typed(1).text = IF pc = "sender" THEN "-c" ELSE "-s"
        /\ inet_pton(Typed(3))
        /\ pc = "sender" => inet_pton(Typed(7))

\* The three widths a port goes through agree: the port of the socket is the number
\* typed, modulo the width it has on the wire.  So each port that exists is used as
\* typed, and one that does not exist silently becomes another, unless it is too
\* long for strtoull, which makes it the largest.
Port(i) ==
    IF Typed(i).number \in -LongLongRange + 1 .. LongLongRange - 1
      THEN Typed(i).number % WireRange
      ELSE WireRange - 1

PortsAsTyped ==
    /\ m_socket_address_src # Unset => m_socket_address_src = Port(5)
    /\ m_socket_address_dest # Unset => m_socket_address_dest = Port(9)

===============================================================================
