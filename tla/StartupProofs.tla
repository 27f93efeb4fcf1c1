----------------------------- MODULE StartupProofs -----------------------------
(***************************************************************************)
(* Proofs about Startup, for any set of command lines and any ranges of    *)
(* which each divides the one before: which lines start a thread, and on   *)
(* which ports.                                                            *)
(***************************************************************************)
EXTENDS Startup, Arithmetic

\* What create_socket is called with, and what it has found at each place.
ArgumentsInv ==
    pc \in {"socket", "source", "bind", "dest"} \cup Threads =>
        /\ transport_type \in {CLIENT, SERVER}
        /\ Len(arguments) = IF transport_type = CLIENT THEN 10 ELSE 6
        /\ Typed(1).text = IF transport_type = CLIENT THEN "-c" ELSE "-s"
        /\ src_address = Typed(3)
        /\ transport_type = CLIENT => dest_address = Typed(7)

PlacesInv ==
    /\ pc \in {"bind", "dest"} \cup Threads => inet_pton(src_address)
    /\ pc \in {"dest", "sender"} => transport_type = CLIENT
    /\ pc = "listener" => transport_type = SERVER
    /\ pc = "sender" => inet_pton(dest_address)

\* StartsOnlyComplete speaks of threads only; this says what leads up to one.
StartInv == ArgumentsInv /\ PlacesInv

LEMMA AcceptedLines == ASSUME Accepted PROVE StartInv'
<1> USE DEF CLIENT, SERVER, Threads, Alone
<1>1. PICK role \in Argument(1), address \in Argument(3), port \in Argument(5) :
          /\ RightCount(role)
          /\ src_address' = address
          /\ IF IsClient(role)
               THEN \E dest \in Argument(7), its_port \in Argument(9) :
                       transport_type' = CLIENT /\ dest_address' = dest
               ELSE transport_type' = SERVER
  BY DEF Accepted
<1>2. arguments' = arguments /\ pc' = "socket"
  BY DEF Accepted
<1>3. Len(arguments) = 10 \/ Len(arguments) = 6
  BY <1>1 DEF RightCount
<1>4. role = Typed(1) /\ address = Typed(3)
  BY <1>1, <1>3 DEF Argument, Typed
<1>5. CASE IsClient(role)
  <2>1. PICK dest \in Argument(7) : transport_type' = CLIENT /\ dest_address' = dest
    BY <1>1, <1>5
  <2>2. Len(arguments) = 10
    BY <1>1, <1>5 DEF RightCount, IsClient
  <2>3. dest = Typed(7)
    BY <2>1, <2>2 DEF Argument, Typed
  <2> QED
    BY <1>1, <1>2, <1>4, <1>5, <2>1, <2>2, <2>3
       DEF StartInv, ArgumentsInv, PlacesInv, IsClient, Typed
<1>6. CASE ~IsClient(role)
  <2>1. Len(arguments) = 6 /\ role.text = "-s" /\ transport_type' = SERVER
    BY <1>1, <1>6 DEF RightCount, IsClient
  <2> QED
    BY <1>1, <1>2, <1>4, <2>1 DEF StartInv, ArgumentsInv, PlacesInv, Typed
<1> QED
  BY <1>5, <1>6

LEMMA StartInductive == StartInv /\ [Next]_vars => StartInv'
<1> SUFFICES ASSUME StartInv, [Next]_vars PROVE StartInv'
  OBVIOUS
<1> USE DEF StartInv, ArgumentsInv, PlacesInv, Typed, Threads, Alone, CLIENT, SERVER
<1>1. CASE Accepted
  BY <1>1, AcceptedLines
<1>2. CASE Rejected \/ ReadsPastEnd
  BY <1>2 DEF Rejected, ReadsPastEnd
<1>3. CASE CreateSocket
  BY <1>3 DEF CreateSocket, Exit, values, addresses
<1>4. CASE SourceAddress
  BY <1>4 DEF SourceAddress, Exit, values, addresses, inet_pton
<1>5. CASE Bind
  BY <1>5 DEF Bind, Starts, Exit, values, addresses, inet_pton
<1>6. CASE DestAddress
  BY <1>6 DEF DestAddress, Starts, Exit, values, addresses, inet_pton
<1>7. CASE Done \/ UNCHANGED vars
  BY <1>7 DEF Done, vars, values, addresses, inet_pton
<1> QED
  BY <1>1, <1>2, <1>3, <1>4, <1>5, <1>6, <1>7 DEF Next

\* Whatever is typed, and whatever is read past the end of a short line: a thread
\* starts only if the line has the length of its role and addresses in their places.
THEOREM NoPartialLineStarts == Spec => []StartsOnlyComplete
<1>1. Init => StartInv
  BY DEF Init, StartInv, ArgumentsInv, PlacesInv, Threads
<1>2. StartInv => StartsOnlyComplete
  BY DEF StartInv, ArgumentsInv, PlacesInv, StartsOnlyComplete, Threads, CLIENT, SERVER
<1> QED
  BY <1>1, <1>2, StartInductive, PTL DEF Spec

-------------------------------------------------------------------------------
(* Types, and the ports. *)

\* The conversions stay within their ranges, whatever is typed.
LEMMA ConversionTypes ==
    /\ \A t \in Tokens : convertStrToLong(t) \in 0 .. PortRange - 1
    /\ \A port \in Int : htons(port) \in 0 .. WireRange - 1
<1>1. \A n \in Int : strtoull(n) \in Int
  BY StartupAssumption DEF strtoull
<1>2. ASSUME NEW t \in Tokens PROVE convertStrToLong(t) \in 0 .. PortRange - 1
  <2>1. t.number \in Int
    BY DEF Tokens
  <2>2. \A n \in Int : n % PortRange \in 0 .. PortRange - 1
    BY StartupAssumption
  <2> QED
    BY <1>1, <2>1, <2>2 DEF convertStrToLong
<1> QED
  BY <1>2, StartupAssumption DEF htons

\* Even past the end of the arguments a token is found.
LEMMA ArgumentTypes ==
    ASSUME arguments \in Seq(Tokens), NEW i \in Nat
    PROVE  Argument(i) \subseteq Tokens
<1>1. CASE i < Len(arguments)
  <2>1. i + 1 \in DOMAIN arguments
    BY <1>1
  <2>2. arguments[i + 1] \in Tokens
    BY <2>1
  <2> QED
    BY <1>1, <2>2 DEF Argument
<1>2. CASE ~(i < Len(arguments))
  <2>1. \A w \in {"-c", "-s", "other"} : [NoToken EXCEPT !.text = w] \in Tokens
    BY DEF Tokens, Words, NoToken
  <2> QED
    BY <1>2, <2>1 DEF Argument
<1> QED
  BY <1>1, <1>2

\* What TypeOK needs of the places before the ports are used.
AssignedInv ==
    /\ pc \in {"socket", "source", "bind", "dest"} => src_port # Unset
    /\ pc = "dest" => dest_port # Unset /\ m_socket_address_src # Unset
    /\ pc = "bind" => m_socket_address_src # Unset
    /\ pc \in {"socket", "source", "bind"} /\ transport_type = CLIENT => dest_port # Unset

TypeInv == TypeOK /\ AssignedInv

LEMMA AcceptedTypes == ASSUME TypeInv, Accepted PROVE TypeInv'
<1> USE DEF CLIENT, SERVER, TCP, SCTP, Threads, Exits, Alone, Unset
<1>1. Argument(3) \subseteq Tokens /\ Argument(5) \subseteq Tokens
      /\ Argument(7) \subseteq Tokens /\ Argument(9) \subseteq Tokens
  BY ArgumentTypes DEF TypeInv, TypeOK
<1>2. PICK role \in Argument(1), address \in Argument(3), port \in Argument(5) :
          /\ src_address' = address
          /\ src_port' = convertStrToLong(port)
          /\ IF IsClient(role)
               THEN \E dest \in Argument(7), its_port \in Argument(9) :
                       /\ transport_type' = CLIENT
                       /\ dest_address' = dest
                       /\ dest_port' = convertStrToLong(its_port)
               ELSE transport_type' = SERVER /\ UNCHANGED <<dest_address, dest_port>>
  BY DEF Accepted
<1>3. src_address' \in Tokens /\ src_port' \in 0 .. PortRange - 1
  BY <1>1, <1>2, ConversionTypes
<1>4. /\ transport_type' \in {CLIENT, SERVER}
      /\ dest_address' \in Tokens
      /\ dest_port' \in {Unset} \cup 0 .. PortRange - 1
      /\ transport_type' = CLIENT => dest_port' \in 0 .. PortRange - 1
  <2>1. CASE IsClient(role)
    BY <1>1, <1>2, <2>1, ConversionTypes
  <2>2. CASE ~IsClient(role)
    BY <1>2, <2>2 DEF TypeInv, TypeOK
  <2> QED
    BY <2>1, <2>2
<1>5. pc' = "socket" /\ protocol' \in {TCP, SCTP} /\ UNCHANGED <<arguments, addresses>>
  BY DEF Accepted
<1> QED
  BY <1>3, <1>4, <1>5, StartupAssumption DEF TypeInv, TypeOK, AssignedInv, addresses

\* Every step of start-up keeps TypeInv.
LEMMA TypeInvInductive == TypeInv /\ PlacesInv /\ [Next]_vars => TypeInv'
<1> SUFFICES ASSUME TypeInv, PlacesInv, [Next]_vars PROVE TypeInv'
  OBVIOUS
<1> USE StartupAssumption
    DEF TypeInv, TypeOK, AssignedInv, Threads, Exits, Alone, Unset, values, addresses
<1>1. CASE Accepted
  BY <1>1, AcceptedTypes
<1>2. CASE Rejected \/ ReadsPastEnd
  BY <1>2 DEF Rejected, ReadsPastEnd
<1>3. CASE CreateSocket
  BY <1>3 DEF CreateSocket, Exit
<1>4. CASE SourceAddress
  <2>1. src_port \in Int
    OBVIOUS
  <2>2. htons(src_port) \in 0 .. WireRange - 1
    BY <2>1, ConversionTypes
  <2> QED
    BY <1>4, <2>2 DEF SourceAddress, Exit
<1>5. CASE Bind
  BY <1>5 DEF Bind, Starts, Exit
<1>6. CASE DestAddress
  <2>1. dest_port \in Int
    OBVIOUS
  <2>2. htons(dest_port) \in 0 .. WireRange - 1
    BY <2>1, ConversionTypes
  <2> QED
    BY <1>6, <2>2 DEF DestAddress, Starts, Exit
<1>7. CASE Done \/ UNCHANGED vars
  BY <1>7 DEF Done, vars
<1> QED
  BY <1>1, <1>2, <1>3, <1>4, <1>5, <1>6, <1>7 DEF Next

\* Whatever is typed, every value of start-up has its type: no port is used before it
\* is assigned, none is wider than its variable.
THEOREM TypeCorrect == Spec => []TypeOK
<1>1. Init => TypeInv /\ StartInv
  BY StartupAssumption
     DEF Init, TypeInv, TypeOK, AssignedInv, StartInv, ArgumentsInv, PlacesInv, Threads,
         Exits, Alone, CLIENT, SERVER, TCP, SCTP, NoToken, Tokens, Words, Unset
<1>2. StartInv => PlacesInv
  BY DEF StartInv
<1>3. TypeInv => TypeOK
  BY DEF TypeInv
<1> QED
  BY <1>1, <1>2, <1>3, StartInductive, TypeInvInductive, PTL DEF Spec

\* Three conversions, one after the other, come to one, from what is typed to the wire.
LEMMA OneConversion ==
    ASSUME NEW t \in Tokens
    PROVE  htons(convertStrToLong(t)) =
               IF t.number \in -LongLongRange + 1 .. LongLongRange - 1
                 THEN t.number % WireRange
                 ELSE WireRange - 1
<1> DEFINE n == t.number
<1>1. n \in Int
  BY DEF Tokens
<1>2. /\ LongLongRange \in Nat \ {0} /\ PortRange \in Nat \ {0} /\ WireRange \in Nat \ {0}
      /\ LongLongRange % PortRange = 0 /\ PortRange % WireRange = 0
  BY StartupAssumption
<1>3. ASSUME NEW m \in Int PROVE (m % PortRange) % WireRange = m % WireRange
  BY <1>2, RemainderOfRemainder
<1>4. CASE n \in -LongLongRange + 1 .. LongLongRange - 1
  <2>1. strtoull(n) = n % LongLongRange
    BY <1>1, <1>2, <1>4 DEF strtoull
  <2>2. (n % LongLongRange) % PortRange = n % PortRange
    BY <1>1, <1>2, RemainderOfRemainder
  <2> QED
    BY <1>1, <1>3, <1>4, <2>1, <2>2 DEF htons, convertStrToLong
<1>5. CASE n \notin -LongLongRange + 1 .. LongLongRange - 1
  <2>1. strtoull(n) = LongLongRange - 1
    BY <1>1, <1>2, <1>5 DEF strtoull
  <2>2. (LongLongRange - 1) % PortRange = PortRange - 1
    BY <1>2, LastRemainder
  <2>3. (PortRange - 1) % WireRange = WireRange - 1
    BY <1>2, LastRemainder
  <2> QED
    BY <1>5, <2>1, <2>2, <2>3 DEF htons, convertStrToLong
<1> QED
  BY <1>4, <1>5

\* Where the ports in use come from.
PortsInv ==
    /\ pc \in {"socket", "source", "bind", "dest"} \cup Threads =>
           /\ Typed(5) \in Tokens /\ src_port = convertStrToLong(Typed(5))
           /\ transport_type = CLIENT =>
                  Typed(9) \in Tokens /\ dest_port = convertStrToLong(Typed(9))
    /\ PortsAsTyped
    /\ pc = "validate" => m_socket_address_src = Unset /\ m_socket_address_dest = Unset

\* Every step of start-up keeps PortsInv.
LEMMA PortsInvInductive == TypeInv /\ PlacesInv /\ PortsInv /\ [Next]_vars => PortsInv'
<1> SUFFICES ASSUME TypeInv, PlacesInv, PortsInv, [Next]_vars PROVE PortsInv'
  OBVIOUS
<1> USE DEF PortsInv, PortsAsTyped, Port, Typed, Threads, Alone, CLIENT, SERVER,
            values, addresses
<1>1. CASE Accepted
  <2>1. PICK role \in Argument(1), port \in Argument(5) :
            /\ RightCount(role)
            /\ src_port' = convertStrToLong(port)
            /\ IF IsClient(role)
                 THEN \E its_port \in Argument(9) : dest_port' = convertStrToLong(its_port)
                 ELSE transport_type' = SERVER
    BY <1>1 DEF Accepted
  <2>2. /\ pc = "validate" /\ pc' = "socket"
        /\ arguments' = arguments /\ UNCHANGED addresses /\ arguments \in Seq(Tokens)
    BY <1>1 DEF Accepted, TypeInv, TypeOK
  <2>3. port = arguments[6] /\ arguments[6] \in Tokens
    <3>1. Len(arguments) = 10 \/ Len(arguments) = 6
      BY <2>1 DEF RightCount
    <3> QED
      BY <2>1, <2>2, <3>1, ArgumentTypes DEF Argument
  <2>4. transport_type' = CLIENT =>
            arguments[10] \in Tokens /\ dest_port' = convertStrToLong(arguments[10])
    <3> SUFFICES ASSUME transport_type' = CLIENT
                 PROVE  arguments[10] \in Tokens /\ dest_port' = convertStrToLong(arguments[10])
      OBVIOUS
    <3>1. IsClient(role)
      BY <2>1
    <3>2. PICK its_port \in Argument(9) : dest_port' = convertStrToLong(its_port)
      BY <2>1, <3>1
    <3>3. Len(arguments) = 10
      BY <2>1, <3>1 DEF RightCount, IsClient
    <3>4. Argument(9) = {arguments[10]}
      BY <3>3 DEF Argument
    <3>5. Argument(9) \subseteq Tokens
      BY <2>2, ArgumentTypes
    <3> QED
      BY <3>2, <3>4, <3>5
  <2> QED
    BY <2>1, <2>2, <2>3, <2>4
<1>2. CASE Rejected \/ ReadsPastEnd
  BY <1>2 DEF Rejected, ReadsPastEnd
<1>3. CASE CreateSocket
  BY <1>3 DEF CreateSocket, Exit
<1>4. CASE SourceAddress
  <2>1. htons(src_port) = Port(5)
    BY <1>4, OneConversion DEF SourceAddress
  <2> QED
    BY <1>4, <2>1 DEF SourceAddress, Exit
<1>5. CASE Bind
  BY <1>5 DEF Bind, Starts, Exit
<1>6. CASE DestAddress
  <2>1. htons(dest_port) = Port(9)
    BY <1>6, OneConversion DEF DestAddress, PlacesInv
  <2> QED
    BY <1>6, <2>1 DEF DestAddress, Starts, Exit
<1>7. CASE Done \/ UNCHANGED vars
  BY <1>7 DEF Done, vars
<1> QED
  BY <1>1, <1>2, <1>3, <1>4, <1>5, <1>6, <1>7 DEF Next

\* For any number typed and any three ranges: the port used is the number typed, cut to
\* the range of the wire, or the largest port if strtoull finds it too long.
THEOREM PortsAreAsTyped == Spec => []PortsAsTyped
<1>1. Init => TypeInv /\ StartInv /\ PortsInv
  BY StartupAssumption
     DEF Init, TypeInv, TypeOK, AssignedInv, StartInv, ArgumentsInv, PlacesInv, PortsInv,
         PortsAsTyped, Threads, Exits, Alone, CLIENT, SERVER, TCP, SCTP, NoToken, Tokens,
         Words, Unset
<1>2. StartInv => PlacesInv
  BY DEF StartInv
<1>3. PortsInv => PortsAsTyped
  BY DEF PortsInv
<1> QED
  BY <1>1, <1>2, <1>3, StartInductive, TypeInvInductive, PortsInvInductive, PTL DEF Spec

===============================================================================
