------------------------------- MODULE MessageIO -------------------------------
(***************************************************************************)
(* send_message at one end of an established TCP connection and            *)
(* receive_message at the other.  The code's callers (socketsender.cpp,    *)
(* socketreceiver.cpp) are commented out, or in a loop that does not run:  *)
(* the model makes the calls they would make, for one direction of the     *)
(* connection.  The client's socket is non-blocking; the server's accepted *)
(* ones are not.                                                           *)
(*                                                                         *)
(* A byte is <<m, i>>, the i-th one of message m.  The kernel's stream is  *)
(* the sequence of all bytes it ever took and a count of those it gave.    *)
(***************************************************************************)
EXTENDS Integers, Sequences

CONSTANTS
    ClientLength,   \* length the client passes to send_message (14)
    ServerLength,   \* length the server passes to it (13)
    ReceiveLength,  \* length both pass to receive_message (13)
    Calls,          \* bound: calls of send_message
    Capacity,       \* bytes the kernel holds between the two ends
    Leftovers,      \* what a failed send_to_socket may leave in the return
                    \* register, as the build decides: "positive", "negative"
    Faults          \* external faults that may occur, see FaultKinds

\* signal: EINTR; poll: poll() fails or reports neither POLLIN nor POLLOUT;
\* reset: the connection is reset; kill: the sending process is killed.
FaultKinds == {"signal", "poll", "reset", "kill"}

ASSUME MessageIOAssumption ==
    /\ ClientLength \in Nat \ {0} /\ ServerLength \in Nat \ {0}
    /\ ReceiveLength \in Nat \ {0}
    /\ Calls \in Nat /\ Capacity \in Nat \ {0}
    /\ Leftovers \subseteq {"positive", "negative"} /\ Leftovers # {}
    /\ Faults \subseteq FaultKinds

VARIABLES
    client,    \* what the client does: "sends" or "receives"
    link,      \* "up"; "closed" by the sender's end; "reset"
    wire,      \* the bytes the kernel took, in order
    taken,     \* how many of them it gave to recv()
    sender,    \* where send_message is
    msg,       \* number of the message in progress, or of the last one
    out,       \* how far out_message has advanced
    n_left,    \* bytes left, below zero when a failed send counted as a success
    sentOk,    \* what the last send_message returned
    receiver,  \* where receive is
    r_left,    \* n_left of receive
    data,      \* how far its data pointer has advanced
    buffer,    \* the caller's buffer
    recvOk,    \* what the last receive_message returned
    received,  \* history: the buffers of the calls that returned true
    part       \* history: whether a call moved a part of a message only

net == <<client, link>>
sending == <<sender, msg, out, n_left, sentOk>>
receiving == <<receiver, r_left, data, buffer, recvOk, received>>
vars == <<net, wire, taken, sending, receiving, part>>

Blank == <<0, 0>>
BlankBuffer == [i \in 1..ReceiveLength |-> Blank]

\* Length of the messages in this direction.
Length == IF client = "sends" THEN ClientLength ELSE ServerLength

Bytes == (1..Calls) \X (1..Length)

TypeOK ==
    /\ client \in {"sends", "receives"}
    /\ link \in {"up", "closed", "reset"}
    /\ wire \in Seq(Bytes)
    /\ taken \in 0..Len(wire)
    /\ sender \in {"idle", "send", "poll", "gone"}
    /\ msg \in 0..Calls
    /\ out \in 0..Length
    /\ n_left \in -1..Length
    /\ sentOk \in {"none", "true", "false"}
    /\ receiver \in {"idle", "recv", "poll", "gone"}
    /\ r_left \in 0..ReceiveLength
    /\ data \in 0..ReceiveLength
    /\ buffer \in [1..ReceiveLength -> Bytes \cup {Blank}]
    /\ recvOk \in {"none", "true", "false"}
    /\ received \in Seq([1..ReceiveLength -> Bytes \cup {Blank}])
    /\ part \in {"no", "yes"}

Init ==
    /\ client \in {"sends", "receives"}
    /\ link = "up"
    /\ wire = <<>>
    /\ taken = 0
    /\ sender = "idle"
    /\ msg = 0
    /\ out = 0
    /\ n_left = 0
    /\ sentOk = "none"
    /\ receiver = "idle"
    /\ r_left = 0
    /\ data = 0
    /\ buffer = BlankBuffer
    /\ recvOk = "none"
    /\ received = <<>>
    /\ part = "no"

\* What the kernel holds, and what it still has room for.
Held == Len(wire) - taken
Room == Capacity - Held

\* A call that ends with k of n bytes moved leaves a part of a message behind.
LeavesPart(k, n) == part' = IF k \in {0, n} THEN part ELSE "yes"

-------------------------------------------------------------------------------
(* send_message and send_to_socket. *)

SendMessage ==
    /\ sender = "idle"
    /\ link # "closed" /\ msg < Calls
    /\ sender' = "send"
    /\ msg' = msg + 1
    /\ out' = 0
    /\ n_left' = Length
    /\ sentOk' = "none"
    /\ UNCHANGED <<net, wire, taken, receiving, part>>

SendReturns(result) == sender' = "idle" /\ sentOk' = result

\* Mutant: out_message is not advanced after a short send.
SendChunkInPlace ==
    /\ sender = "send"
    /\ link = "up"
    /\ \E k \in 1..n_left :
          /\ k <= Room
          /\ wire' = wire \o [i \in 1..k |-> <<msg, i>>]
          /\ n_left' = n_left - k
          /\ IF n_left = k THEN SendReturns("true") ELSE UNCHANGED <<sender, sentOk>>
    /\ out' = Length - n_left'
    /\ UNCHANGED <<net, taken, msg, receiving, part>>

\* send() takes k bytes, and its count is still in the return register.
SendChunk ==
    /\ sender = "send"
    /\ link = "up"
    /\ \E k \in 1..n_left :
          /\ k <= Room
          /\ wire' = wire \o [i \in 1..k |-> <<msg, out + i>>]
          /\ out' = out + k
          /\ n_left' = n_left - k
          /\ IF n_left = k THEN SendReturns("true") ELSE UNCHANGED <<sender, sentOk>>
    /\ UNCHANGED <<net, taken, msg, receiving, part>>

\* The errors send() may report: only a non-blocking socket would block, and only
\* a wait is interrupted.
SendError(err) ==
    /\ sender = "send"
    /\ \/ err = "EAGAIN" /\ link = "up" /\ Room = 0 /\ client = "sends"
       \/ err = "EINTR" /\ link = "up" /\ Room = 0 /\ client = "receives"
             /\ "signal" \in Faults
       \/ err = "ECONNRESET" /\ link = "reset"

\* send_to_socket returns nothing of its own: a leftover above zero (an address, far
\* above any length) counts as bytes sent and ends the loop.
SendErrorTaken ==
    /\ "positive" \in Leftovers
    /\ \E err \in {"EAGAIN", "EINTR", "ECONNRESET"} : SendError(err)
    /\ n_left' = -1
    /\ SendReturns("true")
    /\ LeavesPart(out, Length)
    /\ UNCHANGED <<net, wire, taken, msg, out, receiving>>

\* A leftover below zero leads to the branches on err.
SendInterrupted ==
    /\ "negative" \in Leftovers
    /\ SendError("EINTR")
    /\ UNCHANGED vars

SendWouldBlock ==
    /\ "negative" \in Leftovers
    /\ SendError("EAGAIN")
    /\ sender' = "poll"
    /\ UNCHANGED <<net, wire, taken, msg, out, n_left, sentOk, receiving, part>>

SendFails ==
    /\ "negative" \in Leftovers
    /\ SendError("ECONNRESET")
    /\ SendReturns("false")
    /\ LeavesPart(out, Length)
    /\ UNCHANGED <<net, wire, taken, msg, out, n_left, receiving>>

\* Writable, or in error, which also polls as writable.
SendPollReady ==
    /\ sender = "poll"
    /\ Room > 0 \/ link = "reset"
    /\ sender' = "send"
    /\ UNCHANGED <<net, wire, taken, msg, out, n_left, sentOk, receiving, part>>

SendPollInterrupted ==
    /\ sender = "poll"
    /\ "signal" \in Faults
    /\ sender' = "send"
    /\ UNCHANGED <<net, wire, taken, msg, out, n_left, sentOk, receiving, part>>

\* Mutant: after a timeout poll() is called again.
SendPollWaitsOn ==
    /\ sender = "poll"
    /\ Room = 0 /\ link = "up"
    /\ UNCHANGED vars

\* One second has passed, or poll() fails.
SendPollFails ==
    /\ sender = "poll"
    /\ (Room = 0 /\ link = "up") \/ "poll" \in Faults
    /\ SendReturns("false")
    /\ LeavesPart(out, Length)
    /\ UNCHANGED <<net, wire, taken, msg, out, n_left, receiving>>

-------------------------------------------------------------------------------
(* receive_message, receive and receive_from_socket. *)

\* The caller waits for EPOLLIN first.
ReceiveMessage ==
    /\ receiver = "idle"
    /\ Held > 0 \/ link # "up"
    /\ receiver' = "recv"
    /\ r_left' = ReceiveLength
    /\ data' = 0
    /\ buffer' = BlankBuffer
    /\ recvOk' = "none"
    /\ UNCHANGED <<net, wire, taken, sending, received, part>>

\* Mutant: the bytes read are not removed from the stream.
RecvPeeks ==
    /\ receiver = "recv"
    /\ \E k \in 1..r_left :
          /\ k <= Held
          /\ buffer' = [i \in 1..ReceiveLength |->
                IF i \in data + 1 .. data + k THEN wire[taken + i - data] ELSE buffer[i]]
          /\ data' = data + k
          /\ r_left' = r_left - k
          /\ IF r_left = k
               THEN /\ receiver' = "idle" /\ recvOk' = "true"
                    /\ received' = Append(received, buffer')
               ELSE UNCHANGED <<receiver, recvOk, received>>
    /\ UNCHANGED <<net, wire, taken, sending, part>>

\* Mutant: the data pointer is not advanced after a short read.
RecvChunkInPlace ==
    /\ receiver = "recv"
    /\ \E k \in 1..r_left :
          /\ k <= Held
          /\ buffer' = [i \in 1..ReceiveLength |->
                IF i \in 1..k THEN wire[taken + i] ELSE buffer[i]]
          /\ taken' = taken + k
          /\ data' = data + k
          /\ r_left' = r_left - k
          /\ IF r_left = k
               THEN /\ receiver' = "idle" /\ recvOk' = "true"
                    /\ received' = Append(received, buffer')
               ELSE UNCHANGED <<receiver, recvOk, received>>
    /\ UNCHANGED <<net, wire, sending, part>>

\* recv() gives k bytes, also after a reset if they had come before it; receive
\* returns once the buffer is full.
RecvChunk ==
    /\ receiver = "recv"
    /\ \E k \in 1..r_left :
          /\ k <= Held
          /\ buffer' = [i \in 1..ReceiveLength |->
                IF i \in data + 1 .. data + k THEN wire[taken + i - data] ELSE buffer[i]]
          /\ taken' = taken + k
          /\ data' = data + k
          /\ r_left' = r_left - k
          /\ IF r_left = k
               THEN /\ receiver' = "idle" /\ recvOk' = "true"
                    /\ received' = Append(received, buffer')
               ELSE UNCHANGED <<receiver, recvOk, received>>
    /\ UNCHANGED <<net, wire, sending, part>>

\* End of the stream, or a reset, which may have taken bytes still on their way:
\* exit(0), with what was read of the message.
RecvExits ==
    /\ receiver = "recv"
    /\ link = "reset" \/ (link = "closed" /\ Held = 0)
    /\ receiver' = "gone"
    /\ LeavesPart(data, ReceiveLength)
    /\ UNCHANGED <<net, wire, taken, sending, r_left, data, buffer, recvOk, received>>

RecvInterrupted ==
    /\ receiver = "recv"
    /\ client = "sends" /\ Held = 0 /\ link = "up"
    /\ "signal" \in Faults
    /\ UNCHANGED vars

RecvWouldBlock ==
    /\ receiver = "recv"
    /\ client = "receives" /\ Held = 0 /\ link = "up"
    /\ receiver' = "poll"
    /\ UNCHANGED <<net, wire, taken, sending, r_left, data, buffer, recvOk, received,
                   part>>

RecvPollReady ==
    /\ receiver = "poll"
    /\ Held > 0 \/ link # "up"
    /\ receiver' = "recv"
    /\ UNCHANGED <<net, wire, taken, sending, r_left, data, buffer, recvOk, received,
                   part>>

RecvPollInterrupted ==
    /\ receiver = "poll"
    /\ "signal" \in Faults
    /\ receiver' = "recv"
    /\ UNCHANGED <<net, wire, taken, sending, r_left, data, buffer, recvOk, received,
                   part>>

\* Mutant: the loop is not left, and the -1 is taken for a count.
RecvCountsFailure ==
    /\ receiver = "poll"
    /\ (Held = 0 /\ link = "up") \/ "poll" \in Faults
    /\ receiver' = "recv"
    /\ r_left' = r_left + 1
    /\ data' = data - 1
    /\ UNCHANGED <<net, wire, taken, sending, buffer, recvOk, received, part>>

\* One second has passed, or poll() fails: what was read stays read.
RecvPollFails ==
    /\ receiver = "poll"
    /\ (Held = 0 /\ link = "up") \/ "poll" \in Faults
    /\ receiver' = "idle"
    /\ recvOk' = "false"
    /\ LeavesPart(data, ReceiveLength)
    /\ UNCHANGED <<net, wire, taken, sending, r_left, data, buffer, received>>

-------------------------------------------------------------------------------
(* The connection and the processes. *)

\* The sending process ends, between two calls or inside one.
Killed ==
    /\ sender # "gone"
    /\ "kill" \in Faults
    /\ sender' = "gone"
    /\ link' = IF link = "up" THEN "closed" ELSE link
    /\ IF sender = "idle" THEN UNCHANGED part ELSE LeavesPart(out, Length)
    /\ UNCHANGED <<client, wire, taken, msg, out, n_left, sentOk, receiving>>

\* A send after the reset was reported raises SIGPIPE; so may the first one.
BrokenPipe ==
    /\ sender = "send"
    /\ link = "reset"
    /\ sender' = "gone"
    /\ LeavesPart(out, Length)
    /\ UNCHANGED <<net, wire, taken, msg, out, n_left, sentOk, receiving>>

\* By the network, or because the receiving process is gone; what the kernel held
\* may be lost.
Reset ==
    /\ link # "reset"
    /\ "reset" \in Faults \/ receiver = "gone"
    /\ link' = "reset"
    /\ UNCHANGED <<client, wire, taken, sending, receiving, part>>

\* Every message has been sent, or nobody is left to send one.
Done ==
    /\ (sender = "idle" /\ msg = Calls) \/ sender = "gone"
    /\ UNCHANGED vars

-------------------------------------------------------------------------------

InSend ==
    \/ SendChunk \/ SendErrorTaken \/ SendWouldBlock \/ SendFails
    \/ SendPollReady \/ SendPollFails \/ BrokenPipe

InReceive ==
    \/ RecvChunk \/ RecvExits \/ RecvWouldBlock
    \/ RecvPollReady \/ RecvPollFails

Interrupted ==
    \/ SendInterrupted \/ SendPollInterrupted
    \/ RecvInterrupted \/ RecvPollInterrupted

Next ==
    \/ SendMessage \/ InSend
    \/ ReceiveMessage \/ InReceive
    \/ Interrupted \/ Killed \/ Reset \/ Done

Spec == Init /\ [][Next]_vars

\* A call that has begun is run on; nobody owes another call.
FairSpec == Spec /\ WF_vars(InSend) /\ WF_vars(InReceive)

-------------------------------------------------------------------------------
(* Properties. *)

\* The bytes of message m are on the wire, in order and with nothing between them.
Whole(m) ==
    \E j \in 0 .. Len(wire) - Length : \A i \in 1..Length : wire[j + i] = <<m, i>>

\* A comment of send_message says that "the send will come out only on sending the
\* expected number of bytes of data or on timeout": true means sent.
TrueMeansSent == sentOk = "true" => Whole(msg)

\* What a result of true is worth: the message is on the wire unless the count of
\* bytes left has gone below zero, and then, whatever send() reported, it is not.
TrueUnlessOvercounted == sentOk = "true" => (Whole(msg) <=> n_left = 0)

\* A receive_message that returns true has filled the caller's buffer with the next
\* bytes of the stream, however recv() and poll() have cut it into chunks.
TrueMeansFilled ==
    recvOk = "true" =>
        /\ taken >= ReceiveLength
        /\ \A i \in 1..ReceiveLength : buffer[i] = wire[taken - ReceiveLength + i]

\* A call of the client, whose socket does not block, returns, exits or ends with
\* its process, unless signals interrupt it again and again.
ClientCallsReturn ==
    \/ []<><<SendPollInterrupted \/ RecvPollInterrupted>>_vars
    \/ /\ client = "sends" => []<>(sender \in {"idle", "gone"})
       /\ client = "receives" => []<>(receiver \in {"idle", "gone"})

\* The message that some bytes are, 0 when they are no message or parts of several.
MessageOf(b) ==
    IF \A i \in DOMAIN b : b[i] = <<b[1][1], i>> THEN b[1][1] ELSE 0

\* The k-th Length bytes of the stream.
Block(k) == [i \in 1..Length |-> wire[(k - 1) * Length + i]]

Queue == INSTANCE MessageQueue WITH
    Messages <- 1..Calls,
    posted <- [k \in 1 .. Len(wire) \div Length |-> MessageOf(Block(k))],
    fetched <- [k \in DOMAIN received |-> MessageOf(received[k])],
    mode <- IF part = "no" /\ Length = ReceiveLength THEN "whole" ELSE "partial"

\* As long as both ends use the same length and no call has ended with a part of a
\* message moved, the two functions implement a queue: what receive_message returns
\* are the messages that were sent whole, in order, each once.
MessagesInOrder == Queue!Spec

===============================================================================
