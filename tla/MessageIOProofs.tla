---------------------------- MODULE MessageIOProofs ----------------------------
(***************************************************************************)
(* Proofs about MessageIO: what the results of send_message and            *)
(* receive_message are worth, for messages of any length, a kernel of any  *)
(* capacity and any faults.                                                *)
(***************************************************************************)
EXTENDS MessageIO, Arithmetic, SequenceTheorems

-------------------------------------------------------------------------------
(* Lengths and counts. *)

LEMMA LengthType == Length \in Nat \ {0}
BY MessageIOAssumption DEF Length

\* A call in progress has some of its message behind it and some to go.
CountInv ==
    /\ sender \in {"send", "poll"} => msg > 0 /\ out < Length /\ n_left = Length - out
    /\ receiver \in {"recv", "poll"} =>
           data < ReceiveLength /\ r_left = ReceiveLength - data

TypeInv == TypeOK /\ CountInv

\* The direction does not change, so neither do the lengths.
LEMMA DirectionStays ==
    ASSUME [Next]_vars
    PROVE  client' = client /\ Length' = Length /\ Bytes' = Bytes
<1>1. client' = client
  BY DEF Next, vars, net, SendMessage, InSend, SendChunk, SendErrorTaken, SendWouldBlock,
         SendFails, SendPollReady, SendPollFails, BrokenPipe, ReceiveMessage, InReceive,
         RecvChunk, RecvExits, RecvWouldBlock, RecvPollReady, RecvPollFails, Interrupted,
         SendInterrupted, SendPollInterrupted, RecvInterrupted, RecvPollInterrupted,
         Killed, Reset, Done
<1> QED
  BY <1>1 DEF Length, Bytes

\* What one send() that takes bytes does to the stream and to the counts.
LEMMA ChunkSent ==
    ASSUME TypeInv, SendChunk
    PROVE  \E k \in 1..n_left :
               /\ wire' \in Seq(Bytes)
               /\ Len(wire') = Len(wire) + k
               /\ \A j \in 1..Len(wire) : wire'[j] = wire[j]
               /\ \A i \in 1..k : wire'[Len(wire) + i] = <<msg, out + i>>
               /\ out' = out + k
               /\ n_left' = n_left - k
               /\ IF n_left = k THEN SendReturns("true") ELSE UNCHANGED <<sender, sentOk>>
<1>1. PICK k \in 1..n_left :
          /\ wire' = wire \o [i \in 1..k |-> <<msg, out + i>>]
          /\ out' = out + k
          /\ n_left' = n_left - k
          /\ IF n_left = k THEN SendReturns("true") ELSE UNCHANGED <<sender, sentOk>>
  BY DEF SendChunk
<1> DEFINE chunk == [i \in 1..k |-> <<msg, out + i>>]
<1>2. /\ k \in Nat /\ wire \in Seq(Bytes) /\ Len(wire) \in Nat
      /\ msg \in 1..Calls /\ out \in Nat /\ out + k <= Length
  BY LengthType, MessageIOAssumption DEF TypeInv, TypeOK, CountInv, SendChunk
<1>3. \A i \in 1..k : <<msg, out + i>> \in Bytes
  BY <1>2, LengthType DEF Bytes
<1>4. chunk \in Seq(Bytes) /\ Len(chunk) = k
  BY <1>2, <1>3
<1>5. \A i \in 1..k : chunk[i] = <<msg, out + i>>
  OBVIOUS
<1> HIDE DEF chunk
<1>6. /\ wire \o chunk \in Seq(Bytes)
      /\ Len(wire \o chunk) = Len(wire) + k
      /\ \A j \in 1..Len(wire) : (wire \o chunk)[j] = wire[j]
      /\ \A i \in 1..k : (wire \o chunk)[Len(wire) + i] = chunk[i]
  BY <1>2, <1>4
<1>7. wire' = wire \o chunk
  BY <1>1 DEF chunk
<1> QED
  BY <1>1, <1>5, <1>6, <1>7

\* No step takes back what is on the wire, or what was taken from it.
LEMMA WireGrows ==
    ASSUME TypeInv, [Next]_vars
    PROVE  /\ Len(wire') \in Nat /\ Len(wire') >= Len(wire)
           /\ \A j \in 1..Len(wire) : wire'[j] = wire[j]
<1>0. wire \in Seq(Bytes) /\ Len(wire) \in Nat
  BY DEF TypeInv, TypeOK
<1>1. CASE SendChunk
  <2>1. PICK k \in 1..n_left :
            /\ Len(wire') = Len(wire) + k
            /\ \A j \in 1..Len(wire) : wire'[j] = wire[j]
    BY <1>1, ChunkSent
  <2> QED
    BY <1>0, <2>1
<1>2. CASE UNCHANGED wire
  BY <1>0, <1>2
<1>3. SendChunk \/ UNCHANGED wire
  BY DEF Next, vars, SendMessage, InSend, SendErrorTaken, SendWouldBlock,
         SendFails, SendPollReady, SendPollFails, BrokenPipe, ReceiveMessage, InReceive,
         RecvChunk, RecvExits, RecvWouldBlock, RecvPollReady, RecvPollFails, Interrupted,
         SendInterrupted, SendPollInterrupted, RecvInterrupted, RecvPollInterrupted,
         Killed, Reset, Done
<1> QED
  BY <1>1, <1>2, <1>3

\* What one recv() that gives bytes does to the buffer and to the counts.
LEMMA ChunkTaken ==
    ASSUME TypeInv, RecvChunk
    PROVE  \E k \in 1..r_left :
               /\ k <= Len(wire) - taken
               /\ buffer' \in [1..ReceiveLength -> Bytes \cup {Blank}]
               /\ \A i \in 1..ReceiveLength :
                      buffer'[i] = IF i \in data + 1 .. data + k
                                     THEN wire[taken + i - data] ELSE buffer[i]
               /\ taken' = taken + k
               /\ data' = data + k
               /\ r_left' = r_left - k
               /\ IF r_left = k
                    THEN /\ receiver' = "idle" /\ recvOk' = "true"
                         /\ received' = Append(received, buffer')
                    ELSE UNCHANGED <<receiver, recvOk, received>>
<1>1. PICK k \in 1..r_left :
          /\ k <= Held
          /\ buffer' = [i \in 1..ReceiveLength |->
                IF i \in data + 1 .. data + k THEN wire[taken + i - data] ELSE buffer[i]]
          /\ taken' = taken + k
          /\ data' = data + k
          /\ r_left' = r_left - k
          /\ IF r_left = k
               THEN /\ receiver' = "idle" /\ recvOk' = "true"
                    /\ received' = Append(received, buffer')
               ELSE UNCHANGED <<receiver, recvOk, received>>
  BY DEF RecvChunk
<1>2. /\ k \in Nat /\ wire \in Seq(Bytes) /\ Len(wire) \in Nat
      /\ taken \in Nat /\ data \in Nat
      /\ buffer \in [1..ReceiveLength -> Bytes \cup {Blank}]
  BY MessageIOAssumption DEF TypeInv, TypeOK
<1>3. ASSUME NEW i \in 1..ReceiveLength, i \in data + 1 .. data + k
      PROVE  wire[taken + i - data] \in Bytes
  <2>1. taken + i - data \in 1..Len(wire)
    BY <1>1, <1>2, <1>3 DEF Held
  <2> QED
    BY <1>2, <2>1
<1>4. buffer' \in [1..ReceiveLength -> Bytes \cup {Blank}]
  BY <1>1, <1>2, <1>3
<1>5. \A i \in 1..ReceiveLength :
          buffer'[i] = IF i \in data + 1 .. data + k
                         THEN wire[taken + i - data] ELSE buffer[i]
  BY <1>1
<1> QED
  BY <1>1, <1>4, <1>5 DEF Held

-------------------------------------------------------------------------------
(* Types. *)

\* Every step of the two ends keeps TypeInv.
LEMMA TypeInvInductive == TypeInv /\ [Next]_vars => TypeInv'
<1> SUFFICES ASSUME TypeInv, [Next]_vars PROVE TypeInv'
  OBVIOUS
<1>1. Length \in Nat \ {0} /\ Length' = Length /\ Bytes' = Bytes /\ client' = client
  BY LengthType, DirectionStays
<1>2. BlankBuffer \in [1..ReceiveLength -> Bytes \cup {Blank}]
  BY DEF BlankBuffer
<1> USE <1>1, MessageIOAssumption
    DEF TypeInv, TypeOK, CountInv, net, sending, receiving, LeavesPart, SendReturns
<1>3. CASE SendMessage
  BY <1>3 DEF SendMessage
<1>4. CASE SendChunk
  <2>1. PICK k \in 1..n_left :
            /\ wire' \in Seq(Bytes)
            /\ Len(wire') = Len(wire) + k
            /\ out' = out + k
            /\ n_left' = n_left - k
            /\ IF n_left = k THEN SendReturns("true") ELSE UNCHANGED <<sender, sentOk>>
    BY <1>4, ChunkSent
  <2>2. /\ sender = "send"
        /\ UNCHANGED <<link, taken, msg, receiver, r_left, data, buffer, recvOk, received, part>>
    BY <1>4 DEF SendChunk
  <2> QED
    BY <2>1, <2>2
<1>5. CASE SendErrorTaken
  BY <1>5 DEF SendErrorTaken, SendError
<1>6. CASE SendWouldBlock \/ SendFails
  BY <1>6 DEF SendWouldBlock, SendFails, SendError
<1>7. CASE SendPollReady \/ SendPollFails \/ BrokenPipe
  BY <1>7 DEF SendPollReady, SendPollFails, BrokenPipe
<1>8. CASE ReceiveMessage
  BY <1>2, <1>8 DEF ReceiveMessage
<1>9. CASE RecvChunk
  <2>1. PICK k \in 1..r_left :
            /\ k <= Len(wire) - taken
            /\ buffer' \in [1..ReceiveLength -> Bytes \cup {Blank}]
            /\ taken' = taken + k
            /\ data' = data + k
            /\ r_left' = r_left - k
            /\ IF r_left = k
                 THEN /\ receiver' = "idle" /\ recvOk' = "true"
                      /\ received' = Append(received, buffer')
                 ELSE UNCHANGED <<receiver, recvOk, received>>
    BY <1>9, ChunkTaken
  <2>2. receiver = "recv" /\ UNCHANGED <<link, wire, sender, msg, out, n_left, sentOk, part>>
    BY <1>9 DEF RecvChunk
  <2>3. received' \in Seq([1..ReceiveLength -> Bytes \cup {Blank}])
    <3> DEFINE B == [1..ReceiveLength -> Bytes \cup {Blank}]
    <3>1. buffer' \in B /\ received \in Seq(B) /\ received' \in {received, Append(received, buffer')}
      BY <2>1
    <3> HIDE DEF B
    <3>2. received' \in Seq(B)
      BY <3>1
    <3> QED
      BY <3>2 DEF B
  <2> QED
    BY <2>1, <2>2, <2>3
<1>10. CASE RecvExits \/ RecvWouldBlock
  BY <1>10 DEF RecvExits, RecvWouldBlock
<1>11. CASE RecvPollReady \/ RecvPollFails
  BY <1>11 DEF RecvPollReady, RecvPollFails
<1>12. CASE SendPollInterrupted \/ RecvPollInterrupted
  <2>1. CASE SendPollInterrupted
    BY <2>1 DEF SendPollInterrupted
  <2>2. CASE RecvPollInterrupted
    BY <2>2 DEF RecvPollInterrupted
  <2> QED
    BY <1>12, <2>1, <2>2
<1>13. CASE Killed
  BY <1>13 DEF Killed
<1>14. CASE Reset
  BY <1>14 DEF Reset
<1>15. CASE UNCHANGED vars
  BY <1>15 DEF vars
<1> QED
  BY <1>3, <1>4, <1>5, <1>6, <1>7, <1>8, <1>9, <1>10, <1>11, <1>12, <1>13, <1>14, <1>15
     DEF Next, InSend, InReceive, Interrupted, SendInterrupted, RecvInterrupted, Done

\* TypeInv is an invariant.
LEMMA TypeInvBegins == Init => TypeInv
<1> SUFFICES ASSUME Init PROVE TypeInv
  OBVIOUS
<1>1. Length \in Nat \ {0}
  BY LengthType
<1>2. BlankBuffer \in [1..ReceiveLength -> Bytes \cup {Blank}]
  BY DEF BlankBuffer
<1> QED
  BY <1>1, <1>2, MessageIOAssumption DEF Init, TypeInv, TypeOK, CountInv

LEMMA TypeInvariant == Spec => []TypeInv
BY TypeInvBegins, TypeInvInductive, PTL DEF Spec

\* For messages of any length and a kernel of any capacity: whatever a failed send()
\* leaves in the return register, no count and no pointer leaves its range.
THEOREM TypeCorrect == Spec => []TypeOK
<1>1. TypeInv => TypeOK
  BY DEF TypeInv
<1> QED
  BY <1>1, TypeInvariant, PTL

-------------------------------------------------------------------------------
(* What a result of true is worth to the sender. *)

\* The part of the message in progress that has been sent ends the stream.
EndsStream == out <= Len(wire) /\ \A i \in 1..out : wire[Len(wire) - out + i] = <<msg, i>>

\* TrueUnlessOvercounted alone does not say why the message of an overcounted call is
\* not on the wire: no byte of it beyond out_message is.
StreamInv ==
    /\ sender \in {"send", "poll"} => EndsStream /\ sentOk = "none"
    /\ \A j \in 1..Len(wire) :
           wire[j][1] <= msg /\ (wire[j][1] = msg => wire[j][2] <= out)
    /\ sentOk = "true" => IF n_left = 0 THEN Whole(msg) ELSE out < Length

\* Steps that send nothing and end no call with a result of true.
LEMMA StreamKept ==
    ASSUME StreamInv, Length' = Length, UNCHANGED <<wire, msg, out, n_left>>,
           sentOk' \in {sentOk, "false"},
           sender' \in {"send", "poll"} => sender \in {"send", "poll"} /\ sentOk' = sentOk
    PROVE  StreamInv'
BY DEF StreamInv, EndsStream, Whole

\* A send() that takes bytes goes on where the one before ended.
LEMMA ChunkEndsStream ==
    ASSUME TypeInv, StreamInv, SendChunk
    PROVE  EndsStream' /\ StreamInv'
<1>1. PICK k \in 1..n_left :
          /\ wire' \in Seq(Bytes)
          /\ Len(wire') = Len(wire) + k
          /\ \A j \in 1..Len(wire) : wire'[j] = wire[j]
          /\ \A i \in 1..k : wire'[Len(wire) + i] = <<msg, out + i>>
          /\ out' = out + k
          /\ n_left' = n_left - k
          /\ IF n_left = k THEN SendReturns("true") ELSE UNCHANGED <<sender, sentOk>>
  BY ChunkSent
<1>2. /\ sender = "send" /\ msg' = msg /\ Length' = Length
      /\ k \in Nat /\ Len(wire) \in Nat /\ out \in Nat /\ msg \in Nat
      /\ n_left = Length - out /\ Length \in Nat /\ out <= Len(wire) /\ sentOk = "none"
  BY <1>1, LengthType, MessageIOAssumption
     DEF SendChunk, net, Length, TypeInv, TypeOK, CountInv, StreamInv, EndsStream
<1>3. EndsStream'
  <2>1. out' <= Len(wire')
    BY <1>1, <1>2
  <2>2. ASSUME NEW i \in 1..out' PROVE wire'[Len(wire') - out' + i] = <<msg', i>>
    <3>1. Len(wire') - out' + i = Len(wire) - out + i /\ i \in Nat /\ i >= 1
      BY <1>1, <1>2
    <3>2. CASE i <= out
      <4>1. Len(wire) - out + i \in 1..Len(wire) /\ i \in 1..out
        BY <1>2, <3>1, <3>2
      <4>2. wire[Len(wire) - out + i] = <<msg, i>>
        BY <1>2, <4>1 DEF StreamInv, EndsStream
      <4>3. wire'[Len(wire) - out + i] = wire[Len(wire) - out + i]
        BY <1>1, <4>1
      <4> QED
        BY <1>2, <3>1, <4>2, <4>3
    <3>3. CASE i > out
      <4>1. i - out \in 1..k
        BY <1>1, <1>2, <3>3
      <4>2. wire'[Len(wire) + (i - out)] = <<msg, out + (i - out)>>
        BY <1>1, <4>1
      <4>3. Len(wire) + (i - out) = Len(wire) - out + i /\ out + (i - out) = i
        BY <1>1, <1>2
      <4> QED
        BY <1>2, <3>1, <4>2, <4>3
    <3> QED
      BY <1>1, <1>2, <3>2, <3>3
  <2> QED
    BY <2>1, <2>2 DEF EndsStream
<1>4. ASSUME NEW j \in 1..Len(wire')
      PROVE  wire'[j][1] <= msg' /\ (wire'[j][1] = msg' => wire'[j][2] <= out')
  <2>1. CASE j <= Len(wire)
    <3>1. j \in 1..Len(wire) /\ wire'[j] = wire[j]
      BY <1>1, <1>2, <2>1
    <3>2. wire[j] \in Bytes
      BY <3>1 DEF TypeInv, TypeOK
    <3>3. wire[j][2] \in Nat
      BY <1>2, <3>2 DEF Bytes
    <3> QED
      BY <1>1, <1>2, <3>1, <3>3 DEF StreamInv
  <2>2. CASE j > Len(wire)
    <3>1. j - Len(wire) \in 1..k
      BY <1>1, <1>2, <2>2
    <3>2. wire'[Len(wire) + (j - Len(wire))] = <<msg, out + (j - Len(wire))>>
      BY <1>1, <3>1
    <3>3. Len(wire) + (j - Len(wire)) = j
      BY <1>2
    <3> QED
      BY <1>1, <1>2, <3>1, <3>2, <3>3
  <2> QED
    BY <1>1, <1>2, <2>1, <2>2
<1>5. sentOk' = "true" => n_left' = 0 /\ Whole(msg)'
  <2> SUFFICES ASSUME sentOk' = "true" PROVE n_left' = 0 /\ Whole(msg)'
    OBVIOUS
  <2>1. n_left = k
    BY <1>1, <1>2
  <2>2. n_left' = 0 /\ out' = Length'
    BY <1>1, <1>2, <2>1
  <2>3. Len(wire') - Length' \in 0 .. Len(wire') - Length'
    BY <1>1, <1>2, <1>3, <2>2 DEF EndsStream
  <2> QED
    BY <1>3, <2>2, <2>3 DEF EndsStream, Whole
<1>6. sender' \in {"send", "poll"} => sentOk' = "none"
  BY <1>1, <1>2 DEF SendReturns
<1> QED
  BY <1>3, <1>4, <1>5, <1>6 DEF StreamInv

\* Every step of the two ends keeps StreamInv.
LEMMA StreamInvInductive == TypeInv /\ StreamInv /\ [Next]_vars => StreamInv'
<1> SUFFICES ASSUME TypeInv, StreamInv, [Next]_vars PROVE StreamInv'
  OBVIOUS
<1>1. Length' = Length /\ Length \in Nat \ {0}
  BY DirectionStays, LengthType
<1>2. CASE SendMessage
  <2>1. /\ sender' = "send" /\ msg' = msg + 1 /\ out' = 0 /\ sentOk' = "none"
        /\ wire' = wire /\ msg \in Nat /\ Len(wire) \in Nat
    BY <1>2, MessageIOAssumption DEF SendMessage, TypeInv, TypeOK
  <2>2. \A j \in 1..Len(wire) : wire[j] \in Bytes
    BY DEF TypeInv, TypeOK
  <2>3. \A j \in 1..Len(wire) : wire[j][1] \in Nat /\ wire[j][1] <= msg
    BY <2>2, MessageIOAssumption DEF Bytes, StreamInv
  <2>4. \A j \in 1..Len(wire) : wire[j][1] <= msg + 1 /\ wire[j][1] # msg + 1
    BY <2>1, <2>3
  <2> QED
    BY <2>1, <2>4 DEF StreamInv, EndsStream
<1>3. CASE SendChunk
  BY <1>3, ChunkEndsStream
<1>4. CASE SendErrorTaken
  BY <1>1, <1>4
     DEF SendErrorTaken, SendError, SendReturns, net, TypeInv, TypeOK, CountInv, StreamInv
<1>5. CASE SendFails \/ SendPollFails
  BY <1>1, <1>5, StreamKept DEF SendFails, SendPollFails, SendError, SendReturns
<1>6. CASE SendWouldBlock \/ SendPollReady \/ SendPollInterrupted
  BY <1>1, <1>6, StreamKept
     DEF SendWouldBlock, SendPollReady, SendPollInterrupted, SendError
<1>7. CASE Killed \/ BrokenPipe \/ Reset
  BY <1>1, <1>7, StreamKept DEF Killed, BrokenPipe, Reset, sending
<1>8. CASE ReceiveMessage \/ InReceive \/ RecvPollInterrupted
  BY <1>1, <1>8, StreamKept
     DEF ReceiveMessage, InReceive, RecvChunk, RecvExits, RecvWouldBlock, RecvPollReady,
         RecvPollFails, RecvPollInterrupted, sending
<1>9. CASE UNCHANGED vars
  BY <1>1, <1>9, StreamKept DEF vars, sending
<1> QED
  BY <1>2, <1>3, <1>4, <1>5, <1>6, <1>7, <1>8, <1>9
     DEF Next, InSend, Interrupted, SendInterrupted, RecvInterrupted, Done

\* For messages of any length: however send() cuts and fails, a result of true means a
\* message on the wire if and only if the count of bytes left ended at zero.
THEOREM TrueIsSentUnlessOvercounted == Spec => []TrueUnlessOvercounted
<1>1. Init => StreamInv
  BY DEF Init, StreamInv
<1>2. ASSUME TypeInv, StreamInv PROVE TrueUnlessOvercounted
  <2> SUFFICES ASSUME out < Length, Whole(msg) PROVE FALSE
    BY <1>2 DEF StreamInv, TrueUnlessOvercounted, TypeInv, TypeOK
  <2>1. PICK j \in 0 .. Len(wire) - Length : \A i \in 1..Length : wire[j + i] = <<msg, i>>
    BY DEF Whole
  <2>2. Length \in 1..Length /\ j + Length \in 1..Len(wire) /\ out \in Nat /\ Length \in Nat
    BY <1>2, LengthType DEF TypeInv, TypeOK
  <2>3. wire[j + Length] = <<msg, Length>>
    BY <2>1, <2>2
  <2>4. Length <= out
    BY <1>2, <2>2, <2>3 DEF StreamInv
  <2> QED
    BY <2>2, <2>4
<1>3. TypeInv /\ StreamInv => TrueUnlessOvercounted
  BY <1>2
<1> QED
  BY <1>1, <1>3, TypeInvariant, StreamInvInductive, PTL DEF Spec

-------------------------------------------------------------------------------
(* What a result of true is worth to the receiver. *)

\* The data read so far are the last bytes taken from the stream.
HoldsLast == data <= taken /\ \A i \in 1..data : buffer[i] = wire[taken - data + i]

\* TrueMeansFilled speaks of calls that have returned; this says what leads up to it.
BufferInv ==
    /\ receiver \in {"recv", "poll"} => HoldsLast /\ recvOk = "none"
    /\ TrueMeansFilled

\* Steps that take nothing and end no call with a result of true.
LEMMA BufferKept ==
    ASSUME TypeInv, BufferInv, [Next]_vars, UNCHANGED <<taken, data, buffer>>,
           recvOk' \in {recvOk, "false"},
           receiver' \in {"recv", "poll"} => receiver \in {"recv", "poll"} /\ recvOk' = recvOk
    PROVE  BufferInv'
<1>1. /\ Len(wire) \in Nat /\ taken \in Nat /\ taken <= Len(wire) /\ data \in Nat
      /\ ReceiveLength \in Nat
      /\ \A j \in 1..Len(wire) : wire'[j] = wire[j]
  BY WireGrows, MessageIOAssumption DEF TypeInv, TypeOK
<1>2. receiver' \in {"recv", "poll"} => HoldsLast' /\ recvOk' = "none"
  <2> SUFFICES ASSUME receiver' \in {"recv", "poll"} PROVE HoldsLast' /\ recvOk' = "none"
    OBVIOUS
  <2>1. HoldsLast /\ recvOk' = "none"
    BY DEF BufferInv
  <2>2. \A i \in 1..data : taken - data + i \in 1..Len(wire)
    BY <1>1, <2>1 DEF HoldsLast
  <2> QED
    BY <1>1, <2>1, <2>2 DEF HoldsLast
<1>3. TrueMeansFilled'
  <2> SUFFICES ASSUME recvOk' = "true" PROVE TrueMeansFilled'
    BY DEF TrueMeansFilled
  <2>1. taken >= ReceiveLength
        /\ \A i \in 1..ReceiveLength : buffer[i] = wire[taken - ReceiveLength + i]
    BY DEF BufferInv, TrueMeansFilled
  <2>2. \A i \in 1..ReceiveLength : taken - ReceiveLength + i \in 1..Len(wire)
    BY <1>1, <2>1
  <2> QED
    BY <1>1, <2>1, <2>2 DEF TrueMeansFilled
<1> QED
  BY <1>2, <1>3 DEF BufferInv

\* A recv() that gives bytes goes on where the one before ended.
LEMMA ChunkFillsBuffer ==
    ASSUME TypeInv, BufferInv, RecvChunk
    PROVE  BufferInv'
<1>1. PICK k \in 1..r_left :
          /\ \A i \in 1..ReceiveLength :
                 buffer'[i] = IF i \in data + 1 .. data + k
                                THEN wire[taken + i - data] ELSE buffer[i]
          /\ taken' = taken + k
          /\ data' = data + k
          /\ r_left' = r_left - k
          /\ IF r_left = k
               THEN /\ receiver' = "idle" /\ recvOk' = "true"
                    /\ received' = Append(received, buffer')
               ELSE UNCHANGED <<receiver, recvOk, received>>
  BY ChunkTaken
<1>2. /\ receiver = "recv" /\ wire' = wire /\ recvOk = "none"
      /\ k \in Nat /\ taken \in Nat /\ data \in Nat /\ ReceiveLength \in Nat
      /\ r_left = ReceiveLength - data /\ data <= taken
  BY <1>1, MessageIOAssumption
     DEF RecvChunk, TypeInv, TypeOK, CountInv, BufferInv, HoldsLast
<1>3. HoldsLast'
  <2>1. ASSUME NEW i \in 1..data' PROVE buffer'[i] = wire'[taken' - data' + i]
    <3>1. i \in 1..ReceiveLength /\ taken' - data' + i = taken - data + i
      BY <1>1, <1>2
    <3>2. CASE i <= data
      <4>1. buffer'[i] = buffer[i]
        BY <1>1, <1>2, <3>1, <3>2
      <4>2. buffer[i] = wire[taken - data + i]
        BY <1>2, <3>2 DEF BufferInv, HoldsLast
      <4> QED
        BY <1>2, <3>1, <4>1, <4>2
    <3>3. CASE i > data
      <4>1. buffer'[i] = wire[taken + i - data]
        BY <1>1, <1>2, <3>1, <3>3
      <4>2. taken + i - data = taken - data + i
        BY <1>2
      <4> QED
        BY <1>2, <3>1, <4>1, <4>2
    <3> QED
      BY <1>1, <1>2, <3>2, <3>3
  <2> QED
    BY <1>1, <1>2, <2>1 DEF HoldsLast
<1>4. recvOk' = "true" => data' = ReceiveLength
  BY <1>1, <1>2
<1>5. TrueMeansFilled'
  BY <1>2, <1>3, <1>4 DEF HoldsLast, TrueMeansFilled
<1>6. receiver' \in {"recv", "poll"} => recvOk' = "none"
  BY <1>1, <1>2
<1> QED
  BY <1>3, <1>5, <1>6 DEF BufferInv

\* Every step of the two ends keeps BufferInv.
LEMMA BufferInvInductive == TypeInv /\ BufferInv /\ [Next]_vars => BufferInv'
<1> SUFFICES ASSUME TypeInv, BufferInv, [Next]_vars PROVE BufferInv'
  OBVIOUS
<1>1. CASE ReceiveMessage
  BY <1>1 DEF ReceiveMessage, BufferInv, HoldsLast, TrueMeansFilled, TypeInv, TypeOK
<1>2. CASE RecvChunk
  BY <1>2, ChunkFillsBuffer
<1>3. CASE RecvExits \/ RecvWouldBlock \/ RecvPollReady \/ RecvPollInterrupted
  BY <1>3, BufferKept
     DEF RecvExits, RecvWouldBlock, RecvPollReady, RecvPollInterrupted
<1>4. CASE RecvPollFails
  BY <1>4, BufferKept DEF RecvPollFails
<1>5. CASE SendMessage \/ InSend \/ SendPollInterrupted \/ Killed \/ Reset
  BY <1>5, BufferKept
     DEF SendMessage, InSend, SendChunk, SendErrorTaken, SendWouldBlock, SendFails,
         SendPollReady, SendPollFails, BrokenPipe, SendPollInterrupted, Killed, Reset,
         receiving
<1>6. CASE UNCHANGED vars
  BY <1>6, BufferKept DEF vars, receiving
<1> QED
  BY <1>1, <1>2, <1>3, <1>4, <1>5, <1>6
     DEF Next, InReceive, Interrupted, SendInterrupted, RecvInterrupted, Done

\* For a buffer of any length: however recv() and poll() cut the stream into chunks, a
\* call that returns true has filled the buffer with the next bytes of the stream.
THEOREM TrueIsFilled == Spec => []TrueMeansFilled
<1>1. Init => BufferInv
  BY DEF Init, BufferInv, TrueMeansFilled
<1>2. BufferInv => TrueMeansFilled
  BY DEF BufferInv
<1> QED
  BY <1>1, <1>2, TypeInvariant, BufferInvInductive, PTL DEF Spec

-------------------------------------------------------------------------------
(* The stream as a queue of messages, until a part of one is left behind. *)

\* What Queue is in this model.
Number == Len(wire) \div Length
Posted == [k \in 1..Number |-> MessageOf(Block(k))]
Fetched == [k \in DOMAIN received |-> MessageOf(received[k])]
Mode == IF part = "no" /\ Length = ReceiveLength THEN "whole" ELSE "partial"

\* What a send_message in progress has added to the whole messages.
Unfinished == IF sender \in {"send", "poll"} THEN out ELSE 0

\* As long as no part was left behind, every block of the stream is one message, and
\* only the one in progress may follow them.
AlignedInv ==
    part = "no" =>
        /\ Len(wire) = Length * Number + Unfinished
        /\ \A k \in 1..Number :
               /\ Posted[k] \in 1..msg
               /\ sender \in {"send", "poll"} => Posted[k] < msg
        /\ \A k \in 1..Number : \A j \in 1 .. k - 1 : Posted[j] < Posted[k]

\* What a receive_message in progress has taken after the whole buffers.
Partly == IF receiver \in {"recv", "poll"} THEN data ELSE 0

\* As long as no part was left behind, the buffers returned are the blocks taken.
TakenInv ==
    part = "no" =>
        /\ taken = ReceiveLength * Len(received) + Partly
        /\ \A k \in 1..Len(received) : \A i \in 1..ReceiveLength :
               received[k][i] = wire[(k - 1) * ReceiveLength + i]

\* A part that was left behind stays so.
LEMMA PartStays == [Next]_vars => (part' = "no" => part = "no")
BY DEF Next, vars, net, SendMessage, InSend, SendChunk, SendErrorTaken, SendWouldBlock,
       SendFails, SendPollReady, SendPollFails, BrokenPipe, ReceiveMessage, InReceive,
       RecvChunk, RecvExits, RecvWouldBlock, RecvPollReady, RecvPollFails, Interrupted,
       SendInterrupted, SendPollInterrupted, RecvInterrupted, RecvPollInterrupted,
       Killed, Reset, Done, LeavesPart

LEMMA NumberType ==
    ASSUME TypeInv
    PROVE  /\ Number \in Nat /\ Len(wire) \in Nat /\ Length * Number \in Nat
           /\ Length * Number <= Len(wire)
<1>1. Length \in Nat \ {0} /\ Len(wire) \in Nat
  BY LengthType DEF TypeInv, TypeOK
<1> QED
  BY <1>1, WholePart DEF Number

\* Bytes that follow do not change the messages before them.
LEMMA BlocksStay ==
    ASSUME TypeInv, [Next]_vars
    PROVE  \A k \in 1..Number : Block(k)' = Block(k)
<1>1. /\ Length' = Length /\ Length \in Nat \ {0}
      /\ \A j \in 1..Len(wire) : wire'[j] = wire[j]
      /\ Number \in Nat /\ Length * Number <= Len(wire)
      /\ Len(wire) \in Nat /\ Length * Number \in Nat
  BY DirectionStays, LengthType, WireGrows, NumberType
<1> SUFFICES ASSUME NEW k \in 1..Number PROVE Block(k)' = Block(k)
  OBVIOUS
<1>2. ASSUME NEW i \in 1..Length
      PROVE  wire'[(k - 1) * Length + i] = wire[(k - 1) * Length + i]
  <2>1. (k - 1) * Length + i \in 1 .. Length * Number
    BY <1>1, WithinMessages
  <2>2. (k - 1) * Length + i \in 1..Len(wire)
    BY <1>1, <2>1
  <2> QED
    BY <1>1, <2>2
<1> QED
  BY <1>1, <1>2 DEF Block

\* What is in a block says which message is posted.
LEMMA PostedStays ==
    ASSUME TypeInv, [Next]_vars
    PROVE  \A k \in 1..Number : k \in 1..Number' => Posted'[k] = Posted[k]
<1> SUFFICES ASSUME NEW k \in 1..Number, k \in 1..Number' PROVE Posted'[k] = Posted[k]
  OBVIOUS
<1>1. Block(k)' = Block(k)
  BY BlocksStay
<1>2. Posted[k] = MessageOf(Block(k))
  BY DEF Posted
<1>3. Posted'[k] = MessageOf(Block(k)')
  BY DEF Posted, MessageOf
<1> QED
  BY <1>1, <1>2, <1>3

\* A send() that takes bytes posts the message in progress, or goes on with it.
LEMMA ChunkPosts ==
    ASSUME TypeInv, StreamInv, AlignedInv, SendChunk, part = "no"
    PROVE  \/ /\ Number' = Number /\ sender' = "send"
              /\ Len(wire') = Length * Number + out'
           \/ /\ Number' = Number + 1 /\ sender' = "idle"
              /\ Len(wire') = Length * (Number + 1)
              /\ Posted'[Number + 1] = msg
<1>1. PICK k \in 1..n_left :
          /\ Len(wire') = Len(wire) + k
          /\ out' = out + k
          /\ n_left' = n_left - k
          /\ IF n_left = k THEN SendReturns("true") ELSE UNCHANGED <<sender, sentOk>>
  BY ChunkSent
<1>2. /\ sender = "send" /\ msg' = msg /\ Length' = Length /\ Length \in Nat \ {0}
      /\ k \in Nat /\ out \in Nat /\ n_left = Length - out /\ sentOk = "none"
      /\ Len(wire) = Length * Number + out
      /\ Number \in Nat /\ Length * Number \in Nat
  BY <1>1, LengthType, NumberType
     DEF SendChunk, net, Length, TypeInv, TypeOK, CountInv, StreamInv, AlignedInv, Unfinished
<1>3. CASE n_left # k
  <2>1. out' \in 0 .. Length - 1 /\ Len(wire') = Length * Number + out'
    BY <1>1, <1>2, <1>3
  <2> PICK u \in 0 .. Length - 1 : u = out'
    BY <2>1
  <2>2. (Length * Number + u) \div Length = Number
    <3>1. Length \in Nat \ {0} /\ Number \in Int
      BY <1>2
    <3> QED
      BY <3>1, QuotientUnique
  <2>3. (Length * Number + out') \div Length = Number
    BY <2>2
  <2> QED
    BY <1>1, <1>2, <1>3, <2>1, <2>3 DEF Number
<1>4. CASE n_left = k
  <2>1. out' = Length /\ sender' = "idle" /\ Len(wire') = Length * Number + Length
    BY <1>1, <1>2, <1>4 DEF SendReturns
  <2>2. Length * (Number + 1) = Length * Number + Length
    BY <1>2
  <2>3. (Length * (Number + 1) + 0) \div Length = Number + 1
    BY <1>2, QuotientUnique
  <2>4. Number' = Number + 1
    BY <1>2, <2>1, <2>2, <2>3 DEF Number
  <2>5. EndsStream'
    BY ChunkEndsStream
  <2>6. \A i \in 1..Length : wire'[Length * Number + i] = <<msg, i>>
    <3> TAKE i \in 1..Length
    <3>1. i \in 1..out' /\ Len(wire') - out' + i = Length * Number + i
      BY <1>2, <2>1
    <3> QED
      BY <1>2, <2>5, <3>1 DEF EndsStream
  <2> PICK N : N = Number
    OBVIOUS
  <2> DEFINE whole == [i \in 1..Length |-> <<msg, i>>]
  <2>7. Block(N + 1)' = whole
    <3>1. \A i \in 1..Length : (N + 1 - 1) * Length + i = Length * Number + i
      BY <1>2
    <3> QED
      BY <1>2, <2>6, <3>1 DEF Block
  <2>8. MessageOf(whole) = msg
    BY <1>2 DEF MessageOf
  <2>9. Posted'[N + 1] = MessageOf(Block(N + 1)')
    BY <1>2, <2>4 DEF Posted, MessageOf
  <2> QED
    BY <1>2, <2>1, <2>2, <2>4, <2>7, <2>8, <2>9
<1> QED
  BY <1>3, <1>4

\* Without a send() the same messages are posted.
LEMMA PostedSame ==
    ASSUME Length' = Length, wire' = wire
    PROVE  Number' = Number /\ Posted' = Posted
<1>1. Number' = Number
  BY DEF Number
<1>2. \A k \in 1..Number : Block(k)' = Block(k)
  BY DEF Block
<1>3. Posted' = [k \in 1..Number |-> MessageOf(Block(k)')]
  BY <1>1 DEF Posted, MessageOf
<1> QED
  BY <1>1, <1>2, <1>3 DEF Posted

\* Steps that send nothing, begin no call, and lose no part of a message unseen.
LEMMA AlignedKept ==
    ASSUME AlignedInv, [Next]_vars, UNCHANGED <<wire, msg>>,
           part' = "no" => Unfinished' = Unfinished,
           sender' \in {"send", "poll"} => sender \in {"send", "poll"}
    PROVE  AlignedInv'
<1>1. part' = "no" => part = "no"
  BY PartStays
<1>2. Length' = Length /\ Number' = Number /\ Posted' = Posted
  BY DirectionStays, PostedSame
<1> QED
  BY <1>1, <1>2 DEF AlignedInv

\* A call that ends without a result of true has sent all of its message or nothing,
\* or leaves a part behind.
LEMMA PartIsSeen ==
    ASSUME TypeInv, sender \in {"send", "poll"}, sender' \notin {"send", "poll"},
           LeavesPart(out, Length)
    PROVE  part' = "no" => Unfinished' = Unfinished
<1>1. out \in Nat /\ Length \in Nat /\ out < Length
  BY LengthType DEF TypeInv, TypeOK, CountInv
<1>2. part' = "no" => out = 0
  BY <1>1 DEF LeavesPart
<1> QED
  BY <1>2 DEF Unfinished

\* A send() that takes bytes keeps the stream aligned.
LEMMA ChunkAligned ==
    ASSUME TypeInv, StreamInv, AlignedInv, SendChunk
    PROVE  AlignedInv'
<1> SUFFICES ASSUME part' = "no" PROVE AlignedInv'
  BY DEF AlignedInv
<1>1. /\ part = "no" /\ sender = "send" /\ msg' = msg /\ [Next]_vars
      /\ Length' = Length /\ Number \in Nat /\ msg \in Nat /\ msg > 0
  BY NumberType, MessageIOAssumption
     DEF SendChunk, Next, InSend, net, Length, TypeInv, TypeOK, CountInv
<1>2. \A k \in 1..Number : Posted[k] \in 1..msg /\ Posted[k] < msg
  BY <1>1 DEF AlignedInv
<1>3. \A k \in 1..Number : \A j \in 1 .. k - 1 : Posted[j] < Posted[k]
  BY <1>1 DEF AlignedInv
<1>4. \A k \in 1..Number : k \in 1..Number' => Posted'[k] = Posted[k]
  BY <1>1, PostedStays
<1>5. CASE /\ Number' = Number /\ sender' = "send"
           /\ Len(wire') = Length * Number + out'
  BY <1>1, <1>2, <1>3, <1>4, <1>5 DEF AlignedInv, Unfinished
<1>6. CASE /\ Number' = Number + 1 /\ sender' = "idle"
           /\ Len(wire') = Length * (Number + 1)
           /\ Posted'[Number + 1] = msg
  <2>1. Len(wire') = Length' * Number' + Unfinished'
    <3>1. Length * (Number + 1) = Length * (Number + 1) + 0
      BY <1>1, LengthType
    <3> QED
      BY <1>1, <1>6, <3>1 DEF Unfinished
  <2>2. \A k \in 1..Number' : Posted'[k] \in 1..msg
    BY <1>1, <1>2, <1>4, <1>6
  <2>3. \A k \in 1..Number' : \A j \in 1 .. k - 1 : Posted'[j] < Posted'[k]
    <3> TAKE k \in 1..Number'
    <3> TAKE j \in 1 .. k - 1
    <3>1. j \in 1..Number /\ Posted'[j] = Posted[j]
      BY <1>1, <1>4, <1>6
    <3>2. CASE k = Number + 1
      BY <1>2, <1>6, <3>1, <3>2
    <3>3. CASE k # Number + 1
      <4>1. k \in 1..Number /\ Posted'[k] = Posted[k]
        BY <1>1, <1>4, <1>6, <3>3
      <4> QED
        BY <1>3, <3>1, <4>1
    <3> QED
      BY <3>2, <3>3
  <2> QED
    BY <1>1, <1>6, <2>1, <2>2, <2>3 DEF AlignedInv
<1> QED
  BY <1>1, <1>5, <1>6, ChunkPosts

\* Every step of the two ends keeps AlignedInv.
LEMMA AlignedInvInductive ==
    TypeInv /\ StreamInv /\ AlignedInv /\ [Next]_vars => AlignedInv'
<1> SUFFICES ASSUME TypeInv, StreamInv, AlignedInv, [Next]_vars PROVE AlignedInv'
  OBVIOUS
<1>1. CASE SendMessage
  <2>1. /\ UNCHANGED <<wire, part>> /\ msg' = msg + 1 /\ Unfinished' = 0
        /\ sender = "idle" /\ msg \in Nat
    BY <1>1, MessageIOAssumption DEF SendMessage, Unfinished, TypeInv, TypeOK
  <2>2. Length' = Length /\ Number' = Number /\ Posted' = Posted /\ Unfinished = 0
    BY <2>1, DirectionStays, PostedSame DEF Unfinished
  <2>3. AlignedInv' <=>
          (part = "no" =>
              /\ Len(wire) = Length * Number + 0
              /\ \A k \in 1..Number :
                     /\ Posted[k] \in 1 .. msg + 1
                     /\ sender' \in {"send", "poll"} => Posted[k] < msg + 1
              /\ \A k \in 1..Number : \A j \in 1 .. k - 1 : Posted[j] < Posted[k])
    BY <2>1, <2>2 DEF AlignedInv
  <2> QED
    BY <2>1, <2>2, <2>3 DEF AlignedInv
<1>2. CASE SendChunk
  BY <1>2, ChunkAligned
<1>3. CASE SendErrorTaken \/ SendFails \/ SendPollFails \/ BrokenPipe
  <2>1. /\ UNCHANGED <<wire, msg>> /\ LeavesPart(out, Length)
        /\ sender \in {"send", "poll"} /\ sender' \notin {"send", "poll"}
    BY <1>3 DEF SendErrorTaken, SendFails, SendPollFails, BrokenPipe, SendError, SendReturns
  <2> QED
    BY <2>1, PartIsSeen, AlignedKept
<1>4. CASE SendWouldBlock \/ SendPollReady \/ SendPollInterrupted
  BY <1>4, AlignedKept
     DEF SendWouldBlock, SendPollReady, SendPollInterrupted, SendError, Unfinished
<1>5. CASE Killed
  <2>1. CASE sender \in {"send", "poll"}
    <3>1. UNCHANGED <<wire, msg>> /\ LeavesPart(out, Length) /\ sender' \notin {"send", "poll"}
      BY <1>5, <2>1 DEF Killed
    <3> QED
      BY <2>1, <3>1, PartIsSeen, AlignedKept
  <2>2. CASE sender \notin {"send", "poll"}
    BY <1>5, <2>2, AlignedKept DEF Killed, Unfinished
  <2> QED
    BY <2>1, <2>2
<1>6. CASE ReceiveMessage \/ InReceive \/ RecvPollInterrupted \/ Reset
  BY <1>6, AlignedKept
     DEF ReceiveMessage, InReceive, RecvChunk, RecvExits, RecvWouldBlock, RecvPollReady,
         RecvPollFails, RecvPollInterrupted, Reset, sending, Unfinished
<1>7. CASE UNCHANGED vars
  BY <1>7, AlignedKept DEF vars, sending, Unfinished
<1> QED
  BY <1>1, <1>2, <1>3, <1>4, <1>5, <1>6, <1>7
     DEF Next, InSend, Interrupted, SendInterrupted, RecvInterrupted, Done

LEMMA ReceivedType ==
    ASSUME TypeInv, TakenInv, part = "no"
    PROVE  /\ Len(received) \in Nat /\ ReceiveLength * Len(received) \in Nat
           /\ ReceiveLength * Len(received) <= taken
           /\ Len(wire) \in Nat /\ taken \in Nat /\ taken <= Len(wire)
           /\ ReceiveLength \in Nat \ {0} /\ data \in Nat
<1>1. /\ Len(received) \in Nat /\ Len(wire) \in Nat /\ taken \in Nat /\ taken <= Len(wire)
      /\ ReceiveLength \in Nat \ {0} /\ data \in Nat
  BY MessageIOAssumption DEF TypeInv, TypeOK
<1>2. ReceiveLength * Len(received) \in Nat
  BY <1>1
<1> QED
  BY <1>1, <1>2 DEF TakenInv, Partly

\* Steps that take nothing, and lose no part of a message unseen.
LEMMA TakenKept ==
    ASSUME TypeInv, TakenInv, [Next]_vars, UNCHANGED <<taken, received>>,
           part' = "no" => Partly' = Partly
    PROVE  TakenInv'
<1> SUFFICES ASSUME part' = "no" PROVE TakenInv'
  BY DEF TakenInv
<1>1. part = "no"
  BY PartStays
<1>2. ASSUME NEW k \in 1..Len(received), NEW i \in 1..ReceiveLength
      PROVE  received[k][i] = wire'[(k - 1) * ReceiveLength + i]
  <2>1. (k - 1) * ReceiveLength + i \in 1 .. ReceiveLength * Len(received)
    BY <1>1, ReceivedType, WithinMessages
  <2>2. (k - 1) * ReceiveLength + i \in 1..Len(wire)
    BY <1>1, <2>1, ReceivedType
  <2>3. wire'[(k - 1) * ReceiveLength + i] = wire[(k - 1) * ReceiveLength + i]
    BY <2>2, WireGrows
  <2> QED
    BY <1>1, <2>3 DEF TakenInv
<1> QED
  BY <1>1, <1>2 DEF TakenInv

\* A recv() that gives bytes fills a buffer, or goes on with it.
LEMMA ChunkKeepsTaken ==
    ASSUME TypeInv, BufferInv, TakenInv, RecvChunk
    PROVE  TakenInv'
<1> SUFFICES ASSUME part' = "no" PROVE TakenInv'
  BY DEF TakenInv
<1>1. PICK k \in 1..r_left :
          /\ buffer' \in [1..ReceiveLength -> Bytes \cup {Blank}]
          /\ taken' = taken + k
          /\ data' = data + k
          /\ IF r_left = k
               THEN /\ receiver' = "idle" /\ recvOk' = "true"
                    /\ received' = Append(received, buffer')
               ELSE UNCHANGED <<receiver, recvOk, received>>
  BY ChunkTaken
<1>2. /\ part = "no" /\ receiver = "recv" /\ wire' = wire /\ k \in Nat
      /\ r_left = ReceiveLength - data /\ data < ReceiveLength
      /\ taken = ReceiveLength * Len(received) + data
  BY <1>1, MessageIOAssumption DEF RecvChunk, TypeInv, TypeOK, CountInv, TakenInv, Partly
<1>3. /\ Len(received) \in Nat /\ ReceiveLength * Len(received) \in Nat
      /\ ReceiveLength \in Nat \ {0} /\ data \in Nat
  BY <1>2, ReceivedType
<1>4. \A n \in 1..Len(received) : \A i \in 1..ReceiveLength :
          received[n][i] = wire[(n - 1) * ReceiveLength + i]
  BY <1>2 DEF TakenInv
<1>5. CASE r_left # k
  BY <1>1, <1>2, <1>3, <1>4, <1>5 DEF TakenInv, Partly
<1>6. CASE r_left = k
  <2>1. receiver' = "idle" /\ recvOk' = "true" /\ received' = Append(received, buffer')
    BY <1>1, <1>6
  <2>2. /\ Len(received') = Len(received) + 1
        /\ received'[Len(received) + 1] = buffer'
        /\ \A n \in 1..Len(received) : received'[n] = received[n]
    <3>1. received \in Seq([1..ReceiveLength -> Bytes \cup {Blank}])
      BY DEF TypeInv, TypeOK
    <3> QED
      BY <1>1, <2>1, <3>1
  <2>3. taken' = ReceiveLength * Len(received) + ReceiveLength
    <3>1. taken' = ReceiveLength * Len(received) + data + (ReceiveLength - data)
      BY <1>1, <1>2, <1>6
    <3> QED
      BY <1>3, <3>1
  <2>4. ReceiveLength * (Len(received) + 1) = ReceiveLength * Len(received) + ReceiveLength
    BY <1>3
  <2>5. taken' = ReceiveLength * Len(received') + Partly'
    BY <1>3, <2>1, <2>2, <2>3, <2>4 DEF Partly
  <2>6. \A i \in 1..ReceiveLength : buffer'[i] = wire[ReceiveLength * Len(received) + i]
    <3>1. TrueMeansFilled'
      BY ChunkFillsBuffer DEF BufferInv
    <3>2. \A i \in 1..ReceiveLength :
              taken' - ReceiveLength + i = ReceiveLength * Len(received) + i
      BY <1>3, <2>3
    <3> QED
      BY <1>2, <2>1, <3>1, <3>2 DEF TrueMeansFilled
  <2>7. ASSUME NEW n \in 1..Len(received'), NEW i \in 1..ReceiveLength
        PROVE  received'[n][i] = wire'[(n - 1) * ReceiveLength + i]
    <3>1. CASE n = Len(received) + 1
      <4>1. (n - 1) * ReceiveLength + i = ReceiveLength * Len(received) + i
        BY <1>3, <3>1
      <4> QED
        BY <1>2, <2>2, <2>6, <3>1, <4>1
    <3>2. CASE n # Len(received) + 1
      <4>1. n \in 1..Len(received)
        BY <1>3, <2>2, <3>2
      <4> QED
        BY <1>2, <1>4, <2>2, <4>1
    <3> QED
      BY <3>1, <3>2
  <2> QED
    BY <2>5, <2>7 DEF TakenInv
<1> QED
  BY <1>5, <1>6

\* Every step of the two ends keeps TakenInv.
LEMMA TakenInvInductive ==
    TypeInv /\ BufferInv /\ TakenInv /\ [Next]_vars => TakenInv'
<1> SUFFICES ASSUME TypeInv, BufferInv, TakenInv, [Next]_vars PROVE TakenInv'
  OBVIOUS
<1>1. CASE ReceiveMessage
  BY <1>1, TakenKept DEF ReceiveMessage, Partly
<1>2. CASE RecvChunk
  BY <1>2, ChunkKeepsTaken
<1>3. CASE RecvExits \/ RecvPollFails
  <2>1. /\ UNCHANGED <<taken, received, data>> /\ LeavesPart(data, ReceiveLength)
        /\ receiver \in {"recv", "poll"} /\ receiver' \notin {"recv", "poll"}
    BY <1>3 DEF RecvExits, RecvPollFails
  <2>2. data \in Nat /\ ReceiveLength \in Nat /\ data < ReceiveLength
    BY <2>1, MessageIOAssumption DEF TypeInv, TypeOK, CountInv
  <2>3. part' = "no" => data = 0
    BY <2>1, <2>2 DEF LeavesPart
  <2> QED
    BY <2>1, <2>3, TakenKept DEF Partly
<1>4. CASE RecvWouldBlock \/ RecvPollReady \/ RecvPollInterrupted
  BY <1>4, TakenKept DEF RecvWouldBlock, RecvPollReady, RecvPollInterrupted, Partly
<1>5. CASE SendMessage \/ InSend \/ SendPollInterrupted \/ Killed \/ Reset
  BY <1>5, TakenKept
     DEF SendMessage, InSend, SendChunk, SendErrorTaken, SendWouldBlock, SendFails,
         SendPollReady, SendPollFails, BrokenPipe, SendPollInterrupted, Killed, Reset,
         receiving, Partly
<1>6. CASE UNCHANGED vars
  BY <1>6, TakenKept DEF vars, receiving, Partly
<1> QED
  BY <1>1, <1>2, <1>3, <1>4, <1>5, <1>6
     DEF Next, InReceive, Interrupted, SendInterrupted, RecvInterrupted, Done

-------------------------------------------------------------------------------
(* MessageIO implements MessageQueue. *)

\* A function on 1..n is a sequence of length n.
LEMMA OnRange ==
    ASSUME NEW n \in Nat, NEW s, s = [k \in 1..n |-> s[k]], NEW S,
           \A k \in 1..n : s[k] \in S
    PROVE  s \in Seq(S) /\ Len(s) = n
<1>1. s \in [1..n -> S]
  BY Zenon
<1>2. s \in Seq(S)
  BY <1>1, SeqDef
<1>3. DOMAIN s = 1..n
  BY <1>1
<1>4. Len(s) \in Nat /\ DOMAIN s = 1..Len(s)
  BY <1>2, LenProperties
<1>5. Len(s) = n
  BY <1>3, <1>4, SMT
<1> QED
  BY <1>2, <1>5

\* What Append does, index by index.
LEMMA Appended ==
    ASSUME NEW S, NEW s \in Seq(S), NEW e \in S, NEW n \in Nat, Len(s) = n
    PROVE  /\ Append(s, e) \in Seq(S) /\ Len(Append(s, e)) = n + 1
           /\ \A i \in 1..n : Append(s, e)[i] = s[i]
           /\ Append(s, e)[n + 1] = e
OBVIOUS

\* Of two sequences that agree as far as both go, the longer extends the shorter.
LEMMA Longer ==
    ASSUME NEW n \in Nat, NEW m \in Nat, n <= m, NEW s, NEW t,
           s = [k \in 1..n |-> s[k]], t = [k \in 1..m |-> t[k]],
           \A k \in 1..n : t[k] = s[k]
    PROVE  /\ Len(s) = n /\ Len(t) = m
           /\ SubSeq(t, 1, n) = s
           /\ m = n + 1 => t = Append(s, t[n + 1])
<1> DEFINE S == {s[k] : k \in 1..n} \cup {t[k] : k \in 1..m}
<1>1. (\A k \in 1..n : s[k] \in S) /\ (\A k \in 1..m : t[k] \in S)
  OBVIOUS
<1> HIDE DEF S
<1>2. s \in Seq(S) /\ Len(s) = n
  BY <1>1, OnRange
<1>3. t \in Seq(S) /\ Len(t) = m
  BY <1>1, OnRange
<1>4. SubSeq(t, 1, n) = s
  <2>0. \A i \in 1..n : t[i] \in S
    BY <1>1
  <2>1. /\ SubSeq(t, 1, n) \in Seq(S)
        /\ Len(SubSeq(t, 1, n)) = (IF 1 <= n THEN n - 1 + 1 ELSE 0)
        /\ \A i \in 1..n - 1 + 1 : SubSeq(t, 1, n)[i] = t[1 + i - 1]
    BY ONLY SubSeqProperties, <2>0, 1 \in Int, n \in Int
  <2>2. Len(SubSeq(t, 1, n)) = n
    BY <2>1
  <2>3. ASSUME NEW i \in 1..n PROVE SubSeq(t, 1, n)[i] = s[i]
    <3>1. i \in 1..n - 1 + 1 /\ 1 + i - 1 = i
      OBVIOUS
    <3>2. SubSeq(t, 1, n)[i] = t[1 + i - 1]
      BY <2>1, <3>1, Zenon
    <3> QED
      BY <3>1, <3>2, Zenon
  <2> QED
    BY <1>2, <2>1, <2>2, <2>3, SeqEqual
<1>5. ASSUME m = n + 1 PROVE t = Append(s, t[n + 1])
  <2>1. t[n + 1] \in S
    BY <1>1, <1>5
  <2>2. /\ Append(s, t[n + 1]) \in Seq(S) /\ Len(Append(s, t[n + 1])) = n + 1
        /\ \A i \in 1..n : Append(s, t[n + 1])[i] = s[i]
        /\ Append(s, t[n + 1])[n + 1] = t[n + 1]
    BY ONLY <1>2, <2>1, n \in Nat, Appended
  <2>3. \A i \in 1..m : Append(s, t[n + 1])[i] = t[i]
    <3> TAKE i \in 1..m
    <3>1. CASE i \in 1..n
      BY <2>2, <3>1
    <3>2. CASE i = n + 1
      BY <2>2, <3>2
    <3> QED
      BY <1>5, <3>1, <3>2
  <2>4. /\ t \in Seq(S) /\ Len(t) = Len(Append(s, t[n + 1]))
        /\ \A i \in 1..Len(t) : t[i] = Append(s, t[n + 1])[i]
    BY <1>3, <1>5, <2>2, <2>3
  <2> QED
    BY <2>2, <2>4, SeqEqual
<1> QED
  BY <1>2, <1>3, <1>4, <1>5

\* The state of the queue, and its steps, in terms of the mapping.
LEMMA QueueVars == Queue!vars = <<Posted, Fetched, Mode>>
BY DEF Queue!vars, Posted, Number, Fetched, Mode

LEMMA QueuePost ==
    ASSUME Mode = "whole", NEW m \in 1..Calls, \A k \in DOMAIN Posted : Posted[k] < m,
           Posted' = Append(Posted, m), Fetched' = Fetched, Mode' = Mode
    PROVE  [Queue!Next]_(Queue!vars)
<1>1. Queue!Post
  BY DEF Queue!Post, Posted, Number, Fetched, Mode
<1> QED
  BY <1>1 DEF Queue!Next

LEMMA QueueFetch ==
    ASSUME Mode = "whole", Len(Fetched) < Len(Posted),
           Fetched' = Append(Fetched, Posted[Len(Fetched) + 1]),
           Posted' = Posted, Mode' = Mode
    PROVE  [Queue!Next]_(Queue!vars)
<1>1. Queue!Fetch
  BY DEF Queue!Fetch, Posted, Number, Fetched, Mode
<1> QED
  BY <1>1 DEF Queue!Next

LEMMA QueueAfterPart ==
    ASSUME Mode = "partial", Mode' = "partial", Len(Fetched') >= Len(Fetched),
           SubSeq(Fetched', 1, Len(Fetched)) = Fetched
    PROVE  [Queue!Next]_(Queue!vars)
<1>1. Queue!AfterPart
  BY DEF Queue!AfterPart, Posted, Number, Fetched, Mode
<1> QED
  BY <1>1 DEF Queue!Next

LEMMA QueueSame ==
    ASSUME Posted' = Posted, Fetched' = Fetched, Mode' \in {Mode, "partial"}
    PROVE  [Queue!Next]_(Queue!vars)
<1>1. CASE Mode' = Mode
  BY <1>1, QueueVars DEF Queue!vars, Posted, Number, Fetched, Mode
<1>2. CASE Mode' = "partial"
  <2>1. Queue!LeavePart
    BY <1>2 DEF Queue!LeavePart, Posted, Number, Fetched, Mode
  <2> QED
    BY <2>1 DEF Queue!Next
<1> QED
  BY <1>1, <1>2

\* A send() that takes bytes posts a message or changes nothing of the queue.
LEMMA ChunkIsPost ==
    ASSUME TypeInv, StreamInv, AlignedInv, SendChunk, Mode = "whole"
    PROVE  [Queue!Next]_(Queue!vars)
<1>1. /\ part = "no" /\ sender = "send" /\ msg \in 1..Calls /\ [Next]_vars
      /\ Mode' = Mode /\ Fetched' = Fetched /\ Number \in Nat
  BY NumberType, MessageIOAssumption
     DEF Mode, Fetched, SendChunk, Next, InSend, net, receiving, Length, TypeInv, TypeOK,
         CountInv
<1>2. \A k \in 1..Number : Posted[k] < msg
  BY <1>1 DEF AlignedInv
<1>3. \A k \in 1..Number : k \in 1..Number' => Posted'[k] = Posted[k]
  BY <1>1, PostedStays
<1>4. /\ Posted = [k \in 1..Number |-> Posted[k]]
      /\ Posted' = [k \in 1..Number' |-> Posted'[k]]
  BY DEF Posted
<1>5. CASE Number' = Number
  <2>1. Posted' = Posted
    BY <1>3, <1>4, <1>5
  <2> QED
    BY <1>1, <2>1, QueueSame
<1>6. CASE Number' = Number + 1 /\ Posted'[Number + 1] = msg
  <2>1. \A k \in 1..Number : Posted'[k] = Posted[k]
    BY <1>1, <1>3, <1>6
  <2>2. Posted' = Append(Posted, Posted'[Number + 1])
    BY <1>1, <1>4, <1>6, <2>1, Longer
  <2>3. \A k \in DOMAIN Posted : Posted[k] < msg
    BY <1>2, <1>4
  <2> QED
    BY <1>1, <1>6, <2>2, <2>3, QueuePost
<1> QED
  BY <1>1, <1>5, <1>6, ChunkPosts

\* What has been fetched after a step, message by message.
LEMMA FetchedAt == \A k \in DOMAIN received' : Fetched'[k] = MessageOf(received'[k])
<1> PICK r : r = received'
  OBVIOUS
<1> PICK f : f = Fetched'
  OBVIOUS
<1>1. f = [j \in DOMAIN r |-> MessageOf(r[j])]
  BY DEF Fetched, MessageOf
<1>2. \A k \in DOMAIN r : f[k] = MessageOf(r[k])
  BY <1>1
<1> QED
  BY <1>2

\* A call that returns true extends what has been fetched.
LEMMA FetchedGrows ==
    ASSUME TypeInv, NEW b \in [1..ReceiveLength -> Bytes \cup {Blank}],
           received' = Append(received, b)
    PROVE  /\ Len(Fetched) = Len(received) /\ Len(Fetched') = Len(received) + 1
           /\ SubSeq(Fetched', 1, Len(Fetched)) = Fetched
           /\ Fetched' = Append(Fetched, MessageOf(b))
<1> PICK n : n = Len(received)
  OBVIOUS
<1>1. received \in Seq([1..ReceiveLength -> Bytes \cup {Blank}])
  BY DEF TypeInv, TypeOK
<1>2. n \in Nat /\ DOMAIN received = 1..n
  BY <1>1
<1>3. /\ DOMAIN received' = 1 .. n + 1 /\ received'[n + 1] = b
      /\ \A k \in 1..n : received'[k] = received[k]
  BY <1>1, <1>2
<1>4. Fetched = [k \in 1..n |-> Fetched[k]]
  BY <1>2 DEF Fetched
<1>5. Fetched' = [k \in 1 .. n + 1 |-> Fetched'[k]]
  BY <1>3 DEF Fetched
<1>6. ASSUME NEW k \in 1..n PROVE Fetched'[k] = Fetched[k]
  <2>1. Fetched[k] = MessageOf(received[k])
    BY <1>2 DEF Fetched
  <2>2. k \in DOMAIN received' /\ received'[k] = received[k]
    BY <1>2, <1>3
  <2> QED
    BY <2>1, <2>2, FetchedAt
<1>7. Fetched'[n + 1] = MessageOf(b)
  <2>1. n + 1 \in DOMAIN received' /\ received'[n + 1] = b
    BY <1>2, <1>3
  <2> QED
    BY <2>1, FetchedAt
<1>8. /\ Len(Fetched) = n /\ Len(Fetched') = n + 1
      /\ SubSeq(Fetched', 1, n) = Fetched
      /\ Fetched' = Append(Fetched, Fetched'[n + 1])
  BY <1>2, <1>4, <1>5, <1>6, Longer
<1> QED
  BY <1>7, <1>8

\* What receive_message returned so far is not taken back.
LEMMA FetchedStays ==
    ASSUME TypeInv, [Next]_vars
    PROVE  /\ Len(Fetched') >= Len(Fetched)
           /\ SubSeq(Fetched', 1, Len(Fetched)) = Fetched
<1>1. CASE RecvChunk /\ received' # received
  <2>1. /\ buffer' \in [1..ReceiveLength -> Bytes \cup {Blank}]
        /\ received' = Append(received, buffer')
    BY <1>1, ChunkTaken
  <2>2. Len(received) \in Nat
    BY DEF TypeInv, TypeOK
  <2> QED
    BY <2>1, <2>2, FetchedGrows
<1>2. CASE received' = received
  <2>1. Fetched' = Fetched
    BY <1>2 DEF Fetched, MessageOf
  <2>2. Len(received) \in Nat /\ DOMAIN received = 1..Len(received)
    BY DEF TypeInv, TypeOK
  <2>3. Fetched = [k \in 1..Len(received) |-> Fetched[k]]
    BY <2>2 DEF Fetched
  <2>4. Len(Fetched) = Len(received) /\ SubSeq(Fetched, 1, Len(received)) = Fetched
    BY <2>2, <2>3, Longer
  <2> QED
    BY <2>1, <2>2, <2>4
<1>3. (RecvChunk /\ received' # received) \/ received' = received
  BY DEF Next, vars, receiving, SendMessage, InSend, SendChunk, SendErrorTaken,
         SendWouldBlock, SendFails, SendPollReady, SendPollFails, BrokenPipe,
         ReceiveMessage, InReceive, RecvExits, RecvWouldBlock, RecvPollReady,
         RecvPollFails, Interrupted, SendInterrupted, SendPollInterrupted,
         RecvInterrupted, RecvPollInterrupted, Killed, Reset, Done
<1> QED
  BY <1>1, <1>2, <1>3

\* A recv() that gives bytes fetches the next message or changes nothing of the queue.
LEMMA ChunkIsFetch ==
    ASSUME TypeInv, BufferInv, AlignedInv, TakenInv, RecvChunk, Mode = "whole"
    PROVE  [Queue!Next]_(Queue!vars)
<1>1. /\ part = "no" /\ part' = "no" /\ Length = ReceiveLength
      /\ Length' = Length /\ wire' = wire /\ Mode' = Mode
  BY DEF Mode, RecvChunk, net, Length
<1>2. Posted' = Posted
  BY <1>1, PostedSame
<1>3. TakenInv'
  BY ChunkKeepsTaken
<1>4. PICK k \in 1..r_left :
          /\ k <= Len(wire) - taken
          /\ buffer' \in [1..ReceiveLength -> Bytes \cup {Blank}]
          /\ taken' = taken + k
          /\ IF r_left = k
               THEN /\ receiver' = "idle" /\ recvOk' = "true"
                    /\ received' = Append(received, buffer')
               ELSE UNCHANGED <<receiver, recvOk, received>>
  BY ChunkTaken
<1>5. CASE received' = received
  <2>1. Fetched' = Fetched
    BY <1>5 DEF Fetched, MessageOf
  <2> QED
    BY <1>1, <1>2, <2>1, QueueSame
<1>6. CASE receiver' = "idle" /\ received' = Append(received, buffer')
  <2> PICK n : n = Len(received)
    OBVIOUS
  <2>1. /\ Len(Fetched) = n /\ Fetched' = Append(Fetched, MessageOf(buffer'))
        /\ n \in Nat /\ Len(received') = n + 1 /\ received'[n + 1] = buffer'
    <3>1. received \in Seq([1..ReceiveLength -> Bytes \cup {Blank}]) /\ n \in Nat
      BY DEF TypeInv, TypeOK
    <3> QED
      BY <1>4, <1>6, <3>1, FetchedGrows
  <2>2. /\ taken' = ReceiveLength * (n + 1) /\ taken' <= Len(wire)
    <3>1. taken' = ReceiveLength * (n + 1) + 0
      BY <1>1, <1>3, <1>6, <2>1 DEF TakenInv, Partly
    <3>2. ReceiveLength * (n + 1) \in Nat /\ taken \in Nat /\ Len(wire) \in Nat /\ k \in Int
      BY <2>1, MessageIOAssumption DEF TypeInv, TypeOK
    <3> QED
      BY <1>4, <3>1, <3>2
  <2>3. n + 1 <= Number
    <3>1. Len(wire) = Length * Number + Unfinished
      BY <1>1 DEF AlignedInv
    <3>2. Unfinished \in 0 .. Length - 1 /\ Length \in Nat \ {0}
      BY LengthType DEF Unfinished, TypeInv, TypeOK, CountInv
    <3>3. Number \in Nat
      BY NumberType
    <3>4. Length * (n + 1) <= Length * Number + Unfinished
      BY <1>1, <2>2, <3>1
    <3> HIDE DEF Number, Unfinished, Length
    <3> QED
      BY <2>1, <3>2, <3>3, <3>4, MessagesFit
  <2>4. \A i \in 1..ReceiveLength : buffer'[i] = wire[n * ReceiveLength + i]
    <3>1. n + 1 \in 1..Len(received') /\ n + 1 - 1 = n
      BY <2>1
    <3> QED
      BY <1>1, <1>3, <2>1, <3>1 DEF TakenInv
  <2>5. buffer' = Block(n + 1)
    <3>1. n + 1 - 1 = n
      BY <2>1
    <3> QED
      BY <1>1, <1>4, <2>4, <3>1 DEF Block
  <2>6. Posted[n + 1] = MessageOf(buffer')
    BY <2>1, <2>3, <2>5 DEF Posted
  <2>7. Len(Posted) = Number
    <3>1. Posted = [j \in 1..Number |-> Posted[j]]
      BY DEF Posted
    <3> QED
      BY <3>1, NumberType, Longer
  <2>8. Len(Fetched) < Len(Posted)
    BY <2>1, <2>3, <2>7, NumberType
  <2> QED
    BY <1>1, <1>2, <2>1, <2>6, <2>8, QueueFetch
<1> QED
  BY <1>4, <1>5, <1>6

\* Every step of the two ends is a step of the queue or none.
LEMMA StepOfQueue ==
    ASSUME TypeInv, StreamInv, BufferInv, AlignedInv, TakenInv, [Next]_vars
    PROVE  [Queue!Next]_(Queue!vars)
<1>1. Mode \in {"whole", "partial"} /\ (Mode = "partial" => Mode' = "partial")
  BY DirectionStays, PartStays DEF Mode, TypeInv, TypeOK
<1>2. CASE Mode = "partial"
  BY <1>1, <1>2, FetchedStays, QueueAfterPart
<1>3. CASE Mode = "whole" /\ SendChunk
  BY <1>3, ChunkIsPost
<1>4. CASE Mode = "whole" /\ RecvChunk
  BY <1>4, ChunkIsFetch
<1>5. CASE Mode = "whole" /\ wire' = wire /\ received' = received
  <2>1. Posted' = Posted
    BY <1>5, DirectionStays, PostedSame
  <2>2. Fetched' = Fetched
    BY <1>5 DEF Fetched, MessageOf
  <2>3. Mode' \in {Mode, "partial"}
    BY <1>5 DEF Mode
  <2> QED
    BY <2>1, <2>2, <2>3, QueueSame
<1>6. SendChunk \/ RecvChunk \/ (wire' = wire /\ received' = received)
  BY DEF Next, vars, receiving, SendMessage, InSend, SendErrorTaken,
         SendWouldBlock, SendFails, SendPollReady, SendPollFails, BrokenPipe,
         ReceiveMessage, InReceive, RecvExits, RecvWouldBlock, RecvPollReady,
         RecvPollFails, Interrupted, SendInterrupted, SendPollInterrupted,
         RecvInterrupted, RecvPollInterrupted, Killed, Reset, Done
<1> QED
  BY <1>1, <1>2, <1>3, <1>4, <1>5, <1>6

\* Nothing is posted and nothing fetched when the connection is new.
LEMMA NoneAtFirst == Init => Number = 0
<1> SUFFICES ASSUME Init PROVE Number = 0
  OBVIOUS
<1>1. Length * 0 + 0 = 0 /\ Len(wire) = 0
  BY LengthType DEF Init
<1>2. (Length * 0 + 0) \div Length = 0
  BY LengthType, QuotientUnique
<1> QED
  BY <1>1, <1>2 DEF Number

LEMMA InvsBegin == Init => StreamInv /\ BufferInv /\ AlignedInv /\ TakenInv
<1> SUFFICES ASSUME Init PROVE StreamInv /\ BufferInv /\ AlignedInv /\ TakenInv
  OBVIOUS
<1>1. StreamInv /\ BufferInv
  BY DEF Init, StreamInv, BufferInv, TrueMeansFilled
<1>2. AlignedInv
  BY NoneAtFirst, LengthType DEF Init, AlignedInv, Unfinished
<1>3. TakenInv
  BY MessageIOAssumption DEF Init, TakenInv, Partly
<1> QED
  BY <1>1, <1>2, <1>3

LEMMA QueueBegins == Init => Queue!Init
<1> SUFFICES ASSUME Init PROVE Queue!Init
  OBVIOUS
<1>1. received = <<>>
  BY DEF Init
<1>2. Len(wire) \div Length = 0
  BY NoneAtFirst DEF Number
<1>3. [k \in 1 .. Len(wire) \div Length |-> MessageOf(Block(k))] = <<>>
  BY <1>2
<1>4. [k \in DOMAIN received |-> MessageOf(received[k])] = <<>>
  BY <1>1
<1> QED
  BY <1>3, <1>4 DEF Queue!Init

\* The code of the two functions, over any kernel and under any faults, implements
\* the queue of messages that their callers expect, until a part of a message is left
\* behind: nothing is lost, doubled or overtaken, for messages of any length.
THEOREM ImplementsQueue == Spec => MessagesInOrder
<1>1. Init => TypeInv /\ StreamInv /\ BufferInv /\ AlignedInv /\ TakenInv
  BY TypeInvBegins, InvsBegin
<1>2. TypeInv /\ StreamInv /\ BufferInv /\ AlignedInv /\ TakenInv /\ [Next]_vars
          => TypeInv' /\ StreamInv' /\ BufferInv' /\ AlignedInv' /\ TakenInv'
  BY TypeInvInductive, StreamInvInductive, BufferInvInductive, AlignedInvInductive,
     TakenInvInductive
<1>3. TypeInv /\ StreamInv /\ BufferInv /\ AlignedInv /\ TakenInv /\ [Next]_vars
          => [Queue!Next]_(Queue!vars)
  BY StepOfQueue
<1> QED
  BY <1>1, <1>2, <1>3, QueueBegins, PTL DEF Spec, MessagesInOrder, Queue!Spec

===============================================================================
