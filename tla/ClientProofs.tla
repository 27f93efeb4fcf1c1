----------------------------- MODULE ClientProofs -----------------------------
(***************************************************************************)
(* Proofs about Client: type correctness, what connect() may be trusted    *)
(* for, what close() and the receiver thread find, and the handshake.      *)
(***************************************************************************)
EXTENDS Client, TLAPS

\* Where the sender thread still looks for a connection.
Connecting == {"none", "connect", "poll", "so_error"}

\* Where it has not called SSL_connect yet.
BeforeHandshake == Connecting \cup {"spawn", "init"}

\* The two retry loops count what is left to try: without this, nothing bounds
\* tries, attempt and wasted where they are incremented.
TypeInv ==
    /\ TypeOK
    /\ pc \in Connecting => tries < Tries
    /\ pc \in BeforeHandshake => attempt = 0
    /\ pc = "ssl_connect" => attempt < Attempts
    /\ wasted <= attempt
    /\ pc = "tls_poll" => wasted < attempt

\* Every step of the client keeps TypeInv.
LEMMA TypeInvInductive ==
    ASSUME TypeInv, [Next]_vars
    PROVE  TypeInv'
<1> USE ClientAssumption
    DEF TypeInv, TypeOK, Connecting, BeforeHandshake, ExitCauses, AfterConnect, At,
        Goto, Exit, NotSet, Fd, Tries, Attempts, Segments, conn, recv, tls
<1>1. CASE CreateSocket
  BY <1>1 DEF CreateSocket
<1>2. CASE StartConnect \/ ConnectFails \/ PollInterrupted \/ PollReady \/ Close
  BY <1>2 DEF StartConnect, ConnectFails, PollInterrupted, PollReady, Close, vars
<1>3. CASE PollGivesUp \/ ReadSoError
  BY <1>3 DEF PollGivesUp, ReadSoError, NextTry
<1>4. CASE SpawnReceiver \/ Receiver
  BY <1>4 DEF SpawnReceiver, Receiver, CreateEpoll, AddToEpoll
<1>5. CASE InitTls
  BY <1>5 DEF InitTls
<1>6. CASE SslConnectDone \/ SslConnectWants
  BY <1>6 DEF SslConnectDone, Readable, SslConnectWants, ReadSegments
<1>7. CASE SslConnectFails \/ ClientHelloOnBrokenPipe
  BY <1>7 DEF SslConnectFails, ClientHelloOnBrokenPipe
<1>8. CASE WaitReady \/ WaitInterrupted \/ WaitFails
  BY <1>8 DEF WaitReady, WaitInterrupted, WaitFails, TryAgain
<1>9. CASE Session
  BY <1>9 DEF Session, WriteSends, WriteFails, Readable, ReadSegments, ShutdownTls,
              WriteOnBrokenPipe, FreeTls, UseFreedStore
<1>10. CASE Network
  BY <1>10 DEF Network, Established, Broken, Segment, Alert
<1>11. CASE UNCHANGED vars
  BY <1>11 DEF vars
<1>12. QED
  BY <1>1, <1>2, <1>3, <1>4, <1>5, <1>6, <1>7, <1>8, <1>9, <1>10, <1>11
     DEF Next, Sender, Connect, Handshake, Done

\* TypeInv is an invariant.
LEMMA TypeInvariant == Spec => []TypeInv
<1>1. Init => TypeInv
  BY ClientAssumption DEF Init, TypeInv, TypeOK, Connecting, BeforeHandshake,
                          AfterConnect, NotSet, Tries, Attempts, Segments
<1>2. TypeInv /\ [Next]_vars => TypeInv'
  BY TypeInvInductive
<1>3. QED
  BY <1>1, <1>2, PTL DEF Spec

\* Every variable of the client keeps its type, for flights of any length: neither
\* retry loop counts beyond its limit, and no segment is read twice.
THEOREM TypeCorrect == Spec => []TypeOK
<1>1. TypeInv => TypeOK
  BY DEF TypeInv
<1>2. QED
  BY <1>1, TypeInvariant, PTL

-------------------------------------------------------------------------------
(* What connect() may be trusted for. *)

\* The strengthening of FirstTryIsHonest and SctpConnectIsHonest: a pending error
\* is not lost before a try has read it, and over SCTP only an association that was
\* established gets as far as SO_ERROR.
ConnectInv ==
    /\ sock = "up" => reached = "yes"
    /\ pc \in {"so_error"} \cup AfterConnect => sock \in {"up", "failed"}
    /\ tries = 0 /\ sock = "failed" /\ reached = "no" => so_error = "set"
    /\ m_protocol = SCTP /\ pc = "so_error" => reached = "yes"
    /\ FirstTryIsHonest
    /\ SctpConnectIsHonest

\* Every step of the client keeps ConnectInv.
LEMMA ConnectInvInductive ==
    ASSUME TypeInv, ConnectInv, [Next]_vars
    PROVE  ConnectInv'
<1> USE DEF ConnectInv, FirstTryIsHonest, SctpConnectIsHonest, TypeInv, TypeOK,
            Connecting, AfterConnect, Tries, TCP, SCTP, At, Goto, Exit, conn, recv, tls
<1>1. CASE CreateSocket
  BY <1>1 DEF CreateSocket
<1>2. CASE Connect
  BY <1>2 DEF Connect, StartConnect, ConnectFails, PollInterrupted, PollGivesUp,
              PollReady, Writable, ReadSoError, NextTry, Close, vars
<1>3. CASE SpawnReceiver \/ Receiver
  BY <1>3 DEF SpawnReceiver, Receiver, CreateEpoll, AddToEpoll
<1>4. CASE Handshake
  BY <1>4 DEF Handshake, InitTls, SslConnectDone, Readable, SslConnectWants,
              SslConnectFails, ClientHelloOnBrokenPipe, WaitReady, WaitInterrupted,
              WaitFails, TryAgain
<1>5. CASE Session
  BY <1>5 DEF Session, WriteSends, WriteFails, Readable, ShutdownTls, WriteOnBrokenPipe,
              FreeTls, UseFreedStore
<1>6. CASE Network
  BY <1>6 DEF Network, Established, Broken, Segment, Alert
<1>7. CASE UNCHANGED vars
  BY <1>7 DEF vars
<1>8. QED
  BY <1>1, <1>2, <1>3, <1>4, <1>5, <1>6, <1>7 DEF Next, Sender, Done

\* ConnectInv is an invariant.
LEMMA ConnectInvariant == Spec => []ConnectInv
<1>1. Init => ConnectInv
  BY DEF Init, ConnectInv, FirstTryIsHonest, SctpConnectIsHonest, AfterConnect
<1>2. TypeInv /\ ConnectInv /\ [Next]_vars => ConnectInv'
  BY ConnectInvInductive
<1>3. QED
  BY <1>1, <1>2, TypeInvariant, PTL DEF Spec

\* connect() reports a connection that was never established only after a retry.
THEOREM FirstTryTells == Spec => []FirstTryIsHonest
<1>1. ConnectInv => FirstTryIsHonest
  BY DEF ConnectInv
<1>2. QED
  BY <1>1, ConnectInvariant, PTL

\* Over SCTP connect() never reports a connection that was never established.
THEOREM SctpConnectTells == Spec => []SctpConnectIsHonest
<1>1. ConnectInv => SctpConnectIsHonest
  BY DEF ConnectInv
<1>2. QED
  BY <1>1, ConnectInvariant, PTL

-------------------------------------------------------------------------------
(* What close() leaves, and what the receiver thread finds. *)

\* The strengthening of NothingLeftConnecting and ReceiverSeesOpenSocket: the third
\* failed try leads to close() and nowhere else, and up to there neither a receiver
\* thread nor a context exists.
SocketInv ==
    /\ tries = Tries => pc \in {"close", "ended"}
    /\ pc \in Connecting \cup {"close"} => receiver = "none" /\ ctx = "none"
    /\ pc \in {"connect", "poll", "so_error", "close"} \cup AfterConnect
           => m_socket = Fd /\ fdOpen = "open"
    /\ fdOpen = "open" <=> m_socket = Fd
    /\ receiver = "none" => watched = NotSet
    /\ NothingLeftConnecting
    /\ ReceiverSeesOpenSocket

\* Every step of the client keeps SocketInv.
LEMMA SocketInvInductive ==
    ASSUME TypeInv, SocketInv, [Next]_vars
    PROVE  SocketInv'
<1> USE DEF SocketInv, NothingLeftConnecting, ReceiverSeesOpenSocket, TypeInv, TypeOK,
            Connecting, AfterConnect, Tries, NotSet, Fd, At, Goto, Exit, conn, recv, tls
<1>1. CASE CreateSocket
  BY <1>1 DEF CreateSocket
<1>2. CASE Connect
  <2>1. CASE StartConnect \/ ConnectFails \/ PollInterrupted \/ PollReady
    BY <2>1 DEF StartConnect, ConnectFails, PollInterrupted, PollReady, vars
  <2>2. CASE PollGivesUp
    BY <2>2 DEF PollGivesUp, NextTry
  <2>3. CASE ReadSoError
    BY <2>3 DEF ReadSoError, NextTry
  <2>4. CASE Close
    BY <2>4 DEF Close
  <2>. QED
    BY <1>2, <2>1, <2>2, <2>3, <2>4 DEF Connect
<1>3. CASE SpawnReceiver \/ Receiver
  BY <1>3 DEF SpawnReceiver, Receiver, CreateEpoll, AddToEpoll
<1>4. CASE Handshake
  BY <1>4 DEF Handshake, InitTls, SslConnectDone, Readable, SslConnectWants,
              SslConnectFails, ClientHelloOnBrokenPipe, WaitReady, WaitInterrupted,
              WaitFails, TryAgain
<1>5. CASE Session
  BY <1>5 DEF Session, WriteSends, WriteFails, Readable, ShutdownTls, WriteOnBrokenPipe,
              FreeTls, UseFreedStore
<1>6. CASE Network
  BY <1>6 DEF Network, Established, Broken, Segment, Alert
<1>7. CASE UNCHANGED vars
  BY <1>7 DEF vars
<1>8. QED
  BY <1>1, <1>2, <1>3, <1>4, <1>5, <1>6, <1>7 DEF Next, Sender, Done

\* SocketInv is an invariant.
LEMMA SocketInvariant == Spec => []SocketInv
<1>1. Init => SocketInv
  BY DEF Init, SocketInv, NothingLeftConnecting, ReceiverSeesOpenSocket, AfterConnect,
         Connecting, Tries, NotSet, Fd
<1>2. TypeInv /\ SocketInv /\ [Next]_vars => SocketInv'
  BY SocketInvInductive
<1>3. QED
  BY <1>1, <1>2, TypeInvariant, PTL DEF Spec

\* A connect() that gives up leaves no connection, receiver thread or context, even
\* when the server's answer comes late.
THEOREM GivingUpIsFinal == Spec => []NothingLeftConnecting
<1>1. SocketInv => NothingLeftConnecting
  BY DEF SocketInv
<1>2. QED
  BY <1>1, SocketInvariant, PTL

\* The client's receiver thread watches the open socket and nothing else, whenever
\* it comes to run.
THEOREM ReceiverFindsTheSocket == Spec => []ReceiverSeesOpenSocket
<1>1. SocketInv => ReceiverSeesOpenSocket
  BY DEF SocketInv
<1>2. QED
  BY <1>1, SocketInvariant, PTL

-------------------------------------------------------------------------------
(* The handshake and the message. *)

\* The strengthening of SentOnlyAfterHandshake: a finished handshake has read both
\* flights and is past tls_connect(); the flights came over the connection, so one
\* that is finished by what a reset left to read was established all the same.
HandshakeInv ==
    /\ got + inbox > 0 => reached = "yes"
    /\ hs = "done" => /\ pc \in {"write", "shutdown", "free", "ended"}
                      /\ reached = "yes" /\ got = Segments
    /\ sent = "yes" => hs = "done"

\* Every step of the client keeps HandshakeInv.
LEMMA HandshakeInvInductive ==
    ASSUME TypeInv, ConnectInv, HandshakeInv, [Next]_vars
    PROVE  HandshakeInv'
<1> USE ClientAssumption
    DEF HandshakeInv, ConnectInv, TypeInv, TypeOK, Segments, At, Goto, Exit,
        conn, recv, tls
<1>1. CASE CreateSocket
  BY <1>1 DEF CreateSocket
<1>2. CASE Connect
  BY <1>2 DEF Connect, StartConnect, ConnectFails, PollInterrupted, PollGivesUp,
              PollReady, Writable, ReadSoError, NextTry, Close, vars
<1>3. CASE SpawnReceiver \/ Receiver
  BY <1>3 DEF SpawnReceiver, Receiver, CreateEpoll, AddToEpoll
<1>4. CASE Handshake
  BY <1>4 DEF Handshake, InitTls, SslConnectDone, Readable, SslConnectWants,
              SslConnectFails, ClientHelloOnBrokenPipe, WaitReady, WaitInterrupted,
              WaitFails, TryAgain, ReadSegments
<1>5. CASE Session
  BY <1>5 DEF Session, WriteSends, WriteFails, Readable, ShutdownTls, WriteOnBrokenPipe,
              FreeTls, UseFreedStore, ReadSegments
<1>6. CASE Network
  BY <1>6 DEF Network, Established, Broken, Segment, Alert
<1>7. CASE UNCHANGED vars
  BY <1>7 DEF vars
<1>8. QED
  BY <1>1, <1>2, <1>3, <1>4, <1>5, <1>6, <1>7 DEF Next, Sender, Done

\* The message never leaves on an unfinished handshake, however its flights are cut
\* into segments.
THEOREM MessageFollowsHandshake == Spec => []SentOnlyAfterHandshake
<1>1. Init => HandshakeInv
  BY DEF Init, HandshakeInv
<1>2. TypeInv /\ ConnectInv /\ HandshakeInv /\ [Next]_vars => HandshakeInv'
  BY HandshakeInvInductive
<1>3. HandshakeInv => SentOnlyAfterHandshake
  BY DEF HandshakeInv, SentOnlyAfterHandshake
<1>4. QED
  BY <1>1, <1>2, <1>3, TypeInvariant, ConnectInvariant, PTL DEF Spec

-------------------------------------------------------------------------------
(* Three attempts. *)

\* What the server's alert, or the end of its stream, is worth in attempts.
Alerts == IF alert = "yes" THEN 1 ELSE 0

\* The strengthening of GivenUpAfterThree: as long as the connection is up, each
\* attempt but the first was preceded by a wait that was wasted, by a new segment, or
\* by the alert, after which no other call asks for more to read.
AttemptsInv ==
    /\ pc = "ssl_connect" /\ sock = "up" => got + inbox + wasted + Alerts >= attempt
    /\ pc = "tls_poll" /\ sock = "up" => got + inbox + wasted + Alerts + 1 >= attempt
    /\ pc = "tls_poll" => outcome \in {"read", "write"}
    /\ pc = "tls_poll" /\ sock = "up" /\ outcome = "read" => got + wasted + 1 >= attempt
    /\ GivenUpAfterThree

\* Every step of the client keeps AttemptsInv.
LEMMA AttemptsInvInductive ==
    ASSUME TypeInv, ConnectInv, AttemptsInv, [Next]_vars
    PROVE  AttemptsInv'
<1> USE ClientAssumption
    DEF AttemptsInv, Alerts, GivenUpAfterThree, ConnectInv, AfterConnect, TypeInv, TypeOK,
        Connecting, BeforeHandshake, Attempts, Segments, At, Goto, Exit, conn, recv, tls
<1>1. CASE CreateSocket
  BY <1>1 DEF CreateSocket
<1>2. CASE Connect
  BY <1>2 DEF Connect, StartConnect, ConnectFails, PollInterrupted, PollGivesUp,
              PollReady, Writable, ReadSoError, NextTry, Close, vars
<1>3. CASE SpawnReceiver \/ Receiver
  BY <1>3 DEF SpawnReceiver, Receiver, CreateEpoll, AddToEpoll
<1>4. CASE Handshake
  <2>1. CASE InitTls \/ SslConnectDone \/ SslConnectFails \/ ClientHelloOnBrokenPipe
    BY <2>1 DEF InitTls, SslConnectDone, Readable, SslConnectFails,
                ClientHelloOnBrokenPipe,
                ReadSegments
  <2>2. CASE SslConnectWants
    BY <2>2 DEF SslConnectWants, ReadSegments
  <2>3. CASE WaitReady
    BY <2>3 DEF WaitReady, TryAgain
  <2>4. CASE WaitInterrupted \/ WaitFails
    BY <2>4 DEF WaitInterrupted, WaitFails, TryAgain
  <2>. QED
    BY <1>4, <2>1, <2>2, <2>3, <2>4 DEF Handshake
<1>5. CASE Session
  BY <1>5 DEF Session, WriteSends, WriteFails, Readable, ShutdownTls, WriteOnBrokenPipe,
              FreeTls, UseFreedStore, ReadSegments
<1>6. CASE Network
  BY <1>6 DEF Network, Established, Broken, Segment, Alert
<1>7. CASE UNCHANGED vars
  BY <1>7 DEF vars
<1>8. QED
  BY <1>1, <1>2, <1>3, <1>4, <1>5, <1>6, <1>7 DEF Next, Sender, Done

\* However the flights are cut and whatever interrupts the waits, an attempt of
\* SSL_connect is spent only on a new segment, on a wait that found nothing, or once on
\* the server's alert or end of stream.
THEOREM NoAttemptIsLost == Spec => []GivenUpAfterThree
<1>1. Init => AttemptsInv
  BY DEF Init, AttemptsInv, Alerts, GivenUpAfterThree
<1>2. TypeInv /\ ConnectInv /\ AttemptsInv /\ [Next]_vars => AttemptsInv'
  BY AttemptsInvInductive
<1>3. AttemptsInv => GivenUpAfterThree
  BY DEF AttemptsInv
<1>4. QED
  BY <1>1, <1>2, <1>3, TypeInvariant, ConnectInvariant, PTL DEF Spec

===============================================================================
