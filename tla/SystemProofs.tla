----------------------------- MODULE SystemProofs -----------------------------
(***************************************************************************)
(* Proofs about System.  The composition adds nothing to its parts: each   *)
(* process behaves in System as its own module says, so what is proved of  *)
(* Server and Client holds in System as well.  And what only the two       *)
(* together have: what a message sent, and a client that lives, mean to    *)
(* the server.                                                             *)
(***************************************************************************)
EXTENDS System, ServerProofs

\* A step of the composition is a step of the server, or none.
LEMMA ServerSteps == [SysNext]_sysvars => [Next]_vars
<1> SUFFICES ASSUME [SysNext]_sysvars PROVE [Next]_vars
  OBVIOUS
<1>1. CASE ClientStep \/ Establish \/ Refuse \/ Deliver \/ DeliverAlert \/ Answer
  BY <1>1 DEF ClientStep, Establish, Refuse, Deliver, DeliverAlert, Answer
<1>2. CASE ServerStep
  BY <1>2 DEF ServerStep, Accepts, Next, Listener, Progress, Session
<1>3. CASE ToServer
  <2>1. PeerConnects(TheClient) \/ PeerSpeaks(TheClient) \/ PeerResets(TheClient)
          => Remote(TheClient)
    BY DEF Remote
  <2>2. \E p \in Peers : Remote(p)
    BY <1>3, <2>1, SystemAssumption DEF ToServer, Arrives, Hears, HearsReset, Others
  <2> QED
    BY <2>2 DEF Next
<1>4. CASE UNCHANGED sysvars
  BY <1>4 DEF sysvars
<1> QED
  BY <1>1, <1>2, <1>3, <1>4 DEF SysNext

\* In the composition the server behaves as module Server says: no assumption that
\* Server makes about its peers is broken by the real client.
THEOREM ServerInSystem == SysSpec => Spec
<1>1. SysInit => Init
  BY DEF SysInit
<1> QED
  BY <1>1, ServerSteps, PTL DEF SysSpec, Spec

\* No session of the composition runs on another socket than m_socket names.
THEOREM SessionStaysOnItsSocketInSystem == SysSpec => []SessionOnCurrentSocket
BY ServerInSystem, SessionStaysOnItsSocket, PTL

-------------------------------------------------------------------------------

\* No step of the server changes the protocol both processes were started with.
LEMMA ProtocolStays == [Next]_vars => UNCHANGED m_protocol
<1> SUFFICES ASSUME [Next]_vars PROVE UNCHANGED m_protocol
  OBVIOUS
<1> USE DEF vars, socket, tls, net, threads, Exit, Goto
<1>1. CASE CreateSocket \/ Done \/ UNCHANGED vars
  BY <1>1 DEF CreateSocket, Done
<1>2. CASE Breakdown
  BY <1>2 DEF Breakdown, PollFails, ListeningSocketFails, UseFreedStore
<1>3. CASE PollAgain \/ PollReady \/ AcceptFails \/ NamesFail \/ PublishSocket \/ InitialiseContext
  BY <1>3 DEF PollAgain, PollReady, AcceptFails, NamesFail, PublishSocket,
              InitialiseContext
<1>4. ASSUME NEW p \in Peers, Accept(p) PROVE UNCHANGED m_protocol
  BY <1>4 DEF Accept
<1>5. CASE LoadFiles
  BY <1>5 DEF LoadFiles, OpenPem, PemUnusable, UsePem, OpenCopy, CopyFails, CloseCopy,
              OpenStore, SetCertStore, SetFreedStore
<1>6. CASE Session
  BY <1>6 DEF Session, TlsAccept, NoBio, SslAccept, Shutdown, ShutdownOnBrokenPipe,
              FreeSsl, FreeCtx
<1>7. ASSUME NEW p \in Peers, Worker(p) PROVE UNCHANGED m_protocol
  BY <1>7 DEF Worker, SpawnReceiver, EndSender, CreateEpoll, AddToEpoll
<1>8. ASSUME NEW p \in Peers, Remote(p) PROVE UNCHANGED m_protocol
  BY <1>8 DEF Remote, PeerConnects, PeerSpeaks, PeerResets
<1> QED
  BY <1>1, <1>2, <1>3, <1>4, <1>5, <1>6, <1>7, <1>8 DEF Next, Listener, Progress

\* A step that leaves the client and the protocol alone is none of the client's.
LEMMA ClientIdle == UNCHANGED <<client, m_protocol>> => UNCHANGED C!vars
BY DEF client, C!vars, C!conn, C!recv, C!tls

\* A step of the composition is a step of the client, or none.
LEMMA ClientSteps == [SysNext]_sysvars => [C!Next]_(C!vars)
<1> SUFFICES ASSUME [SysNext]_sysvars PROVE [C!Next]_(C!vars)
  OBVIOUS
<1>1. CASE ClientStep
  BY <1>1 DEF ClientStep, C!Next
<1>2. CASE Establish \/ Refuse \/ Deliver \/ DeliverAlert
  BY <1>2 DEF Establish, Refuse, Deliver, DeliverAlert, C!Next, C!Network
<1>3. ASSUME UNCHANGED client PROVE [C!Next]_(C!vars)
  <2>1. UNCHANGED m_protocol
    BY ServerSteps, ProtocolStays
  <2> QED
    BY <2>1, <1>3, ClientIdle
<1>4. CASE ServerStep \/ Answer \/ ToServer \/ UNCHANGED sysvars
  BY <1>3, <1>4 DEF ServerStep, Accepts, Answer, ToServer, sysvars
<1> QED
  BY <1>1, <1>2, <1>3, <1>4 DEF SysNext, sysvars

\* In the composition the client behaves as module Client says: the server's answers
\* are among those that Client is prepared for.
THEOREM ClientInSystem == SysSpec => C!Spec
<1>1. SysInit => C!Init
  BY DEF SysInit
<1> QED
  BY <1>1, ClientSteps, PTL DEF SysSpec, C!Spec

-------------------------------------------------------------------------------
(* A message means a server that has sent all of its handshake. *)

\* What the client has read of the handshake is what the server has sent; a finished
\* handshake has read all of it.
FlightsInv ==
    /\ answered \in 0..2
    /\ c_got \in Nat /\ c_inbox \in Nat
    /\ c_got + c_inbox > Flight1 => answered = 2
    /\ c_hs = "done" => /\ c_pc \in {"write", "shutdown", "free", "ended"}
                        /\ c_got = Flight1 + Flight2
    /\ c_sent = "yes" => c_hs = "done"

\* The second flight leaves the server in the one session it has with the client.
AnsweredInv == answered = 2 => conn[TheClient] = "open" /\ ~Ahead

\* An accepted connection has had its turn.
TurnInv == \A p \in Peers : conn[p] = "open" => turn[p] # 0

\* Every step of the client, and every answer that reaches it, keeps FlightsInv.
LEMMA FlightsInvInductive == FlightsInv /\ [SysNext]_sysvars => FlightsInv'
<1> SUFFICES ASSUME FlightsInv, [SysNext]_sysvars PROVE FlightsInv'
  OBVIOUS
<1> USE SystemAssumption
    DEF FlightsInv, C!At, C!Goto, C!Exit, C!conn, C!recv, C!tls, C!Segments
<1>1. ASSUME C!CreateSocket, UNCHANGED answered PROVE FlightsInv'
  BY <1>1 DEF C!CreateSocket
<1>2. ASSUME C!Connect, UNCHANGED answered PROVE FlightsInv'
  BY <1>2 DEF C!Connect, C!StartConnect, C!ConnectFails, C!PollInterrupted,
              C!PollGivesUp, C!PollReady, C!ReadSoError, C!NextTry, C!Close, C!vars
<1>3. ASSUME C!SpawnReceiver \/ C!Receiver, UNCHANGED answered PROVE FlightsInv'
  BY <1>3 DEF C!SpawnReceiver, C!Receiver, C!CreateEpoll, C!AddToEpoll
<1>4. ASSUME C!Handshake, UNCHANGED answered PROVE FlightsInv'
  BY <1>4 DEF C!Handshake, C!InitTls, C!SslConnectDone, C!Readable, C!SslConnectWants,
              C!SslConnectFails, C!ClientHelloOnBrokenPipe, C!WaitReady,
              C!WaitInterrupted, C!WaitFails, C!TryAgain, C!ReadSegments
<1>5. ASSUME C!Session, UNCHANGED answered PROVE FlightsInv'
  BY <1>5 DEF C!Session, C!WriteSends, C!WriteFails, C!Readable, C!ShutdownTls,
              C!WriteOnBrokenPipe, C!FreeTls, C!UseFreedStore, C!ReadSegments
<1>6. CASE ClientStep
  BY <1>1, <1>2, <1>3, <1>4, <1>5, <1>6 DEF ClientStep, C!Sender
<1>7. CASE Establish \/ Refuse \/ Deliver \/ DeliverAlert
  BY <1>7 DEF Establish, Refuse, Deliver, DeliverAlert, SegmentsSent, C!Established,
              C!Broken, C!Segment, C!Alert
<1>8. CASE ServerStep \/ Answer \/ ToServer \/ UNCHANGED sysvars
  BY <1>8 DEF ServerStep, Accepts, Answer, ToServer, client, sysvars
<1> QED
  BY <1>6, <1>7, <1>8 DEF SysNext, sysvars

\* No step of the server takes an accepted connection back or without a turn.
LEMMA TurnInvInductive == TypeOK /\ TurnInv /\ [Next]_vars => TurnInv'
<1> SUFFICES ASSUME TypeOK, TurnInv, [Next]_vars PROVE TurnInv'
  OBVIOUS
<1> USE DEF TurnInv, TypeOK, At, Goto, Exit, socket, tls, net, threads
<1>1. CASE CreateSocket \/ Breakdown \/ Done \/ UNCHANGED vars
  BY <1>1 DEF CreateSocket, Breakdown, PollFails, ListeningSocketFails, UseFreedStore,
              Done, vars
<1>2. CASE PollAgain \/ PollReady \/ AcceptFails \/ NamesFail \/ PublishSocket \/ InitialiseContext
  BY <1>2 DEF PollAgain, PollReady, AcceptFails, NamesFail, PublishSocket,
              InitialiseContext, vars
<1>3. ASSUME NEW p \in Peers, Accept(p) PROVE TurnInv'
  BY <1>3 DEF Accept
<1>4. CASE LoadFiles
  BY <1>4 DEF LoadFiles, OpenPem, PemUnusable, UsePem, OpenCopy, CopyFails, CloseCopy,
              OpenStore, SetCertStore, SetFreedStore
<1>5. CASE Session
  BY <1>5 DEF Session, TlsAccept, NoBio, SslAccept, Shutdown, ShutdownOnBrokenPipe,
              FreeSsl, FreeCtx
<1>6. ASSUME NEW p \in Peers, Worker(p) PROVE TurnInv'
  BY <1>6 DEF Worker, SpawnReceiver, EndSender, CreateEpoll, AddToEpoll
<1>7. ASSUME NEW p \in Peers, Remote(p) PROVE TurnInv'
  BY <1>7 DEF Remote, PeerConnects, PeerSpeaks, PeerResets
<1> QED
  BY <1>1, <1>2, <1>3, <1>4, <1>5, <1>6, <1>7 DEF Next, Listener, Progress

\* A connection that is accepted and has come to its SSL_accept never comes to it again.
LEMMA NeverAheadAgain ==
    ASSUME TypeOK, [Next]_vars, conn[TheClient] = "open", ~Ahead
    PROVE  conn'[TheClient] = "open" /\ ~Ahead'
<1> USE SystemAssumption
    DEF Ahead, TypeOK, At, Goto, Exit, socket, tls, net, threads
<1>1. CASE CreateSocket \/ Breakdown \/ Done \/ UNCHANGED vars
  BY <1>1 DEF CreateSocket, Breakdown, PollFails, ListeningSocketFails, UseFreedStore,
              Done, vars
<1>2. CASE PollAgain \/ PollReady \/ AcceptFails \/ NamesFail \/ PublishSocket \/ InitialiseContext
  BY <1>2 DEF PollAgain, PollReady, AcceptFails, NamesFail, PublishSocket,
              InitialiseContext, vars
<1>3. ASSUME NEW p \in Peers, Accept(p) PROVE conn'[TheClient] = "open" /\ ~Ahead'
  <2>1. p # TheClient
    BY <1>3 DEF Accept, Pending
  <2> QED
    BY <1>3, <2>1 DEF Accept
<1>4. CASE LoadFiles
  BY <1>4 DEF LoadFiles, OpenPem, PemUnusable, UsePem, OpenCopy, CopyFails, CloseCopy,
              OpenStore, SetCertStore, SetFreedStore
<1>5. CASE Session
  BY <1>5 DEF Session, TlsAccept, NoBio, SslAccept, Shutdown, ShutdownOnBrokenPipe,
              FreeSsl, FreeCtx
<1>6. ASSUME NEW p \in Peers, Worker(p) PROVE conn'[TheClient] = "open" /\ ~Ahead'
  BY <1>6 DEF Worker, SpawnReceiver, EndSender, CreateEpoll, AddToEpoll
<1>7. ASSUME NEW p \in Peers, Remote(p) PROVE conn'[TheClient] = "open" /\ ~Ahead'
  BY <1>7 DEF Remote, PeerConnects, PeerSpeaks, PeerResets
<1> QED
  BY <1>1, <1>2, <1>3, <1>4, <1>5, <1>6, <1>7 DEF Next, Listener, Progress

\* Where the listener is when it serves the client.
LEMMA ServesIsOpen ==
    ASSUME SessionInv, ServingInv, Serves
    PROVE  conn[TheClient] = "open" /\ ~Ahead
BY DEF SessionInv, ServingInv, Serves, At, InSession, Free, Ahead

\* No step of either process, and nothing that travels between them, breaks AnsweredInv:
\* the second flight is sent from inside SSL_accept.
LEMMA AnsweredInvInductive ==
    ASSUME TypeOK, SessionInv, ServingInv, FlightsInv, AnsweredInv, [SysNext]_sysvars
    PROVE  AnsweredInv'
<1>1. [Next]_vars
  BY ServerSteps
<1>2. ASSUME UNCHANGED answered PROVE AnsweredInv'
  BY <1>1, <1>2, NeverAheadAgain DEF AnsweredInv
<1>3. CASE Answer
  <2>1. conn[TheClient] = "open" /\ ~Ahead
    BY <1>3, ServesIsOpen DEF Answer
  <2>2. UNCHANGED vars
    BY <1>3 DEF Answer
  <2> QED
    BY <2>1, <2>2 DEF AnsweredInv, Ahead, vars, socket, net
<1>4. CASE ServerStep
  BY <1>2, <1>4 DEF ServerStep, Accepts
<1>6. CASE \/ ClientStep \/ Establish \/ Refuse \/ Deliver \/ DeliverAlert
           \/ ToServer \/ UNCHANGED sysvars
  BY <1>2, <1>6 DEF ClientStep, Establish, Refuse, Deliver, DeliverAlert, ToServer,
                    sysvars
<1> QED
  BY <1>3, <1>4, <1>6 DEF SysNext, sysvars

\* For flights of any length and any other peers: when the client's message has left,
\* the server has accepted the connection and sent all of its handshake on it.
THEOREM MessageMeansSession == SysSpec => []SentMeansServed
<1>1. SysInit => FlightsInv /\ AnsweredInv /\ TurnInv
  BY SystemAssumption DEF SysInit, Init, C!Init, FlightsInv, AnsweredInv, TurnInv
<1>2. SysSpec => []TypeOK /\ []SessionInv /\ []ServingInv
  BY ServerInSystem, TypeCorrect, SessionInvariant, ServingInvariant, PTL
<1>3. TypeOK /\ TurnInv /\ [SysNext]_sysvars => TurnInv'
  BY ServerSteps, TurnInvInductive
<1>4. TypeOK /\ SessionInv /\ ServingInv /\ FlightsInv /\ AnsweredInv
          /\ [SysNext]_sysvars => AnsweredInv'
  BY AnsweredInvInductive
<1>5. FlightsInv /\ AnsweredInv /\ TurnInv => SentMeansServed
  BY SystemAssumption
     DEF FlightsInv, AnsweredInv, TurnInv, SentMeansServed
<1> QED
  BY <1>1, <1>2, <1>3, <1>4, <1>5, FlightsInvInductive, PTL DEF SysSpec

-------------------------------------------------------------------------------
(* A client that lives on does no harm. *)

\* The client's connection is lost, or its descriptor closed, only once the server's
\* process is gone; so a reset that the server sees comes from a client that is gone.
ResetInv ==
    /\ c_fd = "closed" => c_pc \in {"none", "ended"} /\ c_sock \in {"fresh", "shut"}
    /\ c_pc \in {"none", "connect"} => c_sock = "fresh"
    /\ c_sock \in {"fresh", "trying"} => c_reached = "no"
    /\ c_reached = "yes" => proc # "starting"
    /\ c_reached = "yes" /\ (c_sock = "failed" \/ c_fd = "closed") => proc \in ExitCauses
    /\ conn[TheClient] # "idle" => c_reached = "yes"
    /\ peer[TheClient] = "reset" => c_proc # "running"

\* The exits that a peer can cause need one that has reset its connection.
BlameInv == proc \in {"peer_gone", "sigpipe"} => \E p \in Peers : peer[p] = "reset"

\* What the server does to the variables of ResetInv when no peer acts.
LEMMA ServerKeeps ==
    ASSUME TypeOK, [Next]_vars,
           CreateSocket \/ Listener \/ (\E p \in Peers : Worker(p)) \/ UNCHANGED vars
    PROVE  /\ peer' = peer
           /\ \A p \in Peers : conn'[p] # "idle" => conn[p] # "idle"
           /\ proc # "starting" => proc' # "starting"
           /\ proc \in ExitCauses => proc' = proc
<1> USE DEF TypeOK, ExitCauses, At, Goto, Exit, socket, tls, net, threads
<1>1. CASE CreateSocket \/ Breakdown \/ UNCHANGED vars
  BY <1>1 DEF CreateSocket, Breakdown, PollFails, ListeningSocketFails, UseFreedStore,
              vars
<1>2. CASE PollAgain \/ PollReady \/ AcceptFails \/ NamesFail \/ PublishSocket \/ InitialiseContext
  BY <1>2 DEF PollAgain, PollReady, AcceptFails, NamesFail, PublishSocket,
              InitialiseContext, vars
<1>3. CASE \E p \in Peers : Accept(p)
  BY <1>3 DEF Accept, Pending
<1>4. CASE LoadFiles
  BY <1>4 DEF LoadFiles, OpenPem, PemUnusable, UsePem, OpenCopy, CopyFails, CloseCopy,
              OpenStore, SetCertStore, SetFreedStore
<1>5. CASE Session
  BY <1>5 DEF Session, TlsAccept, NoBio, SslAccept, Shutdown, ShutdownOnBrokenPipe,
              FreeSsl, FreeCtx
<1>6. CASE \E p \in Peers : Worker(p)
  BY <1>6 DEF Worker, SpawnReceiver, EndSender, CreateEpoll, AddToEpoll
<1> QED
  BY <1>1, <1>2, <1>3, <1>4, <1>5, <1>6 DEF Listener, Progress

\* No step of the client, and nothing that reaches it, breaks ResetInv.
LEMMA ClientKeepsResetInv ==
    ASSUME TypeOK, ResetInv, ClientStep \/ Establish \/ Refuse \/ Deliver \/ DeliverAlert
    PROVE  ResetInv'
<1> USE DEF ResetInv, C!At, C!Goto, C!Exit, C!ExitCauses, C!conn, C!recv,
            C!tls, vars, net
<1>1. ASSUME C!CreateSocket, UNCHANGED vars PROVE ResetInv'
  BY <1>1 DEF C!CreateSocket
<1>2. ASSUME C!Connect, UNCHANGED vars, (c_sock # "up" /\ c_sock' = "up") => proc = "running"
      PROVE  ResetInv'
  <2>1. CASE C!StartConnect \/ C!ConnectFails
    BY <1>2, <2>1 DEF C!StartConnect, C!ConnectFails
  <2>2. CASE C!Close
    BY <1>2, <2>2 DEF C!Close, C!ShutdownFails
  <2> QED
    BY <1>2, <2>1, <2>2 DEF C!Connect, C!PollInterrupted, C!PollGivesUp, C!PollReady,
                            C!ReadSoError, C!NextTry, C!vars
<1>3. ASSUME C!SpawnReceiver \/ C!Receiver, UNCHANGED vars PROVE ResetInv'
  BY <1>3 DEF C!SpawnReceiver, C!Receiver, C!CreateEpoll, C!AddToEpoll
<1>4. ASSUME C!Handshake, UNCHANGED vars PROVE ResetInv'
  BY <1>4 DEF C!Handshake, C!InitTls, C!SslConnectDone, C!Readable, C!SslConnectWants,
              C!SslConnectFails, C!ClientHelloOnBrokenPipe, C!WaitReady,
              C!WaitInterrupted, C!WaitFails, C!TryAgain, C!ReadSegments
<1>5. ASSUME C!Session, UNCHANGED vars PROVE ResetInv'
  BY <1>5 DEF C!Session, C!WriteSends, C!WriteFails, C!Readable, C!ShutdownTls,
              C!WriteOnBrokenPipe, C!FreeTls, C!UseFreedStore, C!ReadSegments
<1>6. CASE ClientStep
  BY <1>1, <1>2, <1>3, <1>4, <1>5, <1>6 DEF ClientStep, C!Sender
<1>7. CASE Establish \/ Deliver \/ DeliverAlert
  BY <1>7 DEF Establish, Deliver, DeliverAlert, C!Established, C!Segment, C!Alert
<1>8. CASE Refuse
  BY <1>8 DEF Refuse, C!Broken, TypeOK
<1> QED
  BY <1>6, <1>7, <1>8

\* Every step of the composition keeps ResetInv.
LEMMA ResetInvInductive ==
    ASSUME TypeOK, ResetInv, [SysNext]_sysvars
    PROVE  ResetInv'
<1> USE SystemAssumption
<1>1. CASE ClientStep \/ Establish \/ Refuse \/ Deliver \/ DeliverAlert
  BY <1>1, ClientKeepsResetInv
<1>2. CASE ServerStep \/ Answer \/ UNCHANGED sysvars
  <2>1. UNCHANGED client
    BY <1>2 DEF ServerStep, Accepts, Answer, sysvars
  <2>2. CreateSocket \/ Listener \/ (\E p \in Peers : Worker(p)) \/ UNCHANGED vars
    BY <1>2 DEF ServerStep, Accepts, Answer, sysvars, Listener, Progress, Session
  <2>3. peer' = peer /\ (conn'[TheClient] # "idle" => conn[TheClient] # "idle")
    BY <2>2, ServerSteps, ServerKeeps
  <2>4. (proc # "starting" => proc' # "starting") /\ (proc \in ExitCauses => proc' = proc)
    BY <2>2, ServerSteps, ServerKeeps
  <2> QED
    BY <2>1, <2>3, <2>4 DEF ResetInv, client
<1>3. CASE ToServer
  <2>1. UNCHANGED client
    BY <1>3 DEF ToServer
  <2>2. CASE Arrives
    BY <2>1, <2>2 DEF Arrives, PeerConnects, ResetInv, client, TypeOK
  <2>3. CASE Hears
    BY <2>1, <2>3 DEF Hears, PeerSpeaks, ResetInv, client, TypeOK
  <2>4. CASE HearsReset
    <3>1. proc = "running" /\ conn[TheClient] # "idle" /\ proc' = proc
      BY <2>4 DEF HearsReset, PeerResets
    <3>2. c_proc # "running"
      BY <2>4, <3>1 DEF HearsReset, ResetInv, ExitCauses
    <3>3. conn'[TheClient] # "idle" => c_reached = "yes"
      BY <3>1 DEF ResetInv
    <3> QED
      BY <2>1, <3>1, <3>2, <3>3 DEF ResetInv, client
  <2>5. CASE Others
    <3> PICK p \in Peers \ {TheClient} : Remote(p)
      BY <2>5 DEF Others
    <3>1. /\ proc' = proc
          /\ conn'[TheClient] = conn[TheClient]
          /\ peer'[TheClient] = peer[TheClient]
      BY DEF Remote, PeerConnects, PeerSpeaks, PeerResets, TypeOK
    <3> QED
      BY <2>1, <3>1 DEF ResetInv, client
  <2> QED
    BY <1>3, <2>2, <2>3, <2>4, <2>5 DEF ToServer
<1> QED
  BY <1>1, <1>2, <1>3 DEF SysNext, sysvars

\* The server ends for a peer's sake only in getpeername() and SSL_shutdown(), each of
\* them on the connection it serves.
LEMMA BlameInvInductive ==
    ASSUME TypeOK, SessionInv, ServingInv, BlameInv, [Next]_vars
    PROVE  BlameInv'
<1> USE DEF BlameInv, At, Goto, Exit, socket, tls, net, threads
<1>1. CASE CreateSocket \/ Breakdown \/ Done \/ UNCHANGED vars
  BY <1>1 DEF CreateSocket, Breakdown, PollFails, ListeningSocketFails, UseFreedStore,
              Done, vars
<1>2. CASE PollAgain \/ PollReady \/ AcceptFails \/ PublishSocket \/ InitialiseContext
  BY <1>2 DEF PollAgain, PollReady, AcceptFails, PublishSocket, InitialiseContext, vars
<1>3. CASE \E p \in Peers : Accept(p)
  BY <1>3 DEF Accept
<1>4. CASE NamesFail
  BY <1>4 DEF NamesFail, SessionInv
<1>5. CASE LoadFiles
  BY <1>5 DEF LoadFiles, OpenPem, PemUnusable, UsePem, OpenCopy, CopyFails, CloseCopy,
              OpenStore, SetCertStore, SetFreedStore
<1>6. CASE ShutdownOnBrokenPipe
  <2>1. ssl \in Peers /\ peer[ssl] = "reset" /\ peer' = peer
    BY <1>6 DEF ShutdownOnBrokenPipe, SessionInv, ServingInv, InSession, Free
  <2> QED
    BY <2>1
<1>7. CASE TlsAccept \/ NoBio \/ SslAccept \/ Shutdown \/ FreeSsl \/ FreeCtx
  BY <1>7 DEF TlsAccept, NoBio, SslAccept, Shutdown, FreeSsl, FreeCtx
<1>8. CASE \E p \in Peers : Worker(p)
  BY <1>8 DEF Worker, SpawnReceiver, EndSender, CreateEpoll, AddToEpoll
<1>9. CASE \E p \in Peers : Remote(p)
  BY <1>9 DEF Remote, PeerConnects, PeerSpeaks, PeerResets
<1> QED
  BY <1>1, <1>2, <1>3, <1>4, <1>5, <1>6, <1>7, <1>8, <1>9
     DEF Next, Listener, Progress, Session

\* For flights of any length, any other peers and any limits: as long as the client
\* lives and no other peer has reset its connection, no reset has ended the server; and
\* over TCP, with descriptors enough and no fault, nothing has.
THEOREM LiveClientDoesNoHarm == SysSpec => []LiveClientIsHarmless
<1>1. SysInit => ResetInv /\ BlameInv
  BY SystemAssumption DEF SysInit, Init, C!Init, ResetInv, BlameInv
<1>2. SysSpec => []TypeOK /\ []SessionInv /\ []ServingInv
  BY ServerInSystem, TypeCorrect, SessionInvariant, ServingInvariant, PTL
<1>3. SysSpec => []SurvivesCooperativePeers
  BY ServerInSystem, ServerSurvives, PTL
<1>4. TypeOK /\ SessionInv /\ ServingInv /\ BlameInv /\ [SysNext]_sysvars => BlameInv'
  BY ServerSteps, BlameInvInductive
<1>5. TypeOK /\ ResetInv /\ [SysNext]_sysvars => ResetInv'
  BY ResetInvInductive
<1>6. ResetInv /\ BlameInv /\ SurvivesCooperativePeers => LiveClientIsHarmless
  <2> SUFFICES ASSUME ResetInv, BlameInv, SurvivesCooperativePeers, c_proc = "running",
                      \A p \in Peers \ {TheClient} : peer[p] # "reset"
               PROVE  /\ proc \notin {"peer_gone", "sigpipe"}
                      /\ (m_protocol = TCP /\ Faults = {} /\ EnoughFds)
                            => proc \in {"starting", "running"}
    BY DEF LiveClientIsHarmless
  <2>1. \A p \in Peers : peer[p] # "reset"
    BY DEF ResetInv
  <2> QED
    BY <2>1 DEF BlameInv, SurvivesCooperativePeers
<1> QED
  BY <1>1, <1>2, <1>3, <1>4, <1>5, <1>6, PTL DEF SysSpec

===============================================================================
