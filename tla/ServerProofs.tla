----------------------------- MODULE ServerProofs -----------------------------
(***************************************************************************)
(* Theorems about the server process of module Server, for every set of    *)
(* peers and every size of the descriptor and thread tables.               *)
(***************************************************************************)
EXTENDS Server, FiniteSetTheorems, TLAPS

\* Every variable of the server keeps its type, whatever the interleaving.
THEOREM TypeCorrect == Spec => []TypeOK
<1>1. Init => TypeOK
  BY ServerAssumption DEF Init, TypeOK, ListenerAt
<1>2. TypeOK /\ [Next]_vars => TypeOK'
  <2> SUFFICES ASSUME TypeOK, [Next]_vars
               PROVE  TypeOK'
    OBVIOUS
  <2> USE ServerAssumption DEF TypeOK, ExitCauses, ListenerAt, At, Goto, Exit,
                               socket, tls, net, threads
  <2>1. CASE CreateSocket
    BY <2>1 DEF CreateSocket
  <2>2. CASE PollAgain \/ PollReady \/ Breakdown
    BY <2>2 DEF PollAgain, PollReady, Breakdown, PollFails, ListeningSocketFails,
                UseFreedStore, vars
  <2>3. ASSUME NEW p \in Peers, Accept(p)
        PROVE  TypeOK'
    BY <2>3 DEF Accept
  <2>4. CASE AcceptFails \/ NamesFail
    BY <2>4 DEF AcceptFails, NamesFail
  <2>5. CASE PublishSocket
    BY <2>5 DEF PublishSocket
  <2>6. CASE InitialiseContext
    BY <2>6 DEF InitialiseContext
  <2>7. CASE LoadFiles
    BY <2>7 DEF LoadFiles, OpenPem, PemUnusable, UsePem, OpenCopy, CopyFails,
                CloseCopy, OpenStore, SetCertStore, SetFreedStore
  <2>8. CASE Session
    BY <2>8 DEF Session, TlsAccept, NoBio, SslAccept, Shutdown,
                ShutdownOnBrokenPipe, FreeSsl, FreeCtx
  <2>9. ASSUME NEW p \in Peers, Worker(p)
        PROVE  TypeOK'
    BY <2>9 DEF Worker, SpawnReceiver, EndSender, CreateEpoll, AddToEpoll
  <2>10. ASSUME NEW p \in Peers, Remote(p)
         PROVE  TypeOK'
    BY <2>10 DEF Remote, PeerConnects, PeerSpeaks, PeerResets
  <2>11. CASE UNCHANGED vars
    BY <2>11 DEF vars
  <2>12. QED
    BY <2>1, <2>2, <2>3, <2>4, <2>5, <2>6, <2>7, <2>8, <2>9, <2>10, <2>11
       DEF Next, Listener, Progress, Done
<1>3. QED
  BY <1>1, <1>2, PTL DEF Spec

-------------------------------------------------------------------------------
(* The session and the descriptor it runs on. *)

\* Where the listener thread is inside accept() and tlsmanager::init.
Loading == {"cert", "key", "ca", "copy", "load", "store"}
InSession == {"handshake", "shutdown", "free_ssl"}

\* The strengthening of SessionOnCurrentSocket: what is bound at each place of
\* the listener thread between accept() and SSL_CTX_free().
SessionInv ==
    /\ proc = "starting" => listener = "none"
    /\ listener = "names" =>
          fresh \in Peers /\ (fresh \in connFds \/ proc \in {"name", "peer_gone"})
    /\ listener \in {"context", "tls_accept"} \cup Loading \cup InSession
           => m_socket = fresh /\ fresh \in connFds
    /\ listener \in {"tls_accept"} \cup Loading \cup InSession => ctx # "none"
    /\ ssl # NoPeer => listener \in InSession
    /\ listener \in InSession => ssl = m_socket

\* Every step of the process keeps SessionInv.
LEMMA SessionInvInductive ==
    ASSUME TypeOK, SessionInv, [Next]_vars
    PROVE  SessionInv'
<1> USE DEF SessionInv, TypeOK, Loading, InSession, At, Goto, Exit, ExitCauses,
            socket, tls, net, threads
<1>1. CASE CreateSocket
  BY <1>1 DEF CreateSocket
<1>2. CASE PollAgain \/ PollReady \/ Breakdown
  BY <1>2 DEF PollAgain, PollReady, Breakdown, PollFails, ListeningSocketFails,
              UseFreedStore, vars
<1>3. ASSUME NEW p \in Peers, Accept(p)
      PROVE  SessionInv'
  BY <1>3, ServerAssumption DEF Accept
<1>4. CASE AcceptFails \/ NamesFail
  BY <1>4 DEF AcceptFails, NamesFail
<1>5. CASE PublishSocket
  BY <1>5 DEF PublishSocket
<1>6. CASE InitialiseContext
  BY <1>6 DEF InitialiseContext
<1>7. CASE LoadFiles
  BY <1>7 DEF LoadFiles, OpenPem, PemUnusable, UsePem, OpenCopy, CopyFails,
              CloseCopy, OpenStore, SetCertStore, SetFreedStore
<1>8. CASE Session
  BY <1>8 DEF Session, TlsAccept, NoBio, SslAccept, Shutdown,
              ShutdownOnBrokenPipe, FreeSsl, FreeCtx
<1>9. ASSUME NEW p \in Peers, Worker(p)
      PROVE  SessionInv'
  BY <1>9 DEF Worker, SpawnReceiver, EndSender, CreateEpoll, AddToEpoll
<1>10. ASSUME NEW p \in Peers, Remote(p)
       PROVE  SessionInv'
  BY <1>10 DEF Remote, PeerConnects, PeerSpeaks, PeerResets
<1>11. CASE UNCHANGED vars
  BY <1>11 DEF vars
<1>12. QED
  BY <1>1, <1>2, <1>3, <1>4, <1>5, <1>6, <1>7, <1>8, <1>9, <1>10, <1>11
     DEF Next, Listener, Progress, Done

\* SessionInv is an invariant.
LEMMA SessionInvariant == Spec => []SessionInv
<1>1. Init => SessionInv
  BY DEF Init, SessionInv, Loading, InSession
<1>2. TypeOK /\ SessionInv /\ [Next]_vars => SessionInv'
  BY SessionInvInductive
<1>3. QED
  BY <1>1, <1>2, TypeCorrect, PTL DEF Spec

\* No later accept() moves m_socket, closes the descriptor or drops the context
\* under a TLS session in progress.
THEOREM SessionStaysOnItsSocket == Spec => []SessionOnCurrentSocket
<1>1. SessionInv => SessionOnCurrentSocket
  BY DEF SessionInv, SessionOnCurrentSocket, InSession
<1>2. QED
  BY <1>1, SessionInvariant, PTL

-------------------------------------------------------------------------------
(* The race on m_socket between the listener and the receiver threads. *)

\* The strengthening of WatchedNotOlder: m_socket is never older than the
\* connection of a sender thread, and a connection is accepted before its
\* threads exist.
RaceInv ==
    /\ listener = "names" =>
           /\ fresh \in Peers /\ turn[fresh] = served
           /\ conn[fresh] = "open" /\ sender[fresh] = "none"
    /\ \A p \in Peers : turn[p] <= served
    /\ \A p \in Peers : sender[p] # "none" =>
           m_socket \in Peers /\ turn[p] <= turn[m_socket] /\ conn[p] = "open"
    /\ \A p \in Peers : receiver[p] # "none" => sender[p] \in {"sleep", "done"}
    /\ WatchedNotOlder

\* Every step of the process keeps RaceInv.
LEMMA RaceInvInductive ==
    ASSUME TypeOK, RaceInv, [Next]_vars
    PROVE  RaceInv'
<1> USE ServerAssumption DEF RaceInv, WatchedNotOlder, TypeOK, At, Goto, Exit,
                             socket, tls, net, threads
<1>1. CASE CreateSocket
  BY <1>1 DEF CreateSocket
<1>2. CASE PollAgain \/ PollReady \/ Breakdown
  BY <1>2 DEF PollAgain, PollReady, Breakdown, PollFails, ListeningSocketFails,
              UseFreedStore, vars
<1>3. ASSUME NEW p \in Peers, Accept(p)
      PROVE  RaceInv'
  <2>1. sender[p] = "none" /\ receiver[p] = "none"
    BY <1>3 DEF Accept, Pending
  <2>2. turn'[p] = served + 1 /\ \A q \in Peers : q # p => turn'[q] = turn[q]
    BY <1>3 DEF Accept
  <2>3. \A q, r \in Peers : q # p /\ turn[q] <= turn[r] => turn'[q] <= turn'[r]
    BY <2>2
  <2>4. \A q \in Peers : turn'[q] <= served'
    BY <1>3, <2>2 DEF Accept
  <2>. QED
    BY <1>3, <2>1, <2>2, <2>3, <2>4 DEF Accept
<1>4. CASE AcceptFails \/ NamesFail
  BY <1>4 DEF AcceptFails, NamesFail
<1>5. CASE PublishSocket
  BY <1>5 DEF PublishSocket
<1>6. CASE InitialiseContext
  BY <1>6 DEF InitialiseContext
<1>7. CASE LoadFiles
  BY <1>7 DEF LoadFiles, OpenPem, PemUnusable, UsePem, OpenCopy, CopyFails,
              CloseCopy, OpenStore, SetCertStore, SetFreedStore
<1>8. CASE Session
  BY <1>8 DEF Session, TlsAccept, NoBio, SslAccept, Shutdown,
              ShutdownOnBrokenPipe, FreeSsl, FreeCtx
<1>9. ASSUME NEW p \in Peers, Worker(p)
      PROVE  RaceInv'
  BY <1>9 DEF Worker, SpawnReceiver, EndSender, CreateEpoll, AddToEpoll
<1>10. ASSUME NEW p \in Peers, Remote(p)
       PROVE  RaceInv'
  BY <1>10 DEF Remote, PeerConnects, PeerSpeaks, PeerResets
<1>11. CASE UNCHANGED vars
  BY <1>11 DEF vars
<1>12. QED
  BY <1>1, <1>2, <1>3, <1>4, <1>5, <1>6, <1>7, <1>8, <1>9, <1>10, <1>11
     DEF Next, Listener, Progress, Done

\* RaceInv is an invariant.
LEMMA RaceInvariant == Spec => []RaceInv
<1>1. Init => RaceInv
  BY DEF Init, RaceInv, WatchedNotOlder
<1>2. TypeOK /\ RaceInv /\ [Next]_vars => RaceInv'
  BY RaceInvInductive
<1>3. QED
  BY <1>1, <1>2, TypeCorrect, PTL DEF Spec

\* A late receiver thread watches the socket of its own connection or of a later
\* one, however the threads are scheduled.
THEOREM ReceiverNeverWatchesOlder == Spec => []WatchedNotOlder
<1>1. RaceInv => WatchedNotOlder
  BY DEF RaceInv
<1>2. QED
  BY <1>1, RaceInvariant, PTL

-------------------------------------------------------------------------------
(* The descriptor table. *)

\* Connections and epoll descriptors are finite in number, and at most one of each
\* belongs to a peer.
LEMMA DescriptorCounts ==
    ASSUME TypeOK
    PROVE  /\ IsFiniteSet(connFds) /\ IsFiniteSet(epollFds)
           /\ Cardinality(Peers) \in Nat
           /\ Cardinality(connFds) \in 0..Cardinality(Peers)
           /\ Cardinality(epollFds) \in 0..Cardinality(Peers)
           /\ epollFds # Peers => Cardinality(epollFds) < Cardinality(Peers)
<1>1. IsFiniteSet(Peers) /\ connFds \in SUBSET Peers /\ epollFds \in SUBSET Peers
  BY ServerAssumption DEF TypeOK
<1>2. /\ IsFiniteSet(connFds) /\ IsFiniteSet(epollFds)
      /\ Cardinality(connFds) <= Cardinality(Peers)
      /\ Cardinality(epollFds) <= Cardinality(Peers)
      /\ Cardinality(Peers) = Cardinality(epollFds) => Peers = epollFds
  BY <1>1, FS_Subset
<1>3. Cardinality(Peers) \in Nat /\ Cardinality(connFds) \in Nat /\ Cardinality(epollFds) \in Nat
  BY <1>1, <1>2, FS_CardinalityType
<1>4. QED
  BY <1>2, <1>3

\* The strengthening of LifetimeCapacity: until the process exits, the accepted
\* connections are those whose descriptor is open.
CapacityInv ==
    /\ proc \notin {"name", "peer_gone"} => served = Cardinality(connFds)
    /\ \A p \in connFds : conn[p] = "open"
    /\ LifetimeCapacity

\* Every step of the process keeps CapacityInv.
LEMMA CapacityInvInductive ==
    ASSUME TypeOK, CapacityInv, [Next]_vars
    PROVE  CapacityInv'
<1> USE ServerAssumption DEF CapacityInv, LifetimeCapacity, TypeOK, At, Goto, Exit,
                             ExitCauses, socket, tls, net, threads
<1>1. CASE CreateSocket
  BY <1>1 DEF CreateSocket
<1>2. CASE PollAgain \/ PollReady \/ Breakdown
  BY <1>2 DEF PollAgain, PollReady, Breakdown, PollFails, ListeningSocketFails,
              UseFreedStore, vars
<1>3. ASSUME NEW p \in Peers, Accept(p)
      PROVE  CapacityInv'
  <2>1. p \notin connFds
    BY <1>3 DEF Accept, Pending
  <2>2. Cardinality(connFds') = Cardinality(connFds) + 1
    BY <1>3, <2>1, DescriptorCounts, FS_AddElement DEF Accept
  <2>3. served + 1 + Cardinality(epollFds) <= MaxFds - BaseFds
    BY <1>3, DescriptorCounts DEF Accept, FdFree, OpenFds
  <2>4. \A q \in connFds' : conn'[q] = "open"
    BY <1>3 DEF Accept
  <2>. QED
    BY <1>3, <2>2, <2>3, <2>4 DEF Accept
<1>4. CASE AcceptFails
  BY <1>4 DEF AcceptFails
<1>5. CASE NamesFail
  BY <1>5 DEF NamesFail
<1>6. CASE PublishSocket \/ InitialiseContext
  BY <1>6 DEF PublishSocket, InitialiseContext
<1>7. CASE LoadFiles
  BY <1>7 DEF LoadFiles, OpenPem, PemUnusable, UsePem, OpenCopy, CopyFails,
              CloseCopy, OpenStore, SetCertStore, SetFreedStore
<1>8. CASE Session
  BY <1>8 DEF Session, TlsAccept, NoBio, SslAccept, Shutdown,
              ShutdownOnBrokenPipe, FreeSsl, FreeCtx
<1>9. ASSUME NEW p \in Peers, Worker(p)
      PROVE  CapacityInv'
  <2>1. CASE CreateEpoll(p) /\ FdFree
    <3>1. Cardinality(epollFds') <= Cardinality(epollFds) + 1 /\ Cardinality(epollFds') \in Nat
      <4>1. epollFds' = epollFds \cup {p}
        BY <2>1 DEF CreateEpoll
      <4>2. IsFiniteSet(epollFds) /\ Cardinality(epollFds) \in Nat
        BY DescriptorCounts
      <4>3. Cardinality(epollFds') = IF p \in epollFds THEN Cardinality(epollFds)
                                                      ELSE Cardinality(epollFds) + 1
        BY <4>1, <4>2, FS_AddElement
      <4>. QED
        BY <4>2, <4>3
    <3>2. served + Cardinality(epollFds) + 1 <= MaxFds - BaseFds
      BY <2>1, DescriptorCounts DEF CreateEpoll, FdFree, OpenFds
    <3>. QED
      BY <2>1, <3>1, <3>2, DescriptorCounts DEF CreateEpoll
  <2>2. CASE ~(CreateEpoll(p) /\ FdFree)
    BY <1>9, <2>2 DEF Worker, SpawnReceiver, EndSender, CreateEpoll, AddToEpoll
  <2>. QED
    BY <2>1, <2>2
<1>10. ASSUME NEW p \in Peers, Remote(p)
       PROVE  CapacityInv'
  BY <1>10 DEF Remote, PeerConnects, PeerSpeaks, PeerResets
<1>11. CASE UNCHANGED vars
  BY <1>11 DEF vars
<1>12. QED
  BY <1>1, <1>2, <1>3, <1>4, <1>5, <1>6, <1>7, <1>8, <1>9, <1>10, <1>11
     DEF Next, Listener, Progress, Done

\* A server accepts at most as many connections in its life as it has free
\* descriptors when it starts to listen, less one for each epoll descriptor.
THEOREM CapacityIsForLife == Spec => []LifetimeCapacity
<1>1. Init => CapacityInv
  BY ServerAssumption, FS_EmptySet DEF Init, CapacityInv, LifetimeCapacity
<1>2. TypeOK /\ CapacityInv /\ [Next]_vars => CapacityInv'
  BY CapacityInvInductive
<1>3. CapacityInv => LifetimeCapacity
  BY DEF CapacityInv
<1>4. QED
  BY <1>1, <1>2, <1>3, TypeCorrect, PTL DEF Spec

-------------------------------------------------------------------------------
(* Survival with enough descriptors and cooperative peers. *)

\* The premise of SurvivesCooperativePeers.
Smooth ==
    m_protocol = TCP /\ Faults = {} /\ EnoughFds /\ \A p \in Peers : peer[p] # "reset"

\* How many files the listener thread has open at each place.
FilesInv ==
    /\ proc = "starting" => listener = "none"
    /\ files # 0 => listener \in Loading
    /\ listener \in {"cert", "key", "ca"} => files \in {0, 1}
    /\ listener = "load" => files = 1

\* A receiver thread makes one epoll descriptor.
EpollInv == \A p \in epollFds : receiver[p] \in {"add", "done"}

SmoothInv ==
    Smooth => /\ proc \in {"starting", "running"}
              /\ listener = "accept" => Pending # {}
              /\ listener \in {"copy", "load"} => caFile = "written"
              /\ ctx # "freed_store"

SurvivalInv == FilesInv /\ EpollInv /\ SmoothInv

\* The command line alone sets the protocol.
LEMMA ProtocolIsFixed ==
    ASSUME [Next]_vars
    PROVE  m_protocol' = m_protocol
BY DEF Next, vars, net, Exit, CreateSocket, Listener, Progress, PollAgain, PollReady,
       Breakdown, PollFails, ListeningSocketFails, UseFreedStore, Accept, AcceptFails,
       NamesFail, PublishSocket, InitialiseContext, LoadFiles, OpenPem, PemUnusable,
       UsePem, OpenCopy, CopyFails, CloseCopy, OpenStore, SetCertStore, SetFreedStore,
       Session, TlsAccept, NoBio, SslAccept, Shutdown, ShutdownOnBrokenPipe, FreeSsl,
       FreeCtx, Worker, SpawnReceiver, EndSender, CreateEpoll, AddToEpoll, Remote,
       PeerConnects, PeerSpeaks, PeerResets, Done

\* Whatever the two kinds of threads hold, one more descriptor is free.
LEMMA FdIsFree ==
    ASSUME TypeOK, EnoughFds, files \in {0, 1} \/ epollFds # Peers
    PROVE  FdFree
BY DescriptorCounts, ServerAssumption DEF TypeOK, EnoughFds, FdFree, OpenFds

\* Every step of the process keeps FilesInv.
LEMMA FilesInvInductive ==
    ASSUME TypeOK, FilesInv, [Next]_vars
    PROVE  FilesInv'
<1> USE DEF FilesInv, TypeOK, Loading, At, Goto, Exit, socket, tls, net, threads
<1>1. CASE CreateSocket
  BY <1>1 DEF CreateSocket
<1>2. CASE PollAgain \/ PollReady \/ Breakdown
  BY <1>2 DEF PollAgain, PollReady, Breakdown, PollFails, ListeningSocketFails,
              UseFreedStore, vars
<1>3. ASSUME NEW p \in Peers, Accept(p)
      PROVE  FilesInv'
  BY <1>3 DEF Accept
<1>4. CASE AcceptFails \/ NamesFail \/ PublishSocket \/ InitialiseContext
  BY <1>4 DEF AcceptFails, NamesFail, PublishSocket, InitialiseContext
<1>5. CASE LoadFiles
  BY <1>5 DEF LoadFiles, OpenPem, PemUnusable, UsePem, OpenCopy, CopyFails,
              CloseCopy, OpenStore, SetCertStore, SetFreedStore
<1>6. CASE Session
  BY <1>6 DEF Session, TlsAccept, NoBio, SslAccept, Shutdown,
              ShutdownOnBrokenPipe, FreeSsl, FreeCtx
<1>7. ASSUME NEW p \in Peers, Worker(p) \/ Remote(p)
      PROVE  FilesInv'
  BY <1>7 DEF Worker, SpawnReceiver, EndSender, CreateEpoll, AddToEpoll,
              Remote, PeerConnects, PeerSpeaks, PeerResets
<1>8. CASE UNCHANGED vars
  BY <1>8 DEF vars
<1>9. QED
  BY <1>1, <1>2, <1>3, <1>4, <1>5, <1>6, <1>7, <1>8 DEF Next, Listener, Progress, Done

\* Every step of the process keeps EpollInv.
LEMMA EpollInvInductive ==
    ASSUME TypeOK, RaceInv, EpollInv, [Next]_vars
    PROVE  EpollInv'
<1> USE DEF RaceInv, EpollInv, TypeOK, At, Goto, Exit, socket, tls, net, threads
<1>1. CASE CreateSocket
  BY <1>1 DEF CreateSocket
<1>2. CASE PollAgain \/ PollReady \/ Breakdown
  BY <1>2 DEF PollAgain, PollReady, Breakdown, PollFails, ListeningSocketFails,
              UseFreedStore, vars
<1>3. ASSUME NEW p \in Peers, Accept(p)
      PROVE  EpollInv'
  BY <1>3 DEF Accept
<1>4. CASE AcceptFails \/ NamesFail \/ PublishSocket \/ InitialiseContext
  BY <1>4 DEF AcceptFails, NamesFail, PublishSocket, InitialiseContext
<1>5. CASE LoadFiles
  BY <1>5 DEF LoadFiles, OpenPem, PemUnusable, UsePem, OpenCopy, CopyFails,
              CloseCopy, OpenStore, SetCertStore, SetFreedStore
<1>6. CASE Session
  BY <1>6 DEF Session, TlsAccept, NoBio, SslAccept, Shutdown,
              ShutdownOnBrokenPipe, FreeSsl, FreeCtx
<1>7. ASSUME NEW p \in Peers, Worker(p) \/ Remote(p)
      PROVE  EpollInv'
  BY <1>7 DEF Worker, SpawnReceiver, EndSender, CreateEpoll, AddToEpoll,
              Remote, PeerConnects, PeerSpeaks, PeerResets
<1>8. CASE UNCHANGED vars
  BY <1>8 DEF vars
<1>9. QED
  BY <1>1, <1>2, <1>3, <1>4, <1>5, <1>6, <1>7, <1>8 DEF Next, Listener, Progress, Done

\* Every step of the process keeps SmoothInv: with the premise, each exit is out of
\* reach, because a descriptor is free whenever one is asked for.
LEMMA SmoothInvInductive ==
    ASSUME TypeOK, SessionInv, SurvivalInv, [Next]_vars
    PROVE  SmoothInv'
<1> SUFFICES ASSUME Smooth'
             PROVE  SmoothInv'
  BY DEF SmoothInv
<1>1. Smooth
  <2> SUFFICES \A p \in Peers : peer[p] # "reset"
    BY ProtocolIsFixed DEF Smooth, EnoughFds
  <2>1. ASSUME NEW q \in Peers, Worker(q) \/ Remote(q)
        PROVE  \A p \in Peers : peer[p] = "reset" => peer'[p] = "reset"
    BY <2>1 DEF TypeOK, Exit, socket, tls, net, threads, Worker, SpawnReceiver,
                EndSender, CreateEpoll, AddToEpoll, Remote, PeerConnects,
                PeerSpeaks, PeerResets
  <2>2. ASSUME NEW q \in Peers, Accept(q)
        PROVE  peer' = peer
    BY <2>2 DEF Accept
  <2>3. CASE CreateSocket \/ PollAgain \/ PollReady \/ Breakdown
    BY <2>3 DEF CreateSocket, PollAgain, PollReady, Breakdown, PollFails,
                ListeningSocketFails, UseFreedStore,
                Exit, Smooth, vars, net
  <2>4. CASE AcceptFails \/ NamesFail \/ PublishSocket \/ InitialiseContext
    BY <2>4 DEF AcceptFails, NamesFail, PublishSocket, InitialiseContext, Exit,
                Smooth, net
  <2>5. CASE LoadFiles \/ Session
    BY <2>5 DEF LoadFiles, OpenPem, PemUnusable, UsePem, OpenCopy, CopyFails,
                CloseCopy, OpenStore, SetCertStore, SetFreedStore, Session,
                TlsAccept, NoBio, SslAccept, Shutdown, ShutdownOnBrokenPipe,
                FreeSsl, FreeCtx, Exit, Smooth, net
  <2>6. CASE UNCHANGED vars
    BY <2>6 DEF vars, net, Smooth
  <2>7. QED
    BY <2>1, <2>2, <2>3, <2>4, <2>5, <2>6 DEF Next, Listener, Progress, Done, Smooth
<1>2. files \in {0, 1} => FdFree
  BY <1>1, FdIsFree DEF Smooth
<1> USE DEF SmoothInv, SurvivalInv, FilesInv, Loading, TypeOK, At, Goto, Exit, Pending,
            socket, tls, net, threads
<1>3. CASE CreateSocket
  BY <1>1, <1>3 DEF CreateSocket, Smooth
<1>4. CASE PollAgain \/ PollReady \/ Breakdown
  BY <1>1, <1>4 DEF PollAgain, PollReady, Breakdown, PollFails, ListeningSocketFails,
                    UseFreedStore, vars, Smooth
<1>5. ASSUME NEW p \in Peers, Accept(p)
      PROVE  SmoothInv'
  BY <1>1, <1>5 DEF Accept
<1>6. CASE AcceptFails
  BY <1>1, <1>2, <1>6 DEF AcceptFails, Smooth
<1>7. CASE NamesFail
  BY <1>1, <1>7 DEF NamesFail, SessionInv, Smooth
<1>8. CASE PublishSocket \/ InitialiseContext
  BY <1>1, <1>8 DEF PublishSocket, InitialiseContext
<1>9. CASE LoadFiles
  BY <1>1, <1>2, <1>9 DEF LoadFiles, OpenPem, PemUnusable, UsePem, OpenCopy, CopyFails,
                          CloseCopy, OpenStore, SetCertStore, SetFreedStore, Smooth
<1>10. CASE Session
  BY <1>1, <1>10, ServerAssumption
     DEF Session, TlsAccept, NoBio, SslAccept, Shutdown, ShutdownOnBrokenPipe,
         FreeSsl, FreeCtx, SessionInv, InSession, Smooth
<1>11. ASSUME NEW p \in Peers, Worker(p)
       PROVE  SmoothInv'
  <2>1. receiver[p] = "start" => FdFree
    BY <1>1, FdIsFree DEF EpollInv, Smooth
  <2>2. QED
    BY <1>1, <1>11, <2>1 DEF Worker, SpawnReceiver, EndSender, CreateEpoll, AddToEpoll
<1>12. ASSUME NEW p \in Peers, Remote(p)
       PROVE  SmoothInv'
  BY <1>1, <1>12 DEF Remote, PeerConnects, PeerSpeaks, PeerResets, Smooth
<1>13. CASE UNCHANGED vars
  BY <1>1, <1>13 DEF vars
<1>14. QED
  BY <1>3, <1>4, <1>5, <1>6, <1>7, <1>8, <1>9, <1>10, <1>11, <1>12, <1>13
     DEF Next, Listener, Progress, Done

\* With 2n + 2 free descriptors, n peers that do not reset their connections and
\* no external fault, no interleaving of the server's threads ends the process.
THEOREM ServerSurvives == Spec => []SurvivesCooperativePeers
<1>1. Init => SurvivalInv
  BY DEF Init, SurvivalInv, FilesInv, EpollInv, SmoothInv
<1>2. TypeOK /\ SessionInv /\ RaceInv /\ SurvivalInv /\ [Next]_vars => SurvivalInv'
  BY FilesInvInductive, EpollInvInductive, SmoothInvInductive DEF SurvivalInv
<1>3. SurvivalInv => SurvivesCooperativePeers
  BY DEF SurvivalInv, SmoothInv, SurvivesCooperativePeers, Smooth
<1>4. QED
  BY <1>1, <1>2, <1>3, TypeCorrect, SessionInvariant, RaceInvariant, PTL DEF Spec

-------------------------------------------------------------------------------
(* One session at a time: Server implements Sessions. *)

\* Where the listener thread serves nobody.
Free == {"none", "poll", "accept", "ended"}

\* The connection being served is one accept() returned, and m_socket names it from
\* the moment accept() is over.
ServingInv ==
    /\ listener \in Free => ssl = NoPeer
    /\ listener = "names" => fresh \in Peers /\ conn[fresh] = "open"
    /\ listener \notin Free \cup {"names"} => m_socket \in Peers /\ conn[m_socket] = "open"
    /\ listener = "names" => ssl = NoPeer
    /\ ssl \in {NoPeer, m_socket}

\* Every step of the process keeps ServingInv.
LEMMA ServingInvInductive ==
    ASSUME TypeOK, SessionInv, ServingInv, [Next]_vars
    PROVE  ServingInv'
<1> USE DEF ServingInv, Free, TypeOK, At, Goto, Exit, ExitCauses, ListenerAt,
            socket, tls, net, threads
<1>1. CASE CreateSocket
  BY <1>1 DEF CreateSocket, SessionInv
<1>2. CASE PollAgain \/ PollReady \/ Breakdown
  BY <1>2 DEF PollAgain, PollReady, Breakdown, PollFails, ListeningSocketFails,
              UseFreedStore, vars
<1>3. ASSUME NEW p \in Peers, Accept(p)
      PROVE  ServingInv'
  BY <1>3 DEF Accept
<1>4. CASE AcceptFails \/ NamesFail
  BY <1>4 DEF AcceptFails, NamesFail
<1>5. CASE PublishSocket
  BY <1>5 DEF PublishSocket
<1>6. CASE InitialiseContext
  BY <1>6 DEF InitialiseContext
<1>7. CASE LoadFiles
  BY <1>7 DEF LoadFiles, OpenPem, PemUnusable, UsePem, OpenCopy, CopyFails,
              CloseCopy, OpenStore, SetCertStore, SetFreedStore
<1>8. CASE Session
  BY <1>8 DEF Session, TlsAccept, NoBio, SslAccept, Shutdown,
              ShutdownOnBrokenPipe, FreeSsl, FreeCtx, SessionInv, InSession
<1>9. ASSUME NEW p \in Peers, Worker(p)
      PROVE  ServingInv'
  BY <1>9 DEF Worker, SpawnReceiver, EndSender, CreateEpoll, AddToEpoll
<1>10. ASSUME NEW p \in Peers, Remote(p)
       PROVE  ServingInv'
  BY <1>10 DEF Remote, PeerConnects, PeerSpeaks, PeerResets
<1>11. CASE UNCHANGED vars
  BY <1>11 DEF vars
<1>12. QED
  BY <1>1, <1>2, <1>3, <1>4, <1>5, <1>6, <1>7, <1>8, <1>9, <1>10, <1>11
     DEF Next, Listener, Progress, Done

\* ServingInv is an invariant.
LEMMA ServingInvariant == Spec => []ServingInv
<1>1. Init => ServingInv
  BY DEF Init, ServingInv, Free
<1>2. TypeOK /\ SessionInv /\ ServingInv /\ [Next]_vars => ServingInv'
  BY ServingInvInductive
<1>3. QED
  BY <1>1, <1>2, TypeCorrect, SessionInvariant, PTL DEF Spec

\* A step that moves no connection and keeps the one served is none for Sessions.
LEMMA SameSession ==
    ASSUME conn' = conn, Serving' = Serving
    PROVE  UNCHANGED OneAtATime!vars
BY DEF OneAtATime!vars, Pending

\* Every step of the server is one of Sessions, or none.
LEMMA SessionsStep ==
    ASSUME TypeOK, SessionInv, ServingInv, [Next]_vars
    PROVE  [OneAtATime!Next]_(OneAtATime!vars)
<1> USE ServerAssumption DEF At, Goto, Exit, socket, tls, net, threads
<1>1. CASE CreateSocket \/ PollAgain \/ PollReady \/ Breakdown
  <2>1. conn' = conn /\ Serving' = Serving
    BY <1>1 DEF CreateSocket, PollAgain, PollReady, Breakdown, PollFails, vars,
                ListeningSocketFails, UseFreedStore, Serving, SessionInv
  <2>. QED
    BY <2>1, SameSession
<1>2. ASSUME NEW p \in Peers, Accept(p)
      PROVE  OneAtATime!Begin(p)
  <2>1. Serving = NoPeer /\ Serving' = p /\ p \in Pending
    BY <1>2 DEF Accept, Serving, ServingInv, Free
  <2>2. conn' = [conn EXCEPT ![p] = "open"] /\ conn[p] = "pending"
    BY <1>2 DEF Accept, Pending
  <2>3. Pending' = Pending \ {p}
    BY <2>2 DEF Pending, TypeOK
  <2>4. {q \in Peers : conn'[q] \in {"open", "dropped"}} \ {p}
          = {q \in Peers : conn[q] \in {"open", "dropped"}} \ {NoPeer}
    BY <2>2 DEF TypeOK
  <2>. QED
    BY <2>1, <2>3, <2>4 DEF OneAtATime!Begin
<1>3. CASE AcceptFails \/ NamesFail \/ PublishSocket \/ InitialiseContext \/ LoadFiles
  <2>1. conn' = conn /\ Serving' = Serving
    BY <1>3 DEF AcceptFails, NamesFail, PublishSocket, InitialiseContext, LoadFiles,
                OpenPem, PemUnusable, UsePem, OpenCopy, CopyFails, CloseCopy,
                OpenStore, SetCertStore, SetFreedStore, Serving, ServingInv, Free
  <2>. QED
    BY <2>1, SameSession
<1>4. CASE Session
  <2>1. CASE FreeCtx
    <3>1. Serving = m_socket /\ Serving' = NoPeer /\ conn' = conn
      BY <2>1 DEF FreeCtx, Serving, SessionInv, InSession
    <3>2. m_socket \in Peers /\ conn[m_socket] = "open"
      BY <2>1 DEF FreeCtx, ServingInv, Free
    <3>3. OneAtATime!End
      BY <3>1, <3>2 DEF OneAtATime!End, Pending
    <3>. QED
      BY <3>3 DEF OneAtATime!Next
  <2>2. CASE ~FreeCtx
    <3>1. conn' = conn /\ Serving' = Serving
      BY <1>4, <2>2 DEF Session, TlsAccept, NoBio, SslAccept, Shutdown,
                        ShutdownOnBrokenPipe, FreeSsl, Serving, SessionInv, InSession
    <3>. QED
      BY <3>1, SameSession
  <2>. QED
    BY <2>1, <2>2
<1>5. ASSUME NEW p \in Peers, Worker(p)
      PROVE  UNCHANGED OneAtATime!vars
  <2>1. conn' = conn /\ Serving' = Serving
    BY <1>5 DEF Worker, SpawnReceiver, EndSender, CreateEpoll, AddToEpoll, Serving
  <2>. QED
    BY <2>1, SameSession
<1>6. ASSUME NEW p \in Peers, Remote(p)
      PROVE  [OneAtATime!Next]_(OneAtATime!vars)
  <2>1. Serving' = Serving
    BY <1>6 DEF Remote, PeerConnects, PeerSpeaks, PeerResets, Serving
  <2>2. Serving \in Peers => conn[Serving] = "open"
    BY DEF Serving, ServingInv, Free, TypeOK
  <2>3. CASE PeerConnects(p)
    <3>1. conn' = [conn EXCEPT ![p] = "pending"] /\ conn[p] = "idle"
      BY <2>3 DEF PeerConnects
    <3>2. Pending' = Pending \cup {p} /\ p \notin Pending /\ p # Serving
      BY <3>1, <2>2 DEF Pending, TypeOK
    <3>3. {q \in Peers : conn'[q] \in {"open", "dropped"}}
            = {q \in Peers : conn[q] \in {"open", "dropped"}}
      BY <3>1 DEF TypeOK
    <3>4. OneAtATime!Arrive(p)
      BY <2>1, <3>1, <3>2, <3>3 DEF OneAtATime!Arrive
    <3>. QED
      BY <3>4 DEF OneAtATime!Next
  <2>4. CASE PeerSpeaks(p) \/ (PeerResets(p) /\ conn' = conn)
    BY <2>1, <2>4, SameSession DEF PeerSpeaks
  <2>5. CASE PeerResets(p) /\ conn' # conn
    <3>1. conn' = [conn EXCEPT ![p] = "dropped"] /\ conn[p] = "pending"
      BY <2>5 DEF PeerResets
    <3>2. Pending' = Pending \ {p} /\ p \in Pending /\ p # Serving
      BY <3>1, <2>2 DEF Pending, TypeOK
    <3>3. {q \in Peers : conn'[q] \in {"open", "dropped"}}
            = {q \in Peers : conn[q] \in {"open", "dropped"}} \cup {p}
      BY <3>1 DEF TypeOK
    <3>4. OneAtATime!Leave(p)
      BY <2>1, <3>1, <3>2, <3>3 DEF OneAtATime!Leave
    <3>. QED
      BY <3>4 DEF OneAtATime!Next
  <2>. QED
    BY <1>6, <2>3, <2>4, <2>5 DEF Remote
<1>7. CASE UNCHANGED vars
  <2>1. conn' = conn /\ Serving' = Serving
    BY <1>7 DEF vars, Serving
  <2>. QED
    BY <2>1, SameSession
<1>8. QED
  BY <1>1, <1>2, <1>3, <1>4, <1>5, <1>6, <1>7
     DEF Next, Listener, Progress, Done, OneAtATime!Next

\* The server implements Sessions, for any number of peers: one session at a time,
\* each connection at most once, each session to its end.
THEOREM ImplementsSessions == Spec => ServesOneAtATime
<1>1. Init => OneAtATime!Init
  BY DEF Init, OneAtATime!Init, Serving, Pending
<1>2. TypeOK /\ SessionInv /\ ServingInv /\ [Next]_vars
        => [OneAtATime!Next]_(OneAtATime!vars)
  BY SessionsStep
<1>3. Spec => OneAtATime!Spec
  BY <1>1, <1>2, TypeCorrect, SessionInvariant, ServingInvariant, PTL
     DEF Spec, OneAtATime!Spec
<1>4. QED
  BY <1>3 DEF ServesOneAtATime

===============================================================================
