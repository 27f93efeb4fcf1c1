-------------------------------- MODULE Server --------------------------------
(***************************************************************************)
(* The server process of tls_client (./tls_client -tcp -s -h IP -p PORT):  *)
(* one listener thread that polls the passive socket, accepts a connection *)
(* and runs its whole TLS session before it polls again, and, for each     *)
(* accepted connection, a sender thread that spawns a receiver thread.     *)
(* All of them share the one TransportInterface, whose m_socket is         *)
(* overwritten by each accept() and read later by the receiver threads.    *)
(*                                                                         *)
(* The kernel (accept queue, descriptor table, thread limit) and the       *)
(* remote ends are modelled from how the code uses them.  A connection is  *)
(* named by the peer that opens it, and so is its descriptor.              *)
(***************************************************************************)
EXTENDS Integers, FiniteSets

CONSTANTS
    Peers,       \* the remote ends; each opens at most one connection
    NoPeer,      \* no connection (m_socket before the first accept)
    BaseFds,     \* descriptors open once listening: 0, 1, 2 and the passive one
    MaxFds,      \* size of the process's descriptor table
    MaxThreads,  \* threads the process can create: none is joined or detached
    Backlog,     \* second argument of listen()
    Faults       \* external faults that may occur, see FaultKinds

TCP == 0
SCTP == 1

\* create: a call of create_socket fails; thread: the listener thread is not
\* created; poll: poll() fails with neither EINTR nor EAGAIN; listen: the
\* passive socket reports POLLNVAL, POLLERR or POLLHUP; accept: accept() fails
\* with EINTR, ECONNABORTED or EPROTO; name: getsockname() fails; pem: a PEM file is
\* missing or unusable; tmp: the copy of the CA certificate cannot be opened, or not
\* be written, under /tmp.
FaultKinds == {"create", "thread", "poll", "listen", "accept", "name", "pem", "tmp"}

ASSUME ServerAssumption ==
    /\ IsFiniteSet(Peers)
    /\ NoPeer \notin Peers
    /\ BaseFds \in Nat /\ MaxFds \in Nat /\ BaseFds <= MaxFds
    /\ MaxThreads \in Nat \ {0}
    /\ Backlog \in Nat
    /\ Faults \subseteq FaultKinds

VARIABLES
    proc,        \* "starting", "running", or why the process is gone
    listener,    \* where the listener thread is
    fresh,       \* conn_sock_fd, the local of TransportInterface::accept
    m_socket,    \* TransportInterface::m_socket
    turn,        \* turn[p]: p's connection was the turn[p]-th one accepted, or 0
    served,      \* number of connections accepted so far
    connFds,     \* open connection descriptors
    epollFds,    \* connections whose receiver thread has an open epoll descriptor
    files,       \* PEM and CA files the listener thread has open
    caFile,      \* whether /tmp/diameterRSA_CACert_<pid>.pem is "written" whole
    ctx,         \* tlsmanager::m_ctx of the session in progress
    contexts,    \* number of SSL_CTX_new() calls so far
    ssl,         \* the connection tlsmanager::m_ssl runs on
    m_protocol,  \* TransportInterface::m_protocol, from the command line
    conn,        \* conn[p]: where p's connection is
    peer,        \* peer[p]: what p has done on it
    sender,      \* sender[p]: the sender thread started for p's connection
    receiver,    \* receiver[p]: the receiver thread that sender spawned
    watched      \* watched[p]: the socket that receiver added to its epoll set

socket == <<fresh, m_socket, turn, served, connFds>>
tls == <<files, caFile, ctx, contexts, ssl>>
net == <<m_protocol, conn, peer>>
threads == <<epollFds, sender, receiver, watched>>
vars == <<proc, listener, socket, tls, net, threads>>

ExitCauses ==
    {"create", "listening", "accept", "accept_retry", "name", "peer_gone",
     "no_bio", "pem", "epoll", "freed_store", "sigpipe"}

ListenerAt ==
    {"none", "poll", "accept", "names", "context", "cert", "key", "ca", "copy",
     "load", "store", "tls_accept", "handshake", "shutdown", "free_ssl",
     "free_ctx", "ended"}

TypeOK ==
    /\ proc \in {"starting", "running"} \cup ExitCauses
    /\ listener \in ListenerAt
    /\ fresh \in Peers \cup {NoPeer}
    /\ m_socket \in Peers \cup {NoPeer}
    /\ turn \in [Peers -> Nat]
    /\ served \in Nat
    /\ connFds \subseteq Peers
    /\ epollFds \subseteq Peers
    /\ files \in 0..2
    /\ caFile \in {"absent", "written"}
    /\ ctx \in {"none", "loading", "ready", "freed_store"}
    /\ contexts \in Nat
    /\ ssl \in Peers \cup {NoPeer}
    /\ m_protocol \in {TCP, SCTP}
    /\ conn \in [Peers -> {"idle", "pending", "open", "dropped"}]
    /\ peer \in [Peers -> {"silent", "spoke", "reset"}]
    /\ sender \in [Peers -> {"none", "start", "sleep", "done"}]
    /\ receiver \in [Peers -> {"none", "start", "add", "done"}]
    /\ watched \in [Peers -> Peers \cup {NoPeer}]

Init ==
    /\ proc = "starting"
    /\ listener = "none"
    /\ fresh = NoPeer
    /\ m_socket = NoPeer
    /\ turn = [p \in Peers |-> 0]
    /\ served = 0
    /\ connFds = {}
    /\ epollFds = {}
    /\ files = 0
    /\ caFile = "absent"
    /\ ctx = "none"
    /\ contexts = 0
    /\ ssl = NoPeer
    /\ m_protocol \in {TCP, SCTP}
    /\ conn = [p \in Peers |-> "idle"]
    /\ peer = [p \in Peers |-> "silent"]
    /\ sender = [p \in Peers |-> "none"]
    /\ receiver = [p \in Peers |-> "none"]
    /\ watched = [p \in Peers |-> NoPeer]

-------------------------------------------------------------------------------
(* Resources of the process.  No connection descriptor, no epoll descriptor *)
(* and no thread is ever given back.                                        *)

OpenFds == BaseFds + Cardinality(connFds) + Cardinality(epollFds) + files
FdFree == OpenFds < MaxFds

Threads ==
    1 + Cardinality({p \in Peers : sender[p] # "none"})
      + Cardinality({p \in Peers : receiver[p] # "none"})
ThreadFree == Threads < MaxThreads

Pending == {p \in Peers : conn[p] = "pending"}

Stopped == proc \in ExitCauses \/ listener = "ended"

At(l) == proc = "running" /\ listener = l
Goto(l) == listener' = l /\ UNCHANGED proc

\* exit(0), or a signal: the other threads go with the process.
Exit(cause) ==
    /\ proc' = cause
    /\ UNCHANGED <<listener, socket, tls, net, threads>>

-------------------------------------------------------------------------------
(* Start-up, in main's thread, up to the creation of the listener thread.   *)
(* The return code of pthread_create is not looked at.                      *)

CreateSocket ==
    /\ proc = "starting"
    /\ \/ /\ proc' = "running"
          /\ \/ listener' = "poll"
             \/ "thread" \in Faults /\ listener' = "ended"
          /\ UNCHANGED <<socket, tls, net, threads>>
       \/ "create" \in Faults /\ Exit("create")

-------------------------------------------------------------------------------
(* The listener thread: poll, then process_listening_socket.                *)

\* poll() timed out, or failed with EINTR or EAGAIN.
PollAgain == At("poll") /\ UNCHANGED vars

\* Mutant: a poll() that timed out counts as a connection to accept.
PollReadyOnTimeout ==
    /\ At("poll")
    /\ Goto("accept")
    /\ UNCHANGED <<socket, tls, net, threads>>

PollReady ==
    /\ At("poll")
    /\ Pending # {}
    /\ Goto("accept")
    /\ UNCHANGED <<socket, tls, net, threads>>

\* The loop is left and the thread ends; main goes on sleeping.
PollFails ==
    /\ At("poll")
    /\ "poll" \in Faults
    /\ Goto("ended")
    /\ UNCHANGED <<socket, tls, net, threads>>

ListeningSocketFails ==
    /\ At("poll")
    /\ "listen" \in Faults
    /\ Pending = {}
    /\ Exit("listening")

\* Mutant: the sender thread is created before m_socket is set.
AcceptSpawnsFirst(p) ==
    /\ At("accept")
    /\ FdFree
    /\ p \in Pending
    /\ fresh' = p
    /\ turn' = [turn EXCEPT ![p] = served + 1]
    /\ served' = served + 1
    /\ connFds' = connFds \cup {p}
    /\ conn' = [conn EXCEPT ![p] = "open"]
    /\ sender' = IF ThreadFree THEN [sender EXCEPT ![p] = "start"] ELSE sender
    /\ Goto("names")
    /\ UNCHANGED <<m_socket, m_protocol, peer, tls, epollFds, receiver, watched>>

Accept(p) ==
    /\ At("accept")
    /\ FdFree
    /\ p \in Pending
    /\ fresh' = p
    /\ turn' = [turn EXCEPT ![p] = served + 1]
    /\ served' = served + 1
    /\ connFds' = connFds \cup {p}
    /\ conn' = [conn EXCEPT ![p] = "open"]
    /\ Goto("names")
    /\ UNCHANGED <<m_socket, m_protocol, peer, tls, threads>>

\* Mutant: accept() returns on a failure, and its caller goes on with m_socket.
AcceptFailureIgnored ==
    /\ At("accept")
    /\ ~FdFree \/ Pending = {} \/ "accept" \in Faults
    /\ \/ m_socket = NoPeer /\ Exit("accept")
       \/ m_socket # NoPeer /\ Goto("context") /\ UNCHANGED <<socket, tls, net, threads>>

\* Whatever errno says, the process exits.
AcceptFails ==
    /\ At("accept")
    /\ \/ ~FdFree /\ Exit("accept")
       \/ /\ FdFree
          /\ Pending = {} \/ "accept" \in Faults
          /\ Exit("accept_retry")

\* getsockname() fails for want of resources; getpeername() fails with ENOTCONN on a
\* connection the peer has reset.
NamesFail ==
    /\ At("names")
    /\ \/ "name" \in Faults /\ proc' = "name"
       \/ peer[fresh] = "reset" /\ proc' = "peer_gone"
    /\ connFds' = connFds \ {fresh}
    /\ UNCHANGED <<listener, fresh, m_socket, turn, served, tls, net, threads>>

PublishSocket ==
    /\ At("names")
    /\ peer[fresh] # "reset"
    /\ m_socket' = fresh
    /\ sender' = IF ThreadFree THEN [sender EXCEPT ![fresh] = "start"] ELSE sender
    /\ Goto("context")
    /\ UNCHANGED <<fresh, turn, served, connFds, tls, net, epollFds, receiver, watched>>

-------------------------------------------------------------------------------
(* tlsmanager::init, run anew for each connection.                          *)

InitialiseContext ==
    /\ At("context")
    /\ ctx' = "loading"
    /\ contexts' = contexts + 1
    /\ Goto("cert")
    /\ UNCHANGED <<files, caFile, ssl, socket, net, threads>>

\* feed_certificate, feed_key and feed_ca_cert open their file; one that
\* cannot be opened reads as empty, and an empty one does not parse.
OpenPem ==
    /\ At("cert") \/ At("key") \/ At("ca")
    /\ files = 0
    /\ FdFree
    /\ files' = 1
    /\ UNCHANGED <<proc, listener, caFile, ctx, contexts, ssl, socket, net, threads>>

PemUnusable ==
    /\ At("cert") \/ At("key") \/ At("ca")
    /\ \/ files = 0 /\ ~FdFree
       \/ files = 1 /\ "pem" \in Faults
    /\ Exit("pem")

UsePem ==
    /\ files = 1
    /\ \/ At("cert") /\ Goto("key")
       \/ At("key") /\ Goto("ca")
    /\ files' = 0
    /\ UNCHANGED <<caFile, ctx, contexts, ssl, socket, net, threads>>

\* The CA certificate is copied under /tmp while its own file is still open; nothing
\* looks whether the bytes could be written.
OpenCopy ==
    /\ At("ca")
    /\ files = 1
    /\ FdFree
    /\ files' = 2
    /\ caFile' = "written" \/ ("tmp" \in Faults /\ caFile' = "absent")
    /\ Goto("copy")
    /\ UNCHANGED <<ctx, contexts, ssl, socket, net, threads>>

\* The failure is logged only.
CopyFails ==
    /\ At("ca")
    /\ files = 1
    /\ ~FdFree \/ "tmp" \in Faults
    /\ Goto("load")
    /\ UNCHANGED <<tls, socket, net, threads>>

\* Mutant: the copy is opened for reading before the written one is closed.
CloseCopyLate ==
    /\ At("copy")
    /\ FdFree
    /\ files' = files + 1
    /\ Goto("load")
    /\ UNCHANGED <<caFile, ctx, contexts, ssl, socket, net, threads>>

CloseCopy ==
    /\ At("copy")
    /\ files' = 1
    /\ Goto("load")
    /\ UNCHANGED <<caFile, ctx, contexts, ssl, socket, net, threads>>

OpenStore ==
    /\ At("load")
    /\ caFile = "written" /\ FdFree
    /\ files' = 2
    /\ Goto("store")
    /\ UNCHANGED <<caFile, ctx, contexts, ssl, socket, net, threads>>

SetCertStore ==
    /\ At("store")
    /\ files' = 0
    /\ ctx' = "ready"
    /\ Goto("tls_accept")
    /\ UNCHANGED <<caFile, contexts, ssl, socket, net, threads>>

\* The store is freed and then given to the context all the same.
SetFreedStore ==
    /\ At("load")
    /\ ~(caFile = "written" /\ FdFree)
    /\ files' = 0
    /\ ctx' = "freed_store"
    /\ Goto("tls_accept")
    /\ UNCHANGED <<caFile, contexts, ssl, socket, net, threads>>

-------------------------------------------------------------------------------
(* The session: SSL_accept on a blocking socket, sleep, SSL_shutdown, free. *)

TlsAccept ==
    /\ At("tls_accept")
    /\ m_protocol = TCP
    /\ ssl' = m_socket
    /\ Goto("handshake")
    /\ UNCHANGED <<files, caFile, ctx, contexts, socket, net, threads>>

\* Mutant: without a BIO tls_accept returns, and the listener polls again.
NoBioReturns ==
    /\ At("tls_accept")
    /\ m_protocol # TCP
    /\ Goto("poll")
    /\ UNCHANGED <<socket, tls, net, threads>>

NoBio ==
    /\ At("tls_accept")
    /\ m_protocol # TCP
    /\ Exit("no_bio")

\* Mutant: tls_accept returns early, without shutdown and free.
SslAcceptReturnsEarly ==
    /\ At("handshake")
    /\ peer[ssl] # "silent"
    /\ Goto("poll")
    /\ UNCHANGED <<tls, socket, net, threads>>

\* Mutant: a reset does not end the wait for the peer's next record.
SslAcceptMissesReset ==
    /\ At("handshake")
    /\ peer[ssl] = "spoke"
    /\ Goto("shutdown")
    /\ UNCHANGED <<tls, socket, net, threads>>

\* SSL_accept returns, with success or not, once the peer has said enough or
\* is gone; its result is logged only.
SslAccept ==
    /\ At("handshake")
    /\ peer[ssl] # "silent"
    /\ Goto("shutdown")
    /\ UNCHANGED <<tls, socket, net, threads>>

Shutdown ==
    /\ At("shutdown")
    /\ Goto("free_ssl")
    /\ UNCHANGED <<tls, socket, net, threads>>

\* Nothing ignores SIGPIPE.
ShutdownOnBrokenPipe ==
    /\ At("shutdown")
    /\ peer[ssl] = "reset"
    /\ Exit("sigpipe")

\* Mutant: a BIO made with BIO_CLOSE closes the descriptor with the session.
FreeSslClosing ==
    /\ At("free_ssl")
    /\ ssl' = NoPeer
    /\ connFds' = connFds \ {ssl}
    /\ Goto("free_ctx")
    /\ UNCHANGED <<files, caFile, ctx, contexts, fresh, m_socket, turn, served, net,
                   threads>>

\* The BIO was made with BIO_NOCLOSE: the descriptor stays open.
FreeSsl ==
    /\ At("free_ssl")
    /\ ssl' = NoPeer
    /\ Goto("free_ctx")
    /\ UNCHANGED <<files, caFile, ctx, contexts, socket, net, threads>>

FreeCtx ==
    /\ At("free_ctx")
    /\ ctx' = "none"
    /\ Goto("poll")
    /\ UNCHANGED <<files, caFile, contexts, ssl, socket, net, threads>>

\* Verifying against a freed store, or freeing it again, may end the process.
UseFreedStore ==
    /\ At("handshake") \/ At("free_ctx")
    /\ ctx = "freed_store"
    /\ Exit("freed_store")

-------------------------------------------------------------------------------
(* The sender thread of an accepted connection, and its receiver thread.    *)

SpawnReceiver(p) ==
    /\ proc = "running"
    /\ sender[p] = "start"
    /\ sender' = [sender EXCEPT ![p] = "sleep"]
    /\ receiver' = IF ThreadFree THEN [receiver EXCEPT ![p] = "start"] ELSE receiver
    /\ UNCHANGED <<proc, listener, socket, tls, net, epollFds, watched>>

EndSender(p) ==
    /\ proc = "running"
    /\ sender[p] = "sleep"
    /\ sender' = [sender EXCEPT ![p] = "done"]
    /\ UNCHANGED <<proc, listener, socket, tls, net, epollFds, receiver, watched>>

CreateEpoll(p) ==
    /\ proc = "running"
    /\ receiver[p] = "start"
    /\ \/ /\ FdFree
          /\ epollFds' = epollFds \cup {p}
          /\ receiver' = [receiver EXCEPT ![p] = "add"]
          /\ UNCHANGED <<proc, listener, socket, tls, net, sender, watched>>
       \/ ~FdFree /\ Exit("epoll")

\* m_socket is read here, whatever it is by now; the epoll loop never runs.
AddToEpoll(p) ==
    /\ proc = "running"
    /\ receiver[p] = "add"
    /\ watched' = [watched EXCEPT ![p] = m_socket]
    /\ receiver' = [receiver EXCEPT ![p] = "done"]
    /\ UNCHANGED <<proc, listener, socket, tls, net, epollFds, sender>>

-------------------------------------------------------------------------------
(* The remote ends and the kernel's side of their connections.              *)

PeerConnects(p) ==
    /\ proc = "running"
    /\ conn[p] = "idle"
    /\ Cardinality(Pending) <= Backlog
    /\ conn' = [conn EXCEPT ![p] = "pending"]
    /\ UNCHANGED <<proc, listener, socket, tls, m_protocol, peer, threads>>

\* p has sent all that SSL_accept waits for, something it rejects, or a FIN.
PeerSpeaks(p) ==
    /\ proc = "running"
    /\ conn[p] \in {"pending", "open"}
    /\ peer[p] = "silent"
    /\ peer' = [peer EXCEPT ![p] = "spoke"]
    /\ UNCHANGED <<proc, listener, socket, tls, m_protocol, conn, threads>>

\* p resets its connection; one still in the accept queue may stay there (as
\* Linux keeps it) or be dropped from it (as accept's manual page warns).
PeerResets(p) ==
    /\ proc = "running"
    /\ conn[p] \in {"pending", "open"}
    /\ peer[p] # "reset"
    /\ peer' = [peer EXCEPT ![p] = "reset"]
    /\ \/ conn' = conn
       \/ conn[p] = "pending" /\ conn' = [conn EXCEPT ![p] = "dropped"]
    /\ UNCHANGED <<proc, listener, socket, tls, m_protocol, threads>>

\* Nothing is left to run once the process or its listener thread is gone.
Done == Stopped /\ UNCHANGED vars

-------------------------------------------------------------------------------

LoadFiles ==
    \/ OpenPem \/ PemUnusable \/ UsePem
    \/ OpenCopy \/ CopyFails \/ CloseCopy
    \/ OpenStore \/ SetCertStore \/ SetFreedStore

Session ==
    \/ TlsAccept \/ NoBio \/ SslAccept
    \/ Shutdown \/ ShutdownOnBrokenPipe
    \/ FreeSsl \/ FreeCtx

\* What the listener thread does by itself, and what only happens to it.
Progress ==
    \/ PollAgain \/ PollReady
    \/ \E p \in Peers : Accept(p)
    \/ AcceptFails \/ NamesFail \/ PublishSocket
    \/ InitialiseContext \/ LoadFiles \/ Session

Breakdown == PollFails \/ ListeningSocketFails \/ UseFreedStore

Listener == Progress \/ Breakdown

Worker(p) == SpawnReceiver(p) \/ EndSender(p) \/ CreateEpoll(p) \/ AddToEpoll(p)

Remote(p) == PeerConnects(p) \/ PeerSpeaks(p) \/ PeerResets(p)

Next ==
    \/ CreateSocket
    \/ Listener
    \/ \E p \in Peers : Worker(p) \/ Remote(p)
    \/ Done

Spec == Init /\ [][Next]_vars

\* The scheduler runs every thread; the remote ends owe nothing, and nothing makes
\* a breakdown happen.
FairSpec ==
    /\ Spec
    /\ WF_vars(CreateSocket)
    /\ WF_vars(Progress)
    /\ \A p \in Peers : WF_vars(Worker(p))

-------------------------------------------------------------------------------
(* Properties. *)

\* The TLS session in progress runs on the socket m_socket still names, and its
\* descriptor is open: no later accept() moves m_socket under a session, although
\* nothing but the listener's own sequence of calls protects it.
SessionOnCurrentSocket ==
    ssl # NoPeer => ssl = m_socket /\ ssl \in connFds /\ ctx # "none"

\* The race on m_socket between accept() and the receiver threads is one way: a
\* receiver thread that is late adds the socket of a later connection to its
\* epoll set, never that of an earlier one, and never the initial value.
WatchedNotOlder ==
    \A p \in Peers : receiver[p] = "done" =>
        watched[p] # NoPeer /\ turn[watched[p]] >= turn[p]

\* A server accepts, in its whole life, only as many connections as it has free
\* descriptors when it starts to listen, and each receiver thread that comes to run
\* costs one more: nothing is given back at the end of a session.
LifetimeCapacity == served + Cardinality(epollFds) <= MaxFds - BaseFds

\* Descriptors that suffice for n connections: two for each that stay open, and
\* two more that loading the CA certificate holds for a moment.
EnoughFds == BaseFds + 2 * Cardinality(Peers) + 2 <= MaxFds

\* With enough descriptors, no external fault and no peer that resets its
\* connection, no interleaving of the threads ends the process: no transient
\* descriptor of one thread makes another thread run out of them.
SurvivesCooperativePeers ==
    (m_protocol = TCP /\ Faults = {} /\ EnoughFds /\ \A p \in Peers : peer[p] # "reset")
        => proc \in {"starting", "running"}

\* A comment of tlsmanager::initialise_context says "use the same SSL context for
\* all server connections": no second context is made.
SameContext == contexts <= 1

\* A comment of TransportInterface::accept says that EAGAIN and the other
\* transient errors "will be handled as an re-try option": none ends the process.
AcceptIsRetried == proc # "accept_retry"

\* The one thing that keeps a connection in the accept queue for ever, as long as
\* the process and its listener thread live, is a peer that stays silent during
\* the handshake of another connection.
StalledOnlyBySilence ==
    \A p \in Peers :
        <>[](conn[p] = "pending")
            => <>[](Stopped \/ (listener = "handshake" /\ peer[ssl] = "silent"))

\* Over SCTP there is no BIO for the session: the first connection that stays in
\* the queue ends the server.
SctpConnectionStopsServer ==
    m_protocol = SCTP =>
        \A p \in Peers : conn[p] = "pending" ~> (Stopped \/ conn[p] = "dropped")

\* The connection the listener thread is serving: the one the TLS session runs on,
\* or the one it will run on.
Serving ==
    IF ssl # NoPeer THEN ssl
    ELSE IF listener = "names" THEN fresh
    ELSE IF listener \in {"none", "poll", "accept", "ended"} THEN NoPeer
    ELSE m_socket

OneAtATime == INSTANCE Sessions WITH
    waiting <- Pending,
    current <- Serving,
    over <- {p \in Peers : conn[p] \in {"open", "dropped"}} \ {Serving}

\* Although accept(), m_socket and the session are three places for one connection,
\* and peers come, speak and go at any time, the server serves connections one at a
\* time, each at most once, and each to the end unless the process ends.
ServesOneAtATime == OneAtATime!Spec

===============================================================================
