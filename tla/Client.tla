-------------------------------- MODULE Client --------------------------------
(***************************************************************************)
(* The client process of tls_client (./tls_client -tcp -c ...): main       *)
(* creates the socket and the sender thread; the sender thread connects    *)
(* without blocking, spawns a receiver thread, runs one TLS handshake,     *)
(* sends one message and shuts the session down.                           *)
(*                                                                         *)
(* The kernel's side of the socket and the remote server are modelled from *)
(* how the code uses them.  The server's side of the handshake is two      *)
(* flights of data that reach the client in segments; each sleep, and each *)
(* wait in poll(), is a place where the remote end and the network act.    *)
(***************************************************************************)
EXTENDS Integers

CONSTANTS
    Flight1,     \* segments the server's first handshake flight arrives in
    Flight2,     \* segments its second flight arrives in
    Faults       \* external faults that may occur, see FaultKinds

TCP == 0
SCTP == 1

\* create: a call of create_socket fails; thread: a thread is not created;
\* connect: connect() fails with an error other than EINPROGRESS; poll: poll()
\* fails, not with EINTR; signal: EINTR while waiting in the handshake; epoll:
\* epoll_create1() fails; pem: a PEM file is missing or unusable; tmp: the copy of
\* the CA certificate cannot be written; full: the send buffer is full; reject:
\* either side refuses the handshake, or the server closes its end.
FaultKinds == {"create", "thread", "connect", "poll", "signal", "epoll", "pem",
               "tmp", "full", "reject"}

ASSUME ClientAssumption ==
    /\ Flight1 \in Nat \ {0} /\ Flight2 \in Nat \ {0}
    /\ Faults \subseteq FaultKinds

VARIABLES
    proc,        \* "running", or why the process is gone
    pc,          \* where the sender thread is
    m_protocol,  \* TransportInterface::m_protocol, from the command line
    m_socket,    \* TransportInterface::m_socket
    fdOpen,      \* whether the descriptor of the socket is "open" or "closed"
    sock,        \* the kernel's state of the socket
    so_error,    \* its pending error: "none" or "set"
    reached,     \* whether the connection was ever established: "no" or "yes"
    tries,       \* i in TransportInterface::connect: calls of poll() that failed
    receiver,    \* the receiver thread
    watched,     \* the descriptor the receiver thread added to its epoll set
    ctx,         \* tlsmanager::m_ctx
    hs,          \* the handshake of tlsmanager::m_ssl
    attempt,     \* attempt in tlsmanager::tls_connect
    outcome,     \* what the last step of tls_connect found
    wasted,      \* history: waits that ended with nothing new to read
    inbox,       \* segments received and not yet read
    alert,       \* whether the server's alert, or the end of its stream, has come
    got,         \* segments of the handshake read so far
    sent         \* whether client_message was sent: "no" or "yes"

conn == <<m_protocol, m_socket, fdOpen, sock, so_error, reached>>
recv == <<receiver, watched>>
tls == <<ctx, hs, attempt, outcome, wasted, inbox, alert, got, sent>>
vars == <<proc, pc, conn, tries, recv, tls>>

Fd == 3
NotSet == 0
Tries == 3
\* Mutant: one attempt fewer.
TwoAttempts == 2

Attempts == 3
Segments == Flight1 + Flight2

ExitCauses == {"create", "connect", "epoll", "pem", "freed_store", "sigpipe"}

\* Where the sender thread is once connect() has returned true.
AfterConnect ==
    {"spawn", "init", "ssl_connect", "tls_poll", "write", "shutdown", "free"}

TypeOK ==
    /\ proc \in {"running"} \cup ExitCauses
    /\ pc \in {"none", "connect", "poll", "so_error", "close", "ended"} \cup AfterConnect
    /\ m_protocol \in {TCP, SCTP}
    /\ m_socket \in {NotSet, Fd, -1}
    /\ fdOpen \in {"closed", "open"}
    /\ sock \in {"fresh", "trying", "up", "failed", "shut"}
    /\ so_error \in {"none", "set"}
    /\ reached \in {"no", "yes"}
    /\ tries \in 0..Tries
    /\ receiver \in {"none", "start", "add", "done"}
    /\ watched \in {NotSet, Fd, -1}
    /\ ctx \in {"none", "ready", "freed_store"}
    /\ hs \in {"none", "going", "done", "error"}
    /\ attempt \in 0..Attempts
    /\ outcome \in {"none", "read", "write", "ready", "timeout", "interrupted", "error"}
    /\ wasted \in 0..Attempts
    /\ inbox \in 0..Segments
    /\ alert \in {"no", "yes"}
    /\ got \in 0..Segments
    /\ got + inbox <= Segments
    /\ sent \in {"no", "yes"}

Init ==
    /\ proc = "running"
    /\ pc = "none"
    /\ m_protocol \in {TCP, SCTP}
    /\ m_socket = NotSet
    /\ fdOpen = "closed"
    /\ sock = "fresh"
    /\ so_error = "none"
    /\ reached = "no"
    /\ tries = 0
    /\ receiver = "none"
    /\ watched = NotSet
    /\ ctx = "none"
    /\ hs = "none"
    /\ attempt = 0
    /\ outcome = "none"
    /\ wasted = 0
    /\ inbox = 0
    /\ alert = "no"
    /\ got = 0
    /\ sent = "no"

At(l) == proc = "running" /\ pc = l
Goto(l) == pc' = l /\ UNCHANGED proc

\* exit(0), or a signal: both threads go with the process.
Exit(cause) == proc' = cause /\ UNCHANGED <<pc, conn, tries, recv, tls>>

-------------------------------------------------------------------------------
(* main's thread: create_socket for a client. *)

CreateSocket ==
    /\ At("none")
    /\ \/ /\ m_socket' = Fd
          /\ fdOpen' = "open"
          /\ \/ Goto("connect")
             \/ "thread" \in Faults /\ Goto("ended")
          /\ UNCHANGED <<m_protocol, sock, so_error, reached, tries, recv, tls>>
       \/ "create" \in Faults /\ Exit("create")

-------------------------------------------------------------------------------
(* TransportInterface::connect and the poll() it calls up to three times.    *)

StartConnect ==
    /\ At("connect")
    /\ \/ sock' = "trying" /\ UNCHANGED reached     \* EINPROGRESS
       \/ sock' = "up" /\ reached' = "yes"
    /\ Goto("poll")
    /\ UNCHANGED <<m_protocol, m_socket, fdOpen, so_error, tries, recv, tls>>

ConnectFails ==
    /\ At("connect")
    /\ "connect" \in Faults
    /\ Exit("connect")

\* Mutant: one try too many.
NextTryOffByOne ==
    /\ tries' = tries + 1
    /\ Goto(IF tries + 1 <= Tries THEN "poll" ELSE "close")

\* poll() returns false: the next of three tries, or the end of connect().
NextTry ==
    /\ tries' = tries + 1
    /\ Goto(IF tries + 1 < Tries THEN "poll" ELSE "close")

\* ::poll failed with EINTR, EINPROGRESS or EALREADY.
PollInterrupted == At("poll") /\ UNCHANGED vars

\* A failed TCP socket polls as writable; a failed SCTP one only as in error.
Writable == sock = "up" \/ (sock = "failed" /\ m_protocol = TCP)

\* Mutant: a try that fails is not counted.
PollGivesUpUncounted ==
    /\ At("poll")
    /\ ~Writable \/ "poll" \in Faults
    /\ Goto("poll")
    /\ UNCHANGED <<conn, tries, recv, tls>>

\* Nothing happened for a second, an error event came alone, or ::poll failed.
PollGivesUp ==
    /\ At("poll")
    /\ ~Writable \/ "poll" \in Faults
    /\ NextTry
    /\ UNCHANGED <<conn, recv, tls>>

\* Mutant: an error event alone counts as ready.
PollReadyOnError ==
    /\ At("poll")
    /\ Writable \/ sock = "failed"
    /\ Goto("so_error")
    /\ UNCHANGED <<conn, tries, recv, tls>>

PollReady ==
    /\ At("poll")
    /\ Writable
    /\ Goto("so_error")
    /\ UNCHANGED <<conn, tries, recv, tls>>

\* Mutant: SO_ERROR is read, and what it says ignored.
IgnoreSoError ==
    /\ At("so_error")
    /\ so_error' = "none"
    /\ Goto("spawn")
    /\ UNCHANGED <<m_protocol, m_socket, fdOpen, sock, reached, tries, recv, tls>>

\* Reading SO_ERROR clears it; no error means connected.
ReadSoError ==
    /\ At("so_error")
    /\ so_error' = "none"
    /\ IF so_error = "set" THEN NextTry ELSE Goto("spawn") /\ UNCHANGED tries
    /\ UNCHANGED <<m_protocol, m_socket, fdOpen, sock, reached, recv, tls>>

\* TransportInterface::close: the descriptor is closed only when shutdown() fails;
\* either way the connection is over.
ShutdownFails == sock = "failed" \/ (sock = "trying" /\ m_protocol = SCTP)

\* Mutant: connect() returns false without calling close().
CloseForgotten ==
    /\ At("close")
    /\ Goto("ended")
    /\ UNCHANGED <<conn, tries, recv, tls>>

Close ==
    /\ At("close")
    /\ sock' = "shut"
    /\ IF ShutdownFails
         THEN m_socket' = -1 /\ fdOpen' = "closed"
         ELSE UNCHANGED <<m_socket, fdOpen>>
    /\ Goto("ended")
    /\ UNCHANGED <<m_protocol, so_error, reached, tries, recv, tls>>

-------------------------------------------------------------------------------
(* The receiver thread, and the sender's way to the handshake.               *)

SpawnReceiver ==
    /\ At("spawn")
    /\ \/ receiver' = "start"
       \/ "thread" \in Faults /\ UNCHANGED receiver
    /\ Goto("init")
    /\ UNCHANGED <<conn, tries, watched, tls>>

CreateEpoll ==
    /\ proc = "running"
    /\ receiver = "start"
    /\ \/ receiver' = "add" /\ UNCHANGED <<proc, pc, conn, tries, watched, tls>>
       \/ "epoll" \in Faults /\ Exit("epoll")

AddToEpoll ==
    /\ proc = "running"
    /\ receiver = "add"
    /\ watched' = m_socket
    /\ receiver' = "done"
    /\ UNCHANGED <<proc, pc, conn, tries, tls>>

\* tlsmanager::init; a CA store that cannot be loaded is freed and then used.
InitTls ==
    /\ At("init")
    /\ \/ /\ \/ ctx' = "ready"
             \/ "tmp" \in Faults /\ ctx' = "freed_store"
          /\ Goto("ssl_connect")
          /\ UNCHANGED <<conn, tries, recv, hs, attempt, outcome, wasted, inbox, alert,
                         got, sent>>
       \/ "pem" \in Faults /\ Exit("pem")

-------------------------------------------------------------------------------
(* tlsmanager::tls_connect: at most three calls of SSL_connect.              *)

\* A write on a socket whose error has already been read raises SIGPIPE.
BrokenPipe == sock = "failed" /\ so_error = "none"

\* OpenSSL reads all that has arrived; it needs both flights.
ReadSegments == got' = got + inbox /\ inbox' = 0

\* What came before a reset can still be read; the client's own flight cannot be
\* written any more.
Readable == sock = "up" \/ (sock = "failed" /\ hs = "going" /\ got >= Flight1)

SslConnectDone ==
    /\ At("ssl_connect")
    /\ m_protocol = TCP /\ Readable
    /\ got + inbox = Segments
    /\ ReadSegments
    /\ hs' = "done"
    /\ Goto("write")
    /\ UNCHANGED <<conn, tries, recv, ctx, attempt, outcome, wasted, alert, sent>>

SslConnectWants ==
    /\ At("ssl_connect")
    /\ m_protocol = TCP /\ sock = "up"
    /\ \/ /\ got + inbox < Segments /\ alert = "no"
          /\ ReadSegments /\ outcome' = "read"
       \/ "full" \in Faults /\ UNCHANGED <<got, inbox>> /\ outcome' = "write"
    /\ hs' = "going"
    /\ attempt' = attempt + 1
    /\ Goto("tls_poll")
    /\ UNCHANGED <<conn, tries, recv, ctx, wasted, alert, sent>>

\* Over SCTP there is no BIO.  The first call writes, later ones read first.  An
\* alert, an end of the stream, or what the client itself refuses fail the call.
SslConnectFails ==
    /\ At("ssl_connect")
    /\ \/ m_protocol = SCTP
       \/ sock = "failed" /\ ~(BrokenPipe /\ attempt = 0)
       \/ sock = "up" /\ "reject" \in Faults
    /\ hs' = "error"
    /\ attempt' = attempt + 1
    /\ outcome' = "error"
    /\ so_error' = "none"
    /\ Goto("write")
    /\ UNCHANGED <<m_protocol, m_socket, fdOpen, sock, reached, tries, recv, ctx,
                   wasted, inbox, alert, got, sent>>

ClientHelloOnBrokenPipe ==
    /\ At("ssl_connect")
    /\ m_protocol = TCP /\ BrokenPipe /\ attempt = 0
    /\ Exit("sigpipe")

\* The next call of SSL_connect, unless there have been three.
TryAgain(why) ==
    /\ outcome' = why
    /\ Goto(IF attempt < Attempts THEN "ssl_connect" ELSE "write")

\* A segment, an alert, the end of the stream and a reset all poll as readable.
WaitReady ==
    /\ At("tls_poll")
    /\ outcome = "write" \/ inbox > 0 \/ alert = "yes" \/ sock = "failed"
    /\ wasted' = IF outcome = "write" THEN wasted + 1 ELSE wasted
    /\ TryAgain("ready")
    /\ UNCHANGED <<conn, tries, recv, ctx, hs, attempt, inbox, alert, got, sent>>

WaitInterrupted ==
    /\ At("tls_poll")
    /\ "signal" \in Faults
    /\ wasted' = wasted + 1
    /\ TryAgain("interrupted")
    /\ UNCHANGED <<conn, tries, recv, ctx, hs, attempt, inbox, alert, got, sent>>

WaitFails ==
    /\ At("tls_poll")
    /\ \/ /\ outcome' = "timeout"
          /\ outcome = "read" => inbox = 0 /\ alert = "no" /\ sock = "up"
       \/ "poll" \in Faults /\ outcome' = "error"
    /\ Goto("write")
    /\ UNCHANGED <<conn, tries, recv, ctx, hs, attempt, wasted, inbox, alert, got, sent>>

-------------------------------------------------------------------------------
(* The message, the shutdown alert and the frees.  No result is looked at.   *)

\* Mutant: SSL_write does not finish the handshake first.
WriteSendsEarly ==
    /\ At("write")
    /\ sock = "up"
    /\ hs \in {"going", "done"}
    /\ sent' = "yes"
    /\ Goto("shutdown")
    /\ UNCHANGED <<conn, tries, recv, ctx, hs, attempt, outcome, wasted, inbox, alert,
                   got>>

\* Written on a finished session; on an unfinished one SSL_write goes on with
\* the handshake first.
WriteSends ==
    /\ At("write")
    /\ sock = "up"
    /\ \/ hs = "done" /\ UNCHANGED <<got, inbox>>
       \/ hs = "going" /\ got + inbox = Segments /\ ReadSegments
    /\ hs' = "done"
    /\ sent' = "yes"
    /\ Goto("shutdown")
    /\ UNCHANGED <<conn, tries, recv, ctx, attempt, outcome, wasted, alert>>

\* The message is not sent: the session has failed, or fails now, or has not got
\* all of the server's flights, or the connection is broken, or has no room.
WriteFails ==
    /\ At("write")
    /\ \/ hs = "error" /\ UNCHANGED <<hs, got, inbox, so_error>>
       \/ hs = "going" /\ sock = "up" /\ got + inbox < Segments /\ alert = "no"
             /\ ReadSegments /\ UNCHANGED <<hs, so_error>>
       \/ hs = "going" /\ sock = "up" /\ "reject" \in Faults
             /\ ReadSegments /\ hs' = "error" /\ UNCHANGED so_error
       \/ hs = "going" /\ sock = "failed" /\ Readable /\ got + inbox = Segments
             /\ ReadSegments /\ hs' = "done" /\ so_error' = "none"
       \/ sock = "failed" /\ ~(BrokenPipe /\ hs = "done")
             /\ so_error' = "none" /\ UNCHANGED <<hs, got, inbox>>
       \/ sock = "up" /\ "full" \in Faults /\ UNCHANGED <<hs, got, inbox, so_error>>
    /\ Goto("shutdown")
    /\ UNCHANGED <<m_protocol, m_socket, fdOpen, sock, reached, tries, recv, ctx,
                   attempt, outcome, wasted, alert, sent>>

\* SSL_shutdown writes its alert once the handshake is done.
ShutdownTls ==
    /\ At("shutdown")
    /\ hs = "done" => ~BrokenPipe
    /\ so_error' = IF hs = "done" THEN "none" ELSE so_error
    /\ Goto("free")
    /\ UNCHANGED <<m_protocol, m_socket, fdOpen, sock, reached, tries, recv, tls>>

WriteOnBrokenPipe ==
    /\ At("write") \/ At("shutdown")
    /\ hs = "done" /\ BrokenPipe
    /\ Exit("sigpipe")

\* Mutant: the socket is closed with the session.
FreeTlsClosing ==
    /\ At("free")
    /\ ctx' = "none"
    /\ m_socket' = -1
    /\ fdOpen' = "closed"
    /\ Goto("ended")
    /\ UNCHANGED <<m_protocol, sock, so_error, reached, tries, recv, hs, attempt,
                   outcome, wasted, inbox, alert, got, sent>>

\* SSL_free and SSL_CTX_free; the descriptor stays open, the thread ends.
FreeTls ==
    /\ At("free")
    /\ ctx' = "none"
    /\ Goto("ended")
    /\ UNCHANGED <<conn, tries, recv, hs, attempt, outcome, wasted, inbox, alert, got,
                   sent>>

\* Verifying against a freed store, or freeing it again, may end the process.
UseFreedStore ==
    /\ At("ssl_connect") \/ At("free")
    /\ ctx = "freed_store"
    /\ Exit("freed_store")

-------------------------------------------------------------------------------
(* The network and the server.                                               *)

Established ==
    /\ proc = "running"
    /\ sock = "trying"
    /\ sock' = "up"
    /\ reached' = "yes"
    /\ UNCHANGED <<proc, pc, m_protocol, m_socket, fdOpen, so_error, tries, recv, tls>>

\* The attempt is refused or unreachable, or the connection is reset.
Broken ==
    /\ proc = "running"
    /\ sock \in {"trying", "up"}
    /\ sock' = "failed"
    /\ so_error' = "set"
    /\ UNCHANGED <<proc, pc, m_protocol, m_socket, fdOpen, reached, tries, recv, tls>>

\* The server answers the client's hello, and then its second flight.
Segment ==
    /\ proc = "running"
    /\ sock = "up" /\ alert = "no"
    /\ hs = "going"
    /\ got + inbox < IF got < Flight1 THEN Flight1 ELSE Segments
    /\ inbox' = inbox + 1
    /\ UNCHANGED <<proc, pc, conn, tries, recv, ctx, hs, attempt, outcome, wasted,
                   alert, got, sent>>

\* The server gives the handshake up, or closes its end: nothing comes after that.
Alert ==
    /\ proc = "running"
    /\ sock = "up" /\ alert = "no"
    /\ "reject" \in Faults
    /\ alert' = "yes"
    /\ UNCHANGED <<proc, pc, conn, tries, recv, ctx, hs, attempt, outcome, wasted, inbox,
                   got, sent>>

-------------------------------------------------------------------------------

Connect ==
    \/ StartConnect \/ ConnectFails
    \/ PollInterrupted \/ PollGivesUp \/ PollReady
    \/ ReadSoError \/ Close

Handshake ==
    \/ InitTls
    \/ SslConnectDone \/ SslConnectWants \/ SslConnectFails \/ ClientHelloOnBrokenPipe
    \/ WaitReady \/ WaitInterrupted \/ WaitFails

Session ==
    \/ WriteSends \/ WriteFails \/ ShutdownTls \/ WriteOnBrokenPipe
    \/ FreeTls \/ UseFreedStore

Sender == Connect \/ SpawnReceiver \/ Handshake \/ Session

Receiver == CreateEpoll \/ AddToEpoll

Network == Established \/ Broken \/ Segment \/ Alert

Stopped == proc # "running" \/ pc = "ended"

Done == Stopped /\ UNCHANGED vars

Next == CreateSocket \/ Sender \/ Receiver \/ Network \/ Done

Spec == Init /\ [][Next]_vars

\* The scheduler runs both threads; the network owes nothing.
FairSpec ==
    /\ Spec
    /\ WF_vars(CreateSocket)
    /\ WF_vars(Sender)
    /\ WF_vars(Receiver)

-------------------------------------------------------------------------------
(* Properties. *)

\* Comments of TransportInterface::connect and poll say that connect() spins
\* "until socket connects" and checks "whether socket is really ready to connect":
\* it returns true only for a connection that was established.
ConnectedWhenTrue == pc \in AfterConnect => reached = "yes"

\* When the very first poll() succeeds, connect() does not lie: only a retry, on a
\* socket whose pending error an earlier try has read, can report a connection
\* that was never established.
FirstTryIsHonest == pc \in AfterConnect /\ tries = 0 => reached = "yes"

\* Over SCTP, whose failed sockets poll in error and never as writable, connect()
\* never lies.
SctpConnectIsHonest ==
    m_protocol = SCTP /\ pc \in AfterConnect => reached = "yes"

\* When connect() gives up, nothing of the attempt goes on: the connection is shut,
\* even if the server's answer came between the last poll() and close(), and neither
\* the receiver thread nor a TLS session was started on it.  The descriptor may stay
\* open, and does only when m_socket still names it.
NothingLeftConnecting ==
    pc = "ended" /\ tries = Tries =>
        /\ sock = "shut" /\ receiver = "none" /\ ctx = "none"
        /\ fdOpen = "open" <=> m_socket = Fd

\* The receiver thread never sees m_socket unset or reset by close(): whatever it
\* adds to its epoll set is the socket, still open.
ReceiverSeesOpenSocket ==
    receiver # "none" => m_socket = Fd /\ fdOpen = "open" /\ watched \in {NotSet, Fd}

\* tls_connect does not give an unfinished handshake up for want of attempts before
\* three things have happened that each cost one: a segment came, a wait was spent on
\* a signal or a full send buffer, or the server's alert or end of stream came, which
\* ends one wait and no more.  However these interleave, no attempt is lost otherwise.
GivenUpAfterThree ==
    (pc = "write" /\ hs = "going" /\ sock = "up" /\ outcome \in {"ready", "interrupted"})
        => got + inbox + wasted + (IF alert = "yes" THEN 1 ELSE 0) >= 3

\* The message leaves only on an established connection, after both flights of the
\* server were read, though tls_connect() reports nothing to its caller.
SentOnlyAfterHandshake ==
    sent = "yes" => reached = "yes" /\ hs = "done" /\ got = Segments

\* Whatever the network does, the sender thread ends, or the process exits.
SenderEnds == <>Stopped

===============================================================================
