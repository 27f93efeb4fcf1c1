# Verification of tls_client

`tls_client` is one small C++ program with two roles. Started with `-s` it is a
TLS server, started with `-c` a TLS client, over TCP (`-tcp`) or SCTP (`-sctp`).
It uses POSIX threads, non-blocking sockets, `poll`, `epoll` and OpenSSL. This
directory holds TLA+ models of the two processes and of the two together, the TLC
runs that check them on small instances, and TLAPS proofs about them for every
instance.

| File | What it is |
| --- | --- |
| `Server.tla` | the server process: listener, sender and receiver threads, descriptors, sessions |
| `MCServer.tla`, `Server_*.cfg` | TLC instances of `Server` |
| `Sessions.tla` | abstract: connections served one at a time; `Server` implements it |
| `ServerProofs.tla` | theorems about `Server` |
| `Client.tla` | the client process: connect, receiver thread, handshake, message, shutdown |
| `MCClient.tla`, `Client_*.cfg` | TLC instances of `Client` |
| `ClientProofs.tla` | theorems about `Client` |
| `System.tla` | one client process, one server process and other peers: `Server` and `Client` composed |
| `MCSystem.tla`, `System.cfg` | TLC instance of `System` |
| `SystemProofs.tla` | theorems about `System`: each part behaves as its own module says, and what only the two together show |
| `MessageIO.tla` | `send_message` and `receive_message` over a byte stream |
| `MessageQueue.tla` | abstract: messages arrive whole, in order, once; `MessageIO` implements it as far as it goes |
| `MCMessageIO.tla`, `MessageIO_*.cfg` | TLC instances of `MessageIO` |
| `MessageIOProofs.tla` | theorems about `MessageIO`, up to its refinement of `MessageQueue` |
| `Startup.tla` | from the command line to the first thread |
| `MCStartup.tla`, `Startup.cfg` | TLC instance of `Startup` |
| `StartupProofs.tla` | theorems about `Startup` |
| `Arithmetic.tla` | lemmas on quotients and remainders that two of the proof modules use |
| `SslLocks.tla`, `SslLocks.cfg` | the lock callbacks registered with OpenSSL |
| `SslLocksProofs.tla` | theorems about `SslLocks` |
| `PROJECT.json` | components, runs, mutants, map to the source, hazards, findings, theorems |

To run: `tlc -config Server_faults.cfg MCServer`, `tlapm ServerProofs.tla`.

## 1. Inventory

### Components

**Command line and `main`** (`tls_client.cpp`). Parses the arguments by position,
calls `TransportInterface::init`, then sleeps for ever. Hard to test: the port is
cut from 64 to 32 bits and by `htons` to 16, the result of `convertStrToLong` is
ignored, an unknown first argument means TCP, the flags are not looked at,
`arguments[1]` is read when there is none, and a thread that cannot be created
leaves `main` asleep. Correct means: a thread starts only from a complete command
line, and a port that exists is used as typed.

**TransportInterface** (`transportinterface.cpp/.h`). A singleton shared by all
threads. State: `m_socket`, `m_passive_socket`, `m_protocol`, `m_type`, the
addresses, and four fields that are written and never read (`m_sender`,
`m_reciever`, `m_connection_attempt`, `m_errornumber`). Operations:
`create_socket` (with `set_sock_option`, `bind`, `listen`), `accept`, `connect`,
`poll`, `close`, and the message functions `send_message`, `receive_message`.
Hard: `m_socket` is written by the listener for each connection and read later
by other threads without a lock; `connect` retries `poll` after the pending
error was consumed; `accept` exits the process on errors the comments call
transient. Correct means: each reader of `m_socket` sees the connection it is
there for, `connect` is true only for an established connection, and giving up
leaves nothing behind.

The message functions, `send_message` and `receive_message`, have no caller that
runs: the calls are commented out, or in the loop that never runs. Hard:
`send_to_socket` has no `return`, so a failed `send` is judged by what the return
register holds; a wait that times out in the middle of a message gives up the
message and keeps the bytes; the client would send 14 bytes where both ends
receive 13. Correct means: true is returned for a whole message only, and messages
arrive in order.

**Listener thread** (`socketlistener.cpp`). State: its poll set. It waits for the
passive socket, calls `accept`, and then runs the entire TLS session of that
connection, twenty seconds of sleep included, before it polls again. Hard: one
silent peer stalls all others; one lost connection may end the process.

**Sender thread** (`socketsender.cpp`). In the client it connects, spawns the
receiver thread, and runs the TLS session: handshake, one message, shutdown. In
the server there is one per accepted connection, and it only spawns the receiver
thread.

**Receiver thread** (`socketreceiver.cpp`). State: `m_epoll_fd`. It creates an
epoll descriptor, adds whatever `m_socket` is at that moment, and ends: the loop
that would read messages is a `while ( 0 )`. The descriptor is never closed.

**tlsmanager** (`tlsmanager.cpp`). State: `m_ctx`, `m_ssl`. One object per
connection. `init` makes a context and feeds it certificate, key and CA store,
through a copy of the CA file under `/tmp`; `tls_accept` and `tls_connect` run the
handshake; `write`, `tls_shutdown`, `free_ssl`, `free_ssl_ctx` do the rest. Hard:
the handshake is retried at most three times; a store that fails to load is freed
and then used; over SCTP there is no BIO; nothing ignores SIGPIPE.

**OpenSSL thread callbacks** (`sslthreadwrapper.h`). State: `mutex_buf`, replaced
by a new array each time a `tlsmanager` is initialised; the callbacks, registered
with OpenSSL once an array has been allocated. Hard: OpenSSL may hold a lock when
the array is replaced, or find a null array behind callbacks of an earlier session.
`ssl_thread_cleanup` frees the array inside the loop over it, but nothing calls it.

**Keys, certificates, Makefile, notes**: data, no behaviour.

### How they interact

    main --init--> TransportInterface --pthread_create--> listener   (server)
                                      --pthread_create--> sender     (client)
    listener --accept()--> m_socket := fd --pthread_create--> sender --> receiver
    listener --init, tls_accept, sleep, tls_shutdown, free--> tlsmanager
    sender (client) --connect, close--> TransportInterface
    sender (client) --init, tls_connect, write, tls_shutdown, free--> tlsmanager
    receiver --epoll_ctl(m_socket)--> kernel

All communication between threads is through `m_socket` and the process's
resources: the descriptor table, the thread limit, and `exit()`, which any thread
may call and which ends all of them.

Client and server meet on one connection. The client waits for each handshake
segment for two seconds at most, goes on when it has given up, and never closes its
socket once `connect` has succeeded. The server's `SSL_accept` has no timeout, and
each session sleeps twenty seconds before it is shut down: an end learns late, or
never, that the other has gone on.

### Hard behaviours

`PROJECT.json` lists them line by line under `hazards`. In short: the race on
`m_socket`; descriptors and threads that are never given back; exits of the whole
process for the failure of one connection; a blocking handshake in the only
listener thread; a pending socket error that can be read only once; timeouts that
race with late answers; a bounded number of handshake attempts; failures that are
logged and then ignored; a timeout at one end and none at the other; bytes of a
message left in the stream.

## 2. The models

### Server

One process, with the accept queue of the kernel and the remote clients around
it. A connection is named by the peer that opens it, and so is its descriptor.

| State | Code |
| --- | --- |
| `proc` | whether the process runs, or which exit ended it |
| `listener` | program counter of `socketlistener::start_thread`, through `accept`, `tlsmanager::init` and the session |
| `fresh`, `m_socket` | `conn_sock_fd` of `accept`, and the shared field |
| `turn`, `served` | history: the order in which connections were accepted |
| `connFds`, `epollFds`, `files` | descriptors of connections, of epoll sets, of PEM files |
| `caFile`, `ctx`, `ssl`, `contexts` | the copy under `/tmp`, `m_ctx`, `m_ssl`, calls of `SSL_CTX_new` |
| `sender`, `receiver`, `watched` | the threads of each connection, and what the receiver added to its epoll set |
| `m_protocol`, `conn`, `peer` | TCP or SCTP, the kernel's side of each connection, what the peer did |

Actions follow the calls: `PollReady`, `PollFails`, `ListeningSocketFails`
(`start_thread`, `process_listening_socket`); `Accept`, `AcceptFails`,
`NamesFail`, `PublishSocket` (`accept`: the kernel call, its failures, those of
`getsockname` and `getpeername`, the assignment to `m_socket` with the thread
creation);
`InitialiseContext` and the group `LoadFiles` (`tlsmanager::init`, one action for
each descriptor opened or closed, because other threads compete for descriptors);
the group `Session` (`tls_accept` to `free_ssl_ctx`); `SpawnReceiver`,
`EndSender`, `CreateEpoll`, `AddToEpoll` (the two worker threads); `PeerConnects`,
`PeerSpeaks`, `PeerResets` (remote ends and kernel, from how the code uses them).

Abstractions:

- Times are left out. A poll that times out is a stutter, and a sleep is a place
  where anything else may happen.
- The accept queue is a set: which pending connection `accept` returns is left
  open, which includes the kernel's order.
- A descriptor number is the name of its connection. Numbers are reused only
  after a close, and no connection is closed while the process lives.
- `SSL_accept` returns, with or without success, once its peer has said what it
  waits for, or has reset the connection. Its result is only logged.
- A call on a broken connection may raise SIGPIPE, and the use of a freed
  certificate store may end the process; both also may not, as the build and the
  moment decide.
- Start-up is one step: it succeeds or exits.
- A copy of the CA file that was opened but could not be written is as good as none:
  the load after it fails.

### Client

One process and its single connection.

| State | Code |
| --- | --- |
| `proc`, `pc` | the process, and the program counter of the sender thread through `connect`, `poll`, `close`, `tls_connect` and the session |
| `m_protocol`, `m_socket`, `fdOpen` | fields of `TransportInterface`, and whether the descriptor is open |
| `sock`, `so_error`, `reached` | the kernel's socket: its state, the pending error, whether the connection was ever established |
| `tries` | `i` of the loop in `connect` |
| `receiver`, `watched` | the receiver thread and its epoll set |
| `ctx`, `hs`, `attempt`, `outcome` | `m_ctx`, the handshake of `m_ssl`, `attempt` in `tls_connect`, and what its last wait found |
| `wasted` | history: waits that ended without anything to read |
| `inbox`, `got`, `sent` | handshake segments received and read, whether the message left |
| `alert` | whether the server's alert, or the end of its stream, has come |

The server's side of the handshake is two flights of data, cut by the network into
`Flight1` and `Flight2` segments; the second is sent once the client has read the
first. Segments may arrive while the client is anywhere, and so may, behind the last
of them, an alert or the end of the stream (`Alert`): it wakes the wait in
`tls_connect` like a segment, and fails the next `SSL_connect`. Two flights are the full
handshake of TLS 1.0 to 1.2, the versions of the cipher list in
`initialise_context`. `SSL_shutdown` writes nothing before the handshake is done.

Kernel behaviour the model takes from Linux: reading `SO_ERROR` clears the error;
a failed TCP socket still polls as writable; `shutdown` succeeds on a TCP socket
whose connection attempt is under way and fails on one that was refused; a write
on a socket whose error has been read raises SIGPIPE; bytes that came before a reset
may still be read, so a handshake may finish on a connection that is gone
(`Readable`). For SCTP it assumes that a
failed socket polls in error only, so `poll` never looks at its `SO_ERROR`. The
lines of the code that use these facts are in the map.

Loading the PEM files is one step here: the process has no other thread that
opens descriptors except one receiver, so there is nothing to compete for.

### System

`System` extends `Server` and takes `Client` as an instance: the peer `TheClient` of
the server is the client process, the other peers do as they please. What `Client`
leaves to the network happens here because of what the server did, and the other
way round:

| In the composition | When |
| --- | --- |
| `Establish`, `Refuse` | the server process runs, or does not |
| `Deliver` | `answered`, the number of flights the server has sent, allows another segment |
| `DeliverAlert` | the server has left `SSL_accept` without its second flight, or its process is gone, and all it sent has been delivered |
| `Answer` | the server is in `SSL_accept` for the client (`Serves`); it sends the first flight, and the second once the client's own has come |
| `Accepts` | `SSL_accept` returns, a step of its own: the client may read the second flight, and write, before it |
| `Arrives`, `Hears`, `HearsReset` | the client's connection, its flight, alert or end of stream, or a reset from a closed socket comes to the server |

The network loses nothing and may be slow: each of these is a step of its own, later
than its cause. `ClientStep` restricts `Client` where its surroundings decide (a
connection found up at once, a handshake refused). Both processes have the same
protocol. A server that waits for a silent client waits for ever, and when its
accept queue is empty and no thread has work left nothing happens any more; that is
a state the system may really stop in, so deadlock is not checked in this run.

### MessageIO

One direction of an established TCP connection: a caller of `send_message` at one
end, a caller of `receive_message` at the other, the calls that the commented-out
code would make. The client's socket is non-blocking, the server's accepted one is
not; both directions are initial states.

| State | Code |
| --- | --- |
| `wire`, `taken` | all bytes the kernel ever took, and how many it gave; their difference is what it holds, at most `Capacity` |
| `link` | whether the connection is up, closed by the sender's end, or reset |
| `sender`, `msg`, `out`, `n_left`, `sentOk` | `send_message`: place, message, advance of `out_message`, `n_left`, result |
| `receiver`, `r_left`, `data`, `buffer`, `recvOk` | `receive`: place, `n_left`, advance of the data pointer, the caller's buffer, result |
| `received`, `part` | history: the buffers returned, and whether a call moved a part of a message only |

`send_to_socket` has no `return`, so what its caller reads is up to the build. The
model takes what the Makefile's build leaves there (g++ 12, no optimisation, with and
without stack protection): after a `send` that took bytes, its count, since nothing
else is called before the function ends; after one that failed, what the logging
left. `Leftovers` names the signs it may have. A value above zero is an address, far
above any length: it counts as bytes sent and ends the loop.

### Startup

One action for each call from `validate_argument` to the first thread. An argument
is a token: what it is as a word or an address, the number its first characters
make, and whether other characters follow. `strtoull`, the cast to `uint32_t` and
`htons` are modelled by what they do to the number; the sizes of the three ranges are
constants, each a multiple of the next. What lies past the end of the
vector may be anything, or end the process.

### SslLocks

One process with many sessions. `ssl_thread_setup` begins a session; `Lock`,
`Unlock` are `locking_function`; `DynCreate`, `DynLock`, `DynUnlock`, `DynDestroy`
the callbacks of dynamic locks. One thread uses OpenSSL (the listener in a server,
the sender in a client), and OpenSSL gives locks back in the reverse order it took
them. The callbacks exist in OpenSSL 1.0 only; later versions never call them.

### Abstract specifications

- `Sessions`: connections arrive, are served one at a time, each at most once, or
  leave the queue. In `Server`, `waiting` is the accept queue, `current` the
  connection between `accept` and the end of its session, and `over` the rest. The
  mapping is the instance above `ServesOneAtATime`.
- `MessageQueue`: a queue of whole messages, until a call leaves a part of one
  behind. In `MessageIO`, `posted` reads the stream in blocks of one message's length
  and gives the message each block is (0 for a block that is none), `fetched` does
  the same for the buffers in `received`, and `mode` is "partial" from the moment
  `part` is set, or from the start when the ends disagree on the length. The mapping is the
  instance above `MessagesInOrder`.

## 3. Runs

| Run | Instance | What it shows |
| --- | --- | --- |
| `Server_faults` | 3 peers, every fault, 4 free descriptors, 5 threads, `Backlog` 1 | `TypeOK`; `SessionOnCurrentSocket`; `WatchedNotOlder`; `LifetimeCapacity`; `ServesOneAtATime` |
| `Server_enough` | 3 peers, 8 free descriptors, no fault | `SurvivesCooperativePeers` |
| `Server_live` | 2 peers, fair threads | `StalledOnlyBySilence`; `SctpConnectionStopsServer` |
| `Server_context` | 2 peers | finding: `SameContext` is violated |
| `Server_retry` | 2 peers | finding: `AcceptIsRetried` is violated |
| `Client_faults` | flights of 2 segments, every fault, fair threads | `TypeOK`; `FirstTryIsHonest`; `SctpConnectIsHonest`; `NothingLeftConnecting`; `ReceiverSeesOpenSocket`; `SentOnlyAfterHandshake`; `GivenUpAfterThree`; `SenderEnds` |
| `Client_refused` | no fault | finding: `ConnectedWhenTrue` is violated |
| `System` | the client and one other peer, flights of 1 segment, 6 free descriptors, 2 threads | `SentMeansServed`; `LiveClientIsHarmless`; `StallsOnlyAfterGivingUp` |
| `MessageIO_stream` | 3 messages of 4 or 3 bytes, received as 3, 4 bytes in the kernel, every fault | `TypeOK`; `TrueUnlessOvercounted`; `TrueMeansFilled`; `MessagesInOrder`; `ClientCallsReturn` |
| `MessageIO_sent` | 1 message, 2 bytes in the kernel, no fault | finding: `TrueMeansSent` is violated |
| `Startup` | command lines of 0 to 11 arguments, ranges of 32, 16 and 8 numbers, every fault | `TypeOK`; `StartsOnlyComplete`; `PortsAsTyped` |
| `SslLocks` | 3 sessions, 3 locks, failing allocations | `TypeOK`; `LocksMatch`; `CrashNeedsEarlierSetup` |

Both protocols are initial states of every run of `Server`, `Client` and `System`,
and an argument in `Startup`; both directions are initial states in `MessageIO`.

Why the bounds are enough. Three peers are the fewest for a receiver thread to be
late by two connections while a third is in the queue. Four free descriptors let
one session load its files undisturbed and make the next ones run out, at every
point where one is needed. Five threads let the creation of a sender and of a
receiver fail, each in turn. `Backlog` 1 gives a queue of two. Eight free
descriptors are exactly `EnoughFds` for three peers. Two segments per flight give
partial reads in both, and use up all three attempts. The numbers of connections
and segments are the only unbounded counters; they are bounded by the finite set
`Peers` and by `Flight1 + Flight2`. The peers of the safety runs are
interchangeable (`SYMMETRY`); the liveness run does without.

In `System` a second peer is enough to stand before or behind the client in the
queue; one segment per flight keeps the product small, cut flights being the matter
of `Client_faults`; two threads let a worker thread fail to start; six free
descriptors are exactly `EnoughFds` for two peers. In `MessageIO`
the lengths stand for 14, 13 and 13: what matters is that one is longer by a byte
and that a message can be cut in the middle. A kernel that holds four bytes is full
in the middle of a second message, and three messages let a part of the first
displace two later ones. In `Startup` ranges of 32, 16 and 8 numbers stand for
those of 64, 32 and 16 bits: the typed numbers lie around the size of each, on both
sides of zero, and line lengths on both sides of 6 and 10. In `SslLocks` three sessions are
the fewest with a success before and after a failure. `MaxSessions`, `Calls` and
`Capacity` are the bounds.

### Fairness

`FairSpec` of both modules asks weak fairness of each thread and of start-up, and
nothing of peers or network. The threads are kernel threads on a preemptive
scheduler; every call in which they wait is either bounded by a timeout or
disabled in the model until what it waits for happens. A poll that times out is
followed by another poll, so a timeout alone is no progress, as in the code. No
fairness is asked of the remote ends, nor of the listener's `Breakdown` (a failing
poll, a failing passive socket, the use of freed memory): nothing is concluded from
a failure that must come sooner or later. Every other fault is an alternative to a
normal step at the same place. A peer may stay silent for ever, and
`StalledOnlyBySilence` says what follows.

`FairSysSpec` of `System` asks the same of both processes, and that what was sent
arrives (`Deliver`, `DeliverAlert`, `Arrives`, `Hears`): TCP delivers while both ends live. It does
not ask that connections are ever set up, nor anything of the other peer.
`FairSpec` of `MessageIO` asks that a call that has begun runs on, and never that
another is made. Neither asks for resets, kills or signals; the time limits of
`poll` are alternatives to data that has not come.

### What the properties say

- `SessionOnCurrentSocket`: `tls_accept` uses the shared `m_socket`; the session
  stays on the descriptor `m_socket` names for as long as it runs, because the
  listener accepts nothing else meanwhile.
- `WatchedNotOlder`: the race on `m_socket` is real, and goes one way. A receiver
  thread may watch a later connection than its own, never an earlier one and never
  descriptor 0.
- `LifetimeCapacity`: no descriptor comes back, so the connections served in the
  process's whole life are bounded by the table.
- `SurvivesCooperativePeers`: with two descriptors per peer and two to spare, no
  interleaving ends the process unless a peer resets its connection or a fault
  comes from outside. Each reason in the premise is needed.
- `StalledOnlyBySilence`: head-of-line blocking in `SSL_accept` is the only way for
  a live server to leave a connection in the queue for ever.
- `SctpConnectionStopsServer`: over SCTP the server ends at its first connection.
- `FirstTryIsHonest`, `SctpConnectIsHonest`: how far the result of `connect` can be
  trusted although `ConnectedWhenTrue` fails.
- `NothingLeftConnecting`: giving up is final, also when the answer comes late, and
  the descriptor is open exactly when `m_socket` names it. After a `shutdown` that
  succeeded it does stay open: `close` closes only when `shutdown` has failed.
- `ReceiverSeesOpenSocket`: `close` and the receiver thread never meet.
- `SentOnlyAfterHandshake`: `tls_connect` reports nothing, and the sender goes on to
  `SSL_write`; still no message leaves before the handshake is finished.
- `GivenUpAfterThree`: `tls_connect` gives up a live handshake for want of attempts
  only after three things that cost one each: a segment, a wait spent on a signal or a
  full send buffer, or the server's alert or end of stream. The last of these counts
  because it ends a wait that no other attempt follows.
- `SenderEnds`: none of the nested retry loops goes on for ever.
- `ServesOneAtATime`: the server implements `Sessions`.
- `SentMeansServed`: the client's message leaves only when the server has accepted
  this connection, has come to its `SSL_accept` and has sent both its flights there,
  although either end may have timed out, refused or given up. It does not say that
  `SSL_accept` has returned: the message may come first.
- `LiveClientIsHarmless`: while the client lives and no other peer has reset its
  connection, no reset ends the server, in `getpeername` or in `SSL_shutdown`; over
  TCP, with enough descriptors and no fault of the server's own surroundings, nothing
  ends it at all, however the client's session goes. The second part leaves out what
  does end the server: over SCTP its first connection (`SctpConnectionStopsServer`),
  too small a table of descriptors, and the faults.
- `StallsOnlyAfterGivingUp`: the server hangs on the client for ever only when the
  client gave the handshake up and lives on.
- `TrueUnlessOvercounted`: what a result of true is worth, given the missing
  `return`: the message is on the wire exactly when the count ended at zero.
- `TrueMeansFilled`: a receive that returns true has filled the buffer with the next
  bytes of the stream, however they were cut.
- `MessagesInOrder`: `MessageIO` implements `MessageQueue`.
- `ClientCallsReturn`: calls on the client's non-blocking socket end, unless signals
  interrupt them again and again.
- `StartsOnlyComplete`: no thread starts from a command line of a wrong length, or
  with a word or a number where an address belongs. The flags in front of the values
  are not looked at: a line with two of them exchanged still starts.
- `PortsAsTyped`: the three widths agree, so each port that exists is used as typed,
  and one that does not becomes another without a word.
- `LocksMatch`: replacing the array for each session never separates a lock from its
  unlock, because OpenSSL holds none between two sessions.
- `CrashNeedsEarlierSetup`: a failed allocation ends the process only if an earlier
  one succeeded, whose callbacks are still registered.

### Findings

1. `SameContext`. The comment in `initialise_context` (tlsmanager.cpp:426) says the
   same context is used for all server connections; each connection makes its own.
2. `AcceptIsRetried`. The comment in `accept` (transportinterface.cpp:303-306)
   announces a retry for `EAGAIN` and its like; the code exits (314).
3. `ConnectedWhenTrue`. `connect` calls `poll` again after it failed; the first call
   has consumed the socket's pending error, so on a refused connection the second
   reports success (transportinterface.cpp:408, 474).
4. `TrueMeansSent`. The comment in `send_message` (transportinterface.cpp:44-45) says
   it comes out only when all bytes are sent or on a timeout; `send_to_socket`
   (225-240) returns nothing, and a failed `send` may count as a success.

### Mutants

Each property of a passing run has a mutant of the code that violates it: an
operator marked "Mutant" just before the definition it replaces, such as a poll
that takes a timeout for a connection, a thread created before `m_socket` is set,
or a retry that is not counted. They are not part of the models.

## 4. Proofs

The theorems hold for every value of the constants that the modules' assumptions
allow: any finite set of peers, any limits, flights of any length, any faults, any
number of locks and sessions, any set of command lines, messages of any length over
a kernel of any capacity. The assumptions only give types, a finite set of peers, a
descriptor table not smaller than what is open at the start, lengths above zero, and
ranges of integers that divide one another, as powers of two do.

`ServerProofs`

- `TypeCorrect`: `TypeOK` is inductive.
- `SessionStaysOnItsSocket`: from `SessionInv`, which says what is bound at each
  place of the listener between `accept` and `SSL_CTX_free`. `SessionOnCurrentSocket`
  alone is not inductive: it does not say that `m_socket` is still the fresh,
  open descriptor when `tls_accept` reads it.
- `ReceiverNeverWatchesOlder`: from `RaceInv`: `m_socket` is never older than the
  connection of any sender thread, and a connection is accepted before its threads
  exist.
- `CapacityIsForLife`: from `CapacityInv`: accepted connections are exactly those
  with an open descriptor, until an exit.
- `ServerSurvives`: from `SurvivalInv`, the conjunction of `FilesInv` (how many files
  are open at each place), `EpollInv` (one epoll descriptor per receiver thread) and
  `SmoothInv` (under the premise no exit has been taken, and its guards are false).
  The key is `FdIsFree`: a thread that asks for a descriptor holds less than its
  share, so one is free. It uses `SessionInv` and `RaceInv` as well.
- `ImplementsSessions`: from `ServingInv`, which ties the connection being served to
  the place of the listener. Each step maps to a step of `Sessions` or to a stutter.

`ClientProofs`

- `TypeCorrect`: from `TypeInv`, which adds that both loop counters are below their
  limits where they are incremented.
- `FirstTryTells`, `SctpConnectTells`: from `ConnectInv`: a pending error is not lost
  before a try has read it, and over SCTP only an established association reaches
  the call of `getsockopt`.
- `GivingUpIsFinal`, `ReceiverFindsTheSocket`: from `SocketInv`: the third failed try
  leads to `close` and nowhere else, no receiver thread exists up to there, and the
  descriptor is open exactly when `m_socket` names it.
- `MessageFollowsHandshake`: from `HandshakeInv`: a finished handshake has read both
  flights, and segments come only on a connection that was established.
- `NoAttemptIsLost`: from `AttemptsInv`: as long as the handshake is alive, the
  segments, the waits in vain and the alert are at least as many as the attempts made.

`SystemProofs`

- `ServerInSystem`, `ClientInSystem`: every step of the composition is a step of
  `Server` or leaves it alone, and likewise for `Client`. So what either module
  assumes of its surroundings is what the other one does, and every theorem about
  one of them holds of the two together; `SessionStaysOnItsSocketInSystem` is an
  example.
- `MessageMeansSession`: from three invariants over both processes and the server's
  own. `FlightsInv` ties what the client has read to `answered`: a finished handshake
  has read more than the first flight, so the second was sent. `AnsweredInv` says
  that once it was sent, the server has come to `SSL_accept` for the client and does
  not come to it again, because the connection stays accepted. `TurnInv` says an accepted
  connection has had its turn. `SentMeansServed` alone says nothing of the client
  before it writes.
- `LiveClientDoesNoHarm`: from `ResetInv`, which follows the client's socket from
  `create_socket` to the end: the server sees it reset only when the client process
  is gone, because a client that lives closes a connected socket, or finds it broken,
  only after the server has exited. And from `BlameInv`: the two exits a peer can cause
  follow the reset of some connection. The part about every other exit is
  `ServerSurvives`, once no peer at all has reset its connection.

`StartupProofs`

- `NoPartialLineStarts`: from `StartInv`, which follows the arguments from
  `validate_argument` to the thread. `StartsOnlyComplete` speaks of the end only.
- `TypeCorrect`: from `TypeInv`, which adds which addresses and ports have been set at
  each step; what lies past the end of the vector is a token like any other.
- `PortsAreAsTyped`: from `PortsInv`: until the socket address is filled in, the port
  kept is the conversion of the argument. The rest is arithmetic (`OneConversion`):
  cutting to 64, then to 32, then to 16 bits is cutting to 16 at once.

`MessageIOProofs`

- `TypeCorrect`: from `TypeInv`, which adds that a call in progress has moved less than
  a message and that the counts left are what remains. `n_left` below zero occurs
  only when the call has returned.
- `TrueIsSentUnlessOvercounted`: from `StreamInv`: the part sent of the message in
  progress ends the stream, and no byte further on in that message, or of a later
  one, is anywhere in it. The second half is why an overcounted message is not on
  the wire, whatever came before.
- `TrueIsFilled`: from `BufferInv`: the bytes of the buffer up to the data pointer are
  the last ones taken from the stream.
- `ImplementsQueue`: from these and two more. `AlignedInv`: until a part is left behind,
  the stream is a sequence of whole messages in ascending order, and then the
  beginning of the one in progress. `TakenInv`: the buffers returned are the first
  blocks of the stream. A `send` that completes a block is `Post`, a `recv` that
  completes a buffer is `Fetch`, and the step that leaves a part behind is
  `LeavePart`. That a buffer is never filled before its message has been posted
  follows from the two invariants by division (`MessagesFit`).

TLC finds all of these strengthened invariants true on the instances of the runs.

`SslLocksProofs`

- `TypeCorrect`, `LocksStayInTheirArray`, `FirstFailureIsHarmless`: from `LocksInv`.
  `LocksMatch` alone does not say that nothing is held between two sessions, where
  the array is replaced, nor that registered callbacks have had an array.

Each lemma with "Inductive" in its name has one step per action or group of
actions of `Next`; the theorem combines it with the initial state and type
correctness.

Only model-checked: `StalledOnlyBySilence`, `SctpConnectionStopsServer`,
`SenderEnds`, `StallsOnlyAfterGivingUp` and `ClientCallsReturn`, because the proof
system does not reason about liveness under fairness here. Each invariant and each
refinement that a passing run checks is also proved. The findings are
counterexamples of TLC.

## 5. Not modelled

- `ssl_thread_cleanup`: nothing calls it; an action for it would be a step the
  program cannot take.
- The message functions over SCTP, and their callers' loops: no such code runs.
- Contents of certificates, ciphers, log lines; OpenSSL and the kernel beyond what
  the code uses of them.
- `m_sender`, `m_reciever`, `m_connection_attempt`, `m_errornumber`: never read.
- Keys, certificates, the Makefile and the notes: no behaviour.

## 6. Plan

Every safety property of the runs is proved. What may still be added:

1. The theorems about `Client` in the composition, through `ClientInSystem`, as
   `SessionStaysOnItsSocketInSystem` does for the server.
2. The bound on the threads of `Server`, as an invariant checked and proved.
3. A refinement for the client: `connect` and the handshake as a session with one
   outcome.
