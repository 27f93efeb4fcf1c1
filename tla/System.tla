-------------------------------- MODULE System --------------------------------
(***************************************************************************)
(* One client process of tls_client and one server process, over a network *)
(* that loses nothing: Server, with one of its peers played by Client.     *)
(* The two were started with the same protocol.  What Client leaves to the *)
(* network and to the server happens here when Server does it, and what    *)
(* Server leaves to that peer happens when Client does it; either end      *)
(* learns of what the other did some time later.  The other peers of the   *)
(* server do as they please.                                               *)
(***************************************************************************)
EXTENDS Server

CONSTANTS
    TheClient,     \* the peer of the server that is the client process
    Flight1,       \* segments of the server's flights, see Client
    Flight2,
    ClientFaults   \* external faults of the client, see Client

VARIABLES
    \* the client's variables; the two processes have the same m_protocol
    c_proc, c_pc, c_socket, c_fd, c_sock, c_so_error, c_reached, c_tries,
    c_receiver, c_watched, c_ctx, c_hs, c_attempt, c_outcome, c_wasted, c_inbox,
    c_alert, c_got, c_sent,
    answered       \* flights the server has sent to the client so far

C == INSTANCE Client WITH
    Faults <- ClientFaults, proc <- c_proc, pc <- c_pc, m_socket <- c_socket,
    fdOpen <- c_fd, sock <- c_sock, so_error <- c_so_error, reached <- c_reached,
    tries <- c_tries, receiver <- c_receiver, watched <- c_watched, ctx <- c_ctx,
    hs <- c_hs, attempt <- c_attempt, outcome <- c_outcome, wasted <- c_wasted,
    inbox <- c_inbox, alert <- c_alert, got <- c_got, sent <- c_sent

ASSUME SystemAssumption ==
    /\ TheClient \in Peers
    /\ Flight1 \in Nat \ {0} /\ Flight2 \in Nat \ {0}
    /\ ClientFaults \subseteq C!FaultKinds

client ==
    <<c_proc, c_pc, c_socket, c_fd, c_sock, c_so_error, c_reached, c_tries,
      c_receiver, c_watched, c_ctx, c_hs, c_attempt, c_outcome, c_wasted, c_inbox,
      c_alert, c_got, c_sent>>

sysvars == <<vars, client, answered>>

SysInit == Init /\ C!Init /\ answered = 0

-------------------------------------------------------------------------------
(* The client by itself. *)

\* connect() may find the connection up at once, if somebody listens; a handshake
\* fails on a live connection only over what has come from the server.
ClientStep ==
    /\ C!CreateSocket \/ C!Sender \/ C!Receiver
    /\ (c_sock # "up" /\ c_sock' = "up") => proc = "running"
    /\ (c_sock = "up" /\ m_protocol = TCP /\ c_hs # "error" /\ c_hs' = "error")
          => c_got + c_inbox > 0 \/ c_alert = "yes"
    /\ UNCHANGED <<vars, answered>>

-------------------------------------------------------------------------------
(* Where the server is with the client. *)

\* It has SSL_accept for the client before it, and the connection accepted.
Ahead ==
    \/ listener = "names" /\ fresh = TheClient
    \/ /\ listener \in {"context", "cert", "key", "ca", "copy", "load", "store",
                        "tls_accept"}
       /\ m_socket = TheClient

\* It is inside that SSL_accept.
Serves == At("handshake") /\ ssl = TheClient

\* It has left it before it had sent all of its flights, or its process is gone.
Quits ==
    \/ turn[TheClient] # 0 /\ ~Ahead /\ ~Serves /\ answered < 2
    \/ proc \in ExitCauses

-------------------------------------------------------------------------------
(* What reaches the client, in the order it was sent. *)

Establish == C!Established /\ proc = "running" /\ UNCHANGED <<vars, answered>>

\* Nobody listens, or the server's process is gone and so is its end.
Refuse == C!Broken /\ proc # "running" /\ UNCHANGED <<vars, answered>>

\* Segments of the flights the server has sent so far.
SegmentsSent ==
    IF answered = 0 THEN 0 ELSE IF answered = 1 THEN Flight1 ELSE Flight1 + Flight2

Deliver ==
    /\ C!Segment
    /\ c_got + c_inbox < SegmentsSent
    /\ UNCHANGED <<vars, answered>>

\* The alert of a server that quits, or the end of its stream.
DeliverAlert ==
    /\ C!Alert
    /\ Quits
    /\ c_got + c_inbox = SegmentsSent
    /\ UNCHANGED <<vars, answered>>

-------------------------------------------------------------------------------
(* The server by itself. *)

\* SSL_accept sends the first flight once the client's hello has come, the second
\* once the client's own flight has; it returns later.
Answer ==
    /\ Serves
    /\ \/ answered = 0 /\ c_hs = "going"
       \/ answered = 1 /\ c_got >= Flight1 /\ peer[TheClient] # "silent"
    /\ answered' = answered + 1
    /\ UNCHANGED <<vars, client>>

\* SSL_accept returns, with success after the second flight; before it, because of
\* what it has read, or refuses, or has lost.
Accepts ==
    /\ Serves
    /\ SslAccept
    /\ (answered = 1 /\ c_got >= Flight1)
          => "reject" \in ClientFaults \/ peer[TheClient] = "reset"
    /\ UNCHANGED <<client, answered>>

ServerStep ==
    \/ (CreateSocket \/ Breakdown) /\ UNCHANGED <<client, answered>>
    \/ (Progress /\ ~(Serves /\ SslAccept)) /\ UNCHANGED <<client, answered>>
    \/ Accepts
    \/ \E p \in Peers : Worker(p) /\ UNCHANGED <<client, answered>>

-------------------------------------------------------------------------------
(* What reaches the server. *)

Arrives == c_reached = "yes" /\ PeerConnects(TheClient)

\* The client's second flight, sent in the call that reads the server's first, its
\* alert, or the end of its stream, from close() or the end of its process.
Spoken ==
    \/ c_got >= Flight1
    \/ c_hs = "error"
    \/ c_sock = "shut"
    \/ c_proc # "running"

Hears == Spoken /\ PeerSpeaks(TheClient)

\* A reset answers what comes for a socket that no longer exists.
HearsReset == (c_fd = "closed" \/ c_proc # "running") /\ PeerResets(TheClient)

Others == \E p \in Peers \ {TheClient} : Remote(p)

-------------------------------------------------------------------------------

ToServer == (Arrives \/ Hears \/ HearsReset \/ Others) /\ UNCHANGED <<client, answered>>

SysNext ==
    \/ ClientStep \/ Establish \/ Refuse \/ Deliver \/ DeliverAlert
    \/ ServerStep \/ Answer \/ ToServer
    \/ C!Stopped /\ Done /\ UNCHANGED sysvars

SysSpec == SysInit /\ [][SysNext]_sysvars

\* Both processes run, and what was sent arrives; connections may never be set up,
\* and nothing makes an end reset its connection.
FairSysSpec ==
    /\ SysSpec
    /\ WF_sysvars(ClientStep)
    /\ WF_sysvars(Deliver)
    /\ WF_sysvars(DeliverAlert)
    /\ WF_sysvars(ServerStep)
    /\ WF_sysvars(Answer)
    /\ WF_sysvars(Arrives /\ UNCHANGED <<client, answered>>)
    /\ WF_sysvars(Hears /\ UNCHANGED <<client, answered>>)

-------------------------------------------------------------------------------
(* Properties. *)

\* Although a handshake may be timed out, refused or interrupted at either end, the
\* client's message leaves only when the server has accepted this very connection,
\* has come to its SSL_accept, and has sent the last flight of the handshake there:
\* that call may still be running when the message comes, but cannot fail any more
\* for what the client has sent.
SentMeansServed ==
    c_sent = "yes" => turn[TheClient] # 0 /\ ~Ahead /\ answered = 2

\* As long as the client lives, and no other peer has reset its connection, neither
\* getpeername() nor a write of SSL_shutdown() has ended the server, over TCP or SCTP
\* and with any number of descriptors; and over TCP, with descriptors enough and no
\* fault of the server's own surroundings, nothing at all has, however the client ends
\* its session and whether or not it gives up.
LiveClientIsHarmless ==
    (/\ c_proc = "running"
     /\ \A p \in Peers \ {TheClient} : peer[p] # "reset")
        => /\ proc \notin {"peer_gone", "sigpipe"}
           /\ (m_protocol = TCP /\ Faults = {} /\ EnoughFds)
                 => proc \in {"starting", "running"}

\* The server waits in SSL_accept for the client for ever only when the client gave
\* the handshake up and lives on, its socket neither shut down nor closed: the
\* client has a timeout, the server has none.
StallsOnlyAfterGivingUp ==
    <>[]Serves => <>[](C!Stopped /\ c_proc = "running" /\ c_hs = "going")

===============================================================================
