------------------------------- MODULE Gated -------------------------------
(***************************************************************************)
(* The gate server: src/src/gated.c with the connection structures of      *)
(* src/src/network.c, run by one libevent loop.                            *)
(*                                                                         *)
(* One process, one thread: every action of gated is a whole callback.     *)
(* The interleaving is that of the callbacks of the connections and of the *)
(* two listeners with the peers, which connect, send, close and reset at   *)
(* any time.  TCP keeps the order of a stream, not its packet boundaries:  *)
(* a callback may see any non-empty prefix of what is in flight.           *)
(*                                                                         *)
(* Data is a stream of pieces <<c, i>>: the i-th piece that peer c sent.   *)
(***************************************************************************)
EXTENDS Integers, Sequences, FiniteSets

CONSTANTS Gameds,     \* connections to the inter port by game servers
          Strays,     \* other connections to the inter port (client/main.c
                      \* connects there and sends nothing)
          Clients,    \* connections to the outer port
          NoConn,     \* the NULL value of a net_connection_t pointer
          MaxSend,    \* pieces that a client may send
          MaxFaults,  \* calls that may fail (malloc, bind, accept)
          MaxFds      \* connection descriptors that the process may hold

Inter == Gameds \cup Strays
Conns == Inter \cup Clients

ASSUME ConnsAssumption == /\ Inter \cap Clients = {}
                          /\ NoConn \notin Conns

ASSUME BoundsAssumption == /\ MaxSend \in Nat
                           /\ MaxFaults \in Nat
                           /\ MaxFds \in Nat

VARIABLES
    proc,            \* the process: "boot", "loop", or how it has ended
    exiting,         \* event_base_loopexit has been called
    clientListener,  \* the listener of the outer port is open
    g_gamed_conn,    \* the static net_connection_t *g_gamed_conn
    sock,            \* sock[c]: "none", "pending" (in the accept queue),
                     \* "accepted", or "orphan" (accepted, no structure)
    auth,            \* auth[c]: the auth field of c's net_connection_t
    reading,         \* connections with EV_READ enabled
    writing,         \* connections with EV_WRITE enabled
    input,           \* input[c]: the input evbuffer of c's bufferevent
    output,          \* output[c]: its output evbuffer
    peer,            \* peer[c]: how the other end stands, see PeerStates
    sent,            \* sent[c]: how many pieces c has sent
    chan,            \* chan[c]: pieces from c that gated has not read
    received,        \* received[c]: pieces from gated that c has got
    faults           \* calls that have failed so far

procVars == <<proc, exiting, clientListener>>
connVars == <<sock, auth, reading, writing>>
bufVars  == <<input, output>>
peerVars == <<peer, sent, chan, received>>
vars == <<procVars, g_gamed_conn, connVars, bufVars, peerVars, faults>>

-----------------------------------------------------------------------------
(* How the process ends: its initialisation fails, or it returns from its  *)
(* loop, calls exit(1), fails an assertion, dereferences NULL, or is       *)
(* killed by SIGPIPE.                                                      *)
Ended == {"init_failed", "returned", "exit1", "abort", "segv", "sigpipe"}

\* "open"; "fin": closed, nothing unread at the peer; "rst": a reset that the
\* process has not been told of yet; "dead": reset, and the process has been
\* told (or had read the FIN before): the next write raises SIGPIPE.
PeerStates == {"open", "fin", "rst", "dead"}

\* A game server's auth_packet_t {cmd, len} is three pieces: the first bytes
\* of cmd, the rest of cmd, and len.
PacketPieces == 3
CmdPieces == 2

Pieces(c, n) == [i \in 1 .. n |-> <<c, i>>]

Running == proc = "loop"

\* The descriptors of accepted connections; nothing in gated.c closes one.
Descriptors == {c \in Conns : sock[c] \in {"accepted", "orphan"}}
FreeDescriptor == Cardinality(Descriptors) < MaxFds

\* n calls of a callback fail.
CallsFail(n) == /\ faults + n <= MaxFaults
                /\ faults' = faults + n
CallFails == CallsFail(1)

Init == /\ proc = "boot"
        /\ exiting = FALSE
        /\ clientListener = FALSE
        /\ g_gamed_conn = NoConn
        /\ sock = [c \in Conns |-> "none"]
        /\ auth = [c \in Conns |-> "NONE"]
        /\ reading = {}
        /\ writing = {}
        /\ input = [c \in Conns |-> <<>>]
        /\ output = [c \in Conns |-> <<>>]
        /\ peer = [c \in Conns |-> "open"]
        /\ sent = [c \in Conns |-> 0]
        /\ chan = [c \in Conns |-> <<>>]
        /\ received = [c \in Conns |-> <<>>]
        /\ faults = 0

-----------------------------------------------------------------------------
(* Operators named Bug_... are faulty versions of the definition that      *)
(* follows them; no specification uses them.                               *)

Bug_ServiceOpenAtStart ==
    /\ proc = "boot"
    /\ proc' = "loop"
    /\ clientListener' = TRUE
    /\ UNCHANGED <<exiting, g_gamed_conn, connVars, bufVars, peerVars, faults>>

(* The process starts: event base, configuration, inter-port listener.     *)
(* Each may fail (exit(1), an assertion of config.c, a NULL Lua state).    *)
gated_init ==
    /\ proc = "boot"
    /\ proc' \in {"loop", "init_failed"}
    /\ UNCHANGED <<exiting, clientListener, g_gamed_conn, connVars, bufVars,
                   peerVars, faults>>

\* event_base_loopexit only posts a timer: other callbacks may still run
\* before event_base_dispatch returns in gated_start.
gated_start_returns ==
    /\ Running
    /\ exiting
    /\ proc' = "returned"
    /\ UNCHANGED <<exiting, clientListener, g_gamed_conn, connVars, bufVars,
                   peerVars, faults>>

-----------------------------------------------------------------------------
(* The other ends of the connections, and the kernel.                      *)

Connect(c) ==
    /\ Running
    /\ c \in Clients => clientListener
    /\ sock[c] = "none"
    /\ sock' = [sock EXCEPT ![c] = "pending"]
    /\ UNCHANGED <<procVars, g_gamed_conn, auth, reading, writing, bufVars,
                   peerVars, faults>>

\* A game server sends one auth packet when it connects and nothing after it.
SendAuth(c) ==
    /\ Running
    /\ sock[c] # "none"
    /\ peer[c] = "open"
    /\ sent[c] = 0
    /\ sent' = [sent EXCEPT ![c] = PacketPieces]
    /\ chan' = [chan EXCEPT ![c] = @ \o Pieces(c, PacketPieces)]
    /\ UNCHANGED <<procVars, g_gamed_conn, connVars, bufVars, peer, received,
                   faults>>

Send(c) ==
    /\ Running
    /\ sock[c] # "none"
    /\ peer[c] = "open"
    /\ sent[c] < MaxSend
    /\ sent' = [sent EXCEPT ![c] = @ + 1]
    /\ chan' = [chan EXCEPT ![c] = Append(@, <<c, sent[c] + 1>>)]
    /\ UNCHANGED <<procVars, g_gamed_conn, connVars, bufVars, peer, received,
                   faults>>

Close(c) ==
    /\ Running
    /\ sock[c] # "none"
    /\ peer[c] = "open"
    /\ peer' = [peer EXCEPT ![c] = "fin"]
    /\ UNCHANGED <<procVars, g_gamed_conn, connVars, bufVars, sent, chan,
                   received, faults>>

\* A peer that closes with data it has not read resets the connection; what
\* it had not transmitted yet is lost.
Reset(c) ==
    /\ Running
    /\ peer[c] = "open"
    /\ received[c] # <<>>
    /\ peer' = [peer EXCEPT ![c] = "rst"]
    /\ \E k \in 0 .. Len(chan[c]) :
          chan' = [chan EXCEPT ![c] = SubSeq(@, 1, k)]
    /\ UNCHANGED <<procVars, g_gamed_conn, connVars, bufVars, sent, received,
                   faults>>

-----------------------------------------------------------------------------
(* Accepting.                                                              *)

Bug_ReadNotEnabled(c, conn) ==
    /\ conn = c
    /\ sock' = [sock EXCEPT ![c] = "accepted"]
    /\ auth' = [auth EXCEPT ![c] = "NONE"]
    /\ writing' = writing \cup {c}
    /\ UNCHANGED reading

Bug_WriteNotEnabled(c, conn) ==
    /\ conn = c
    /\ sock' = [sock EXCEPT ![c] = "accepted"]
    /\ auth' = [auth EXCEPT ![c] = "NONE"]
    /\ reading' = reading \cup {c}
    /\ UNCHANGED writing

\* The connection structure of descriptor c, or NULL with c left open.
net_new_connection(c, conn) ==
    \/ /\ conn = c
       /\ sock' = [sock EXCEPT ![c] = "accepted"]
       /\ auth' = [auth EXCEPT ![c] = "NONE"]
       /\ reading' = reading \cup {c}
       /\ writing' = writing \cup {c}
    \/ /\ conn = NoConn
       /\ sock' = [sock EXCEPT ![c] = "orphan"]
       /\ UNCHANGED <<auth, reading, writing>>

\* One turn of the accept loop; n other calls of it fail.
Accept(c, n) ==
    /\ Running
    /\ sock[c] = "pending"
    /\ FreeDescriptor
    /\ \/ net_new_connection(c, c) /\ g_gamed_conn' = c /\ CallsFail(n)
       \/ net_new_connection(c, NoConn) /\ g_gamed_conn' = NoConn /\ CallsFail(n + 1)
    /\ UNCHANGED <<proc, clientListener, bufVars, peerVars>>

\* The loop then calls accept again.  Without memory (n = 1), or with no
\* descriptor left, that fails before it looks whether anybody waits, and
\* gamed_accept_error_cb follows at once.
gamed_accept_cb(c, n) ==
    /\ c \in Inter
    /\ Accept(c, n)
    /\ exiting' = (exiting \/ n = 1 \/ ~FreeDescriptor')

\* The same assignment: a new client takes the place of the game server.
client_accept_cb(c) == /\ c \in Clients
                       /\ Accept(c, 0)
                       /\ UNCHANGED exiting

\* The first accept of the loop fails, with EMFILE or for lack of memory.
AcceptRefused(waiting) == /\ Running
                          /\ \E c \in waiting : sock[c] = "pending"
                          /\ \/ ~FreeDescriptor /\ UNCHANGED faults
                             \/ CallFails

gamed_accept_error_cb ==
    /\ AcceptRefused(Inter)
    /\ exiting' = TRUE
    /\ UNCHANGED <<proc, clientListener, g_gamed_conn, connVars, bufVars,
                   peerVars>>

\* The same failure on the outer port is only logged.
client_accept_error_cb ==
    /\ AcceptRefused(Clients)
    /\ UNCHANGED <<procVars, g_gamed_conn, connVars, bufVars, peerVars>>

-----------------------------------------------------------------------------
(* Reading.  A read callback runs after libevent has moved k pieces from   *)
(* the socket of c to the input buffer of c.                               *)

Filled(c, k) == [input EXCEPT ![c] = @ \o SubSeq(chan[c], 1, k)]

SocketRead(c, k) ==
    /\ Running
    /\ c \in reading
    /\ k \in 1 .. Len(chan[c])
    /\ chan' = [chan EXCEPT ![c] = SubSeq(@, k + 1, Len(@))]
    /\ UNCHANGED <<peer, sent, received>>

\* evbuffer_remove(conn's input, &authpack, sizeof(authpack)).
Removed(in, conn) ==
    [in EXCEPT ![conn] = SubSeq(@, PacketPieces + 1, Len(@))]

\* Is authpack.cmd AUTH_GAMED?  The structure is not initialised: with less
\* than the whole of cmd in the buffer the answer is whatever was on the stack.
CmdIsAuthGamed(buf, conn) ==
    {answer \in BOOLEAN :
        Len(buf) >= CmdPieces =>
            (answer <=> /\ conn \in Gameds
                        /\ SubSeq(buf, 1, CmdPieces) = Pieces(conn, CmdPieces))}

Bug_BindFailureIgnored ==
    /\ clientListener' = TRUE
    /\ UNCHANGED <<proc, faults>>

\* Binding the outer port: it fails when the port is taken, by this process
\* itself when the service is open already.
open_client_service ==
    \/ /\ ~clientListener
       /\ clientListener' = TRUE
       /\ UNCHANGED <<proc, faults>>
    \/ /\ clientListener
       /\ proc' = "exit1"
       /\ UNCHANGED <<clientListener, faults>>
    \/ /\ CallFails
       /\ proc' = "exit1"
       /\ UNCHANGED clientListener

Bug_AuthNotSet(in) ==
    /\ auth[g_gamed_conn] = "NONE"
    /\ input' = Removed(in, g_gamed_conn)
    /\ open_client_service
    /\ UNCHANGED auth

gamed_read_auth_packet(in) ==
    /\ auth[g_gamed_conn] = "NONE"
    /\ input' = Removed(in, g_gamed_conn)
    /\ \E isAuth \in CmdIsAuthGamed(in[g_gamed_conn], g_gamed_conn) :
          \/ /\ ~isAuth
             /\ proc' = "exit1"
             /\ UNCHANGED <<auth, clientListener, faults>>
          \/ /\ isAuth
             /\ auth' = [auth EXCEPT ![g_gamed_conn] = "GAMED"]
             /\ open_client_service

Bug_RpcConsumed(in) ==
    /\ auth[g_gamed_conn] = "GAMED"
    /\ input' = Removed(in, g_gamed_conn)
    /\ UNCHANGED <<proc, auth, clientListener, faults>>

\* Called when auth is AUTH_GAMED, and asserts that it is AUTH_NONE: nothing
\* after the assertion ever runs.
gamed_read_rpc_packet(in) ==
    /\ auth[g_gamed_conn] = "GAMED"
    /\ proc' = "abort"
    /\ input' = in
    /\ UNCHANGED <<auth, clientListener, faults>>

\* Whatever connection c the data came on, the callback works on the
\* connection accepted last, which may be another one, or NULL.
gamed_read_cb(c, k) ==
    /\ c \in Inter
    /\ SocketRead(c, k)
    /\ \/ /\ g_gamed_conn = NoConn
          /\ proc' = "segv"
          /\ input' = Filled(c, k)
          /\ UNCHANGED <<auth, clientListener, faults>>
       \/ /\ g_gamed_conn # NoConn
          /\ \/ gamed_read_auth_packet(Filled(c, k))
             \/ gamed_read_rpc_packet(Filled(c, k))
    /\ UNCHANGED <<exiting, g_gamed_conn, sock, reading, writing, output>>

Bug_EchoToGamedConn(c, k) ==
    /\ c \in Clients
    /\ SocketRead(c, k)
    /\ output' = [output EXCEPT ![g_gamed_conn] = @ \o Filled(c, k)[c]]
    /\ input' = [input EXCEPT ![c] = <<>>]
    /\ UNCHANGED <<procVars, g_gamed_conn, connVars, faults>>

Bug_InputNotDrained(c, k) ==
    /\ c \in Clients
    /\ SocketRead(c, k)
    /\ output' = [output EXCEPT ![c] = @ \o Filled(c, k)[c]]
    /\ input' = Filled(c, k)
    /\ UNCHANGED <<procVars, g_gamed_conn, connVars, faults>>

Bug_EchoPrepended(c, k) ==
    /\ c \in Clients
    /\ SocketRead(c, k)
    /\ output' = [output EXCEPT ![c] = Filled(c, k)[c] \o @]
    /\ input' = [input EXCEPT ![c] = <<>>]
    /\ UNCHANGED <<procVars, g_gamed_conn, connVars, faults>>

\* Echo: all of the input moves to the output of the same connection.
client_read_cb(c, k) ==
    /\ c \in Clients
    /\ SocketRead(c, k)
    /\ output' = [output EXCEPT ![c] = @ \o Filled(c, k)[c]]
    /\ input' = [input EXCEPT ![c] = <<>>]
    /\ UNCHANGED <<procVars, g_gamed_conn, connVars, faults>>

-----------------------------------------------------------------------------
(* Ends and errors.  The bufferevent stops reading (or writing) and calls  *)
(* the error callback.                                                     *)

\* read() returns 0 or an error once everything before it has been read.
ReadEnd(c) ==
    /\ chan[c] = <<>>
    /\ peer[c] # "open"
    /\ peer' = [peer EXCEPT ![c] = IF @ = "rst" THEN "dead" ELSE @]
    /\ UNCHANGED faults

\* evbuffer_read has no memory for what there is to read, be it data or the
\* end, and leaves it in the socket.
ReadFails(c) ==
    /\ chan[c] # <<>> \/ peer[c] # "open"
    /\ CallFails
    /\ UNCHANGED peer

ReadError(c) ==
    /\ Running
    /\ c \in reading
    /\ ReadEnd(c) \/ ReadFails(c)
    /\ reading' = reading \ {c}
    /\ UNCHANGED <<proc, clientListener, g_gamed_conn, sock, auth, writing,
                   bufVars, sent, chan, received>>

Bug_InterLossIgnored(c) == c \in Inter /\ ReadError(c) /\ UNCHANGED exiting

\* Any connection of the inter port takes gated down with it.
gamed_error_cb(c) == /\ c \in Inter
                     /\ ReadError(c)
                     /\ exiting' = TRUE

Bug_ClientErrorExits(c) == c \in Clients /\ ReadError(c) /\ exiting' = TRUE

\* Only logs: the structure, the bufferevent and the descriptor stay.
client_error_cb(c) == /\ c \in Clients
                      /\ ReadError(c)
                      /\ UNCHANGED exiting

-----------------------------------------------------------------------------
(* libevent writes the output buffer of c to the socket.                   *)

Writable(c) == /\ Running
               /\ c \in writing
               /\ output[c] # <<>>

WriteOut(c) ==
    /\ Writable(c)
    /\ \E k \in 1 .. Len(output[c]) :
          /\ output' = [output EXCEPT ![c] = SubSeq(@, k + 1, Len(@))]
          /\ \/ /\ peer[c] = "open"
                /\ received' =
                      [received EXCEPT ![c] = @ \o SubSeq(output[c], 1, k)]
                /\ UNCHANGED peer
             \/ /\ peer[c] = "fin"
                \* The closed peer answers with a reset, sooner or later.
                /\ peer' \in {peer, [peer EXCEPT ![c] = "dead"]}
                /\ UNCHANGED received
    /\ UNCHANGED <<procVars, g_gamed_conn, connVars, input, sent, chan, faults>>

\* ECONNRESET: client_error_cb again.
WriteError(c) ==
    /\ Writable(c)
    /\ peer[c] = "rst"
    /\ writing' = writing \ {c}
    /\ peer' = [peer EXCEPT ![c] = "dead"]
    /\ UNCHANGED <<procVars, g_gamed_conn, sock, auth, reading, bufVars, sent,
                   chan, received, faults>>

\* EPIPE, and with it SIGPIPE, which signal_init leaves at its default.
WriteSigpipe(c) ==
    /\ Writable(c)
    /\ peer[c] = "dead"
    /\ proc' = "sigpipe"
    /\ UNCHANGED <<exiting, clientListener, g_gamed_conn, connVars, bufVars,
                   peerVars, faults>>

-----------------------------------------------------------------------------
Listen(c) == (\E n \in 0 .. 1 : gamed_accept_cb(c, n)) \/ client_accept_cb(c)

Read(c) == \E k \in 1 .. Len(chan[c]) : gamed_read_cb(c, k) \/ client_read_cb(c, k)

ErrorEvent(c) == gamed_error_cb(c) \/ client_error_cb(c)

Write(c) == WriteOut(c) \/ WriteError(c) \/ WriteSigpipe(c)

Peer(c) == \/ Connect(c)
           \/ c \in Gameds /\ SendAuth(c)
           \/ c \in Clients /\ Send(c)
           \/ Close(c)
           \/ Reset(c)

Next == \/ gated_init
        \/ gated_start_returns
        \/ gamed_accept_error_cb
        \/ client_accept_error_cb
        \/ \E c \in Conns : \/ Peer(c)
                            \/ Listen(c)
                            \/ Read(c)
                            \/ ErrorEvent(c)
                            \/ Write(c)

Spec == Init /\ [][Next]_vars

\* No failure is owed: these are the errors that are there until somebody runs
\* into them.
AtEnd(c) == chan[c] = <<>> /\ ErrorEvent(c)
NoDescriptor == ~FreeDescriptor /\ gamed_accept_error_cb

\* The event loop serves every event that stays ready; the peers owe nothing.
Fairness == /\ WF_vars(gated_init)
            /\ WF_vars(gated_start_returns)
            /\ WF_vars(NoDescriptor)
            /\ \A c \in Conns : /\ WF_vars(Listen(c))
                                /\ WF_vars(Read(c))
                                /\ WF_vars(AtEnd(c))
                                /\ WF_vars(Write(c))

FairSpec == Spec /\ Fairness

-----------------------------------------------------------------------------
(* Properties.                                                             *)

OwnPieces(c) == {c} \X (Nat \ {0})

Streams(f) == /\ f \in [Conns -> Seq(Conns \X (Nat \ {0}))]
              /\ \A c \in Conns : f[c] \in Seq(OwnPieces(c))

ProcTypes ==
    /\ proc \in {"boot", "loop"} \cup Ended
    /\ exiting \in BOOLEAN
    /\ clientListener \in BOOLEAN
    /\ g_gamed_conn \in Conns \cup {NoConn}
    /\ faults \in 0 .. MaxFaults

ConnTypes ==
    /\ sock \in [Conns -> {"none", "pending", "accepted", "orphan"}]
    /\ auth \in [Conns -> {"NONE", "GAMED"}]
    /\ reading \subseteq Conns
    /\ writing \subseteq Conns
    /\ peer \in [Conns -> PeerStates]
    /\ sent \in [Conns -> Nat]

BufferTypes ==
    /\ Streams(input)
    /\ Streams(output)
    /\ Streams(chan)
    /\ Streams(received)

(* Types.  The buffers of a connection only ever hold bytes of that        *)
(* connection: client_read_cb and evbuffer_remove never mix streams.       *)
TypeOK == ProcTypes /\ ConnTypes /\ BufferTypes

Authenticated == {c \in Conns : auth[c] = "GAMED"}

(* While the loop runs, the outer port is open exactly when a connection   *)
(* has been authenticated, and at most one ever is: a second game server   *)
(* (or a handshake read from another connection's empty buffer) ends the   *)
(* process instead (gamed_read_auth_packet, open_client_service).          *)
ServiceIffAuthenticated ==
    proc \in {"boot", "loop"} =>
        /\ clientListener <=> Authenticated # {}
        /\ \A c, d \in Authenticated : c = d

(* While the loop runs no client is ever marked AUTH_GAMED, although       *)
(* client_accept_cb puts clients where gamed_read_auth_packet looks for    *)
(* the game server and the packet it then reads is uninitialised memory.   *)
ClientNeverGamed ==
    proc \in {"boot", "loop"} => Authenticated \cap Clients = {}

(* What makes the two above inductive, worth knowing by itself: clients    *)
(* exist only behind an open port, g_gamed_conn and every authenticated    *)
(* connection are accepted connections, and nothing is ever written to a   *)
(* connection of the inter port (so none of them is ever reset by gated's  *)
(* data).                                                                  *)
HandshakeInv ==
    /\ ServiceIffAuthenticated
    /\ ClientNeverGamed
    /\ \A c \in Clients : sock[c] # "none" => clientListener
    /\ g_gamed_conn # NoConn => sock[g_gamed_conn] = "accepted"
    /\ \A c \in Authenticated : sock[c] = "accepted"
    /\ \A c \in Inter : output[c] = <<>> /\ received[c] = <<>>

(* "First connect gamed, then provide service" (comment in socket_init):   *)
(* when the outer port is open a game server has connected and sent its    *)
(* auth packet, whichever connection the packet was then read from.        *)
ServiceAfterGamed ==
    clientListener => \E c \in Gameds : sock[c] # "none" /\ sent[c] > 0

(* What a client gets back is what it sent, in order and without gaps, and *)
(* while it stays nothing is lost or duplicated between its socket, the    *)
(* two evbuffers of its bufferevent and what it has received.              *)
InTransit(c) == output[c] \o input[c] \o chan[c]

EchoIntegrity ==
    \A c \in Clients :
        /\ received[c] = Pieces(c, Len(received[c]))
        /\ peer[c] = "open" =>
               received[c] \o InTransit(c) = Pieces(c, sent[c])

(* The loop is told to exit for the inter port only, and whenever one of   *)
(* its connections is lost: its read side has come to an end or had no     *)
(* memory, or accept failed for want of a descriptor or of memory, which   *)
(* it may do right behind a connection that it has just accepted.  No      *)
(* client error and no failed client accept reaches event_base_loopexit.   *)
Lost(c) == /\ c \in reading \ reading'
           /\ peer[c] # "open" \/ faults' > faults

Refused(c) == /\ sock[c] = "pending"
              /\ ~FreeDescriptor' \/ faults' > faults

LoopExitHasInterCause ==
    [][/\ exiting' # exiting => exiting' /\ \E c \in Inter : Lost(c) \/ Refused(c)
       /\ \A c \in Inter : Lost(c) => exiting']_vars

(* Once the outer port is open no data of the inter port is survived: the  *)
(* rpc packet fails the assertion, a second handshake fails to bind, and a *)
(* NULL connection is dereferenced (gamed_read_cb).                        *)
InterDataEndsOpenService ==
    [][\A c \in Inter :
           clientListener /\ Len(chan'[c]) < Len(chan[c]) =>
               proc' \in {"abort", "exit1", "segv"}]_vars

(* A game server whose connection is accepted and that has sent its packet *)
(* gets the outer port opened, however the packet is cut, unless gated     *)
(* ends: gated never stalls on a handshake.                                *)
AuthLeadsToService ==
    \A c \in Gameds :
        sock[c] = "accepted" /\ sent[c] > 0 ~> clientListener \/ proc \in Ended

(* When an accepted connection of the inter port is lost gated stops.      *)
InterLossStopsGated ==
    \A c \in Inter :
        sock[c] = "accepted" /\ peer[c] # "open" ~> proc \in Ended

(* gated implements the abstract service, its buffers and the network      *)
(* being the pipe.                                                         *)
ServicePhase == IF proc \in Ended THEN "down"
                ELSE IF clientListener THEN "open" ELSE "closed"
PresentClients == {c \in Clients : peer[c] = "open"}
ServicePipe == [c \in Clients |-> IF c \in PresentClients
                                  THEN InTransit(c) ELSE <<>>]
ServiceGot == [c \in Clients |-> received[c]]

Service == INSTANCE GateService WITH phase <- ServicePhase,
                                     present <- PresentClients,
                                     pipe <- ServicePipe,
                                     got <- ServiceGot

(* Safety: every step of gated is a step of the service or stutters.       *)
ServiceSpec == Service!Spec

(* With fair callbacks, what a client that stays has sent also comes back. *)
ServiceLiveSpec == Service!LiveSpec

-----------------------------------------------------------------------------
(* What comments and messages of the code say and the code does not do.    *)

(* gamed_read_cb's branch for an authenticated game server works: the      *)
(* assertion in gamed_read_rpc_packet holds when it is reached.            *)
RpcAssertionHolds == proc # "abort"

(* "Release client connection.": after a client's error callback its       *)
(* connection is released, so no client waits for ever to be accepted      *)
(* while fewer peers than MaxFds hold a connection open.                   *)
LivePeers == {c \in Descriptors : peer[c] = "open"}

PendingClientServed ==
    \A c \in Clients :
        ~<>[](/\ Running
              /\ sock[c] = "pending"
              /\ Cardinality(LivePeers) < MaxFds)
=============================================================================
