---------------------------- MODULE GatedProofs ----------------------------
(***************************************************************************)
(* Theorems about Gated, for any sets of connections and any bounds: its   *)
(* types, the handshake, why the loop ends, and then the echo: every       *)
(* client gets its own stream back, and gated implements the abstract      *)
(* service.                                                                *)
(***************************************************************************)
EXTENDS Gated, SequenceTheorems, TLAPS

-----------------------------------------------------------------------------
(* Streams: what the buffer operations of the callbacks preserve.          *)

\* A part of a sequence over S is a sequence over S.
LEMMA SubSeqType ==
    ASSUME NEW S, NEW s \in Seq(S), NEW m \in Nat \ {0}, NEW n \in Nat,
           n <= Len(s)
    PROVE  SubSeq(s, m, n) \in Seq(S)
<1>1. \A i \in m .. n : s[i] \in S
  BY ElementOfSeq, LenProperties
<1>2. QED
  BY <1>1, SubSeqProperties

\* The buffer of one connection can be replaced by pieces of its own.
LEMMA StreamsExcept ==
    ASSUME NEW f, Streams(f), NEW c \in Conns, NEW s \in Seq(OwnPieces(c))
    PROVE  Streams([f EXCEPT ![c] = s])
<1>1. OwnPieces(c) \subseteq Conns \X (Nat \ {0})
  BY DEF OwnPieces
<1>2. s \in Seq(Conns \X (Nat \ {0}))
  BY <1>1, SeqMonotonic
<1>3. [f EXCEPT ![c] = s] \in [Conns -> Seq(Conns \X (Nat \ {0}))]
  BY <1>2 DEF Streams
<1>4. ASSUME NEW d \in Conns
      PROVE  [f EXCEPT ![c] = s][d] \in Seq(OwnPieces(d))
  BY DEF Streams
<1>5. QED
  BY <1>3, <1>4 DEF Streams

\* Taking the first k pieces of a buffer, or what is left after them.
LEMMA StreamsSplit ==
    ASSUME NEW f, Streams(f), NEW c \in Conns, NEW k \in Nat,
           k <= Len(f[c])
    PROVE  /\ SubSeq(f[c], 1, k) \in Seq(OwnPieces(c))
           /\ SubSeq(f[c], k + 1, Len(f[c])) \in Seq(OwnPieces(c))
           /\ Len(SubSeq(f[c], k + 1, Len(f[c]))) = Len(f[c]) - k
<1>1. f[c] \in Seq(OwnPieces(c)) /\ Len(f[c]) \in Nat
  BY LenProperties DEF Streams
<1>2. SubSeq(f[c], 1, k) \in Seq(OwnPieces(c))
  BY <1>1, SubSeqType
<1>3. SubSeq(f[c], k + 1, Len(f[c])) \in Seq(OwnPieces(c))
  BY <1>1, SubSeqType
<1>4. \A i \in k + 1 .. Len(f[c]) : f[c][i] \in OwnPieces(c)
  BY <1>1, ElementOfSeq
<1>5. Len(SubSeq(f[c], k + 1, Len(f[c]))) = Len(f[c]) - k
  BY <1>1, <1>4, SubSeqProperties
<1>6. QED
  BY <1>2, <1>3, <1>5

\* The input buffers after libevent has read k pieces of c.
LEMMA FilledStreams ==
    ASSUME TypeOK, NEW c \in Conns, NEW k \in 1 .. Len(chan[c])
    PROVE  /\ Streams(Filled(c, k))
           /\ Filled(c, k)[c] \in Seq(OwnPieces(c))
<1>1. SubSeq(chan[c], 1, k) \in Seq(OwnPieces(c))
  <2>1. Len(chan[c]) \in Nat
    BY LenProperties DEF TypeOK, BufferTypes, Streams
  <2>2. QED
    BY <2>1, StreamsSplit DEF TypeOK, BufferTypes
<1>2. input[c] \o SubSeq(chan[c], 1, k) \in Seq(OwnPieces(c))
  BY <1>1, ConcatProperties DEF TypeOK, BufferTypes, Streams
<1>3. Streams(Filled(c, k))
  BY <1>2, StreamsExcept DEF TypeOK, BufferTypes, Filled
<1>4. QED
  BY <1>3 DEF Streams

\* evbuffer_remove leaves a stream of its connection.
LEMMA RemovedStreams ==
    ASSUME NEW f, Streams(f), NEW c \in Conns
    PROVE  Streams(Removed(f, c))
<1>1. f[c] \in Seq(OwnPieces(c)) /\ Len(f[c]) \in Nat
  BY LenProperties DEF Streams
<1>2. SubSeq(f[c], PacketPieces + 1, Len(f[c])) \in Seq(OwnPieces(c))
  BY <1>1, SubSeqType DEF PacketPieces
<1>3. QED
  BY <1>2, StreamsExcept DEF Removed

\* The pieces a peer sends are its own.
LEMMA PiecesType ==
    ASSUME NEW c \in Conns, NEW n \in Nat
    PROVE  Pieces(c, n) \in Seq(OwnPieces(c))
<1>1. \A i \in 1 .. n : <<c, i>> \in OwnPieces(c)
  BY DEF OwnPieces
<1>2. QED
  BY <1>1, IsASeq DEF Pieces

-----------------------------------------------------------------------------
(* Type correctness.                                                       *)

LEMMA InitTypeOK == Init => TypeOK
<1> SUFFICES ASSUME Init PROVE TypeOK
  OBVIOUS
<1>1. ASSUME NEW f, f = [c \in Conns |-> <<>>]
      PROVE  Streams(f)
  <2>1. \A S : <<>> \in Seq(S)
    BY EmptySeq
  <2>2. QED
    BY <1>1, <2>1 DEF Streams
<1>2. BufferTypes
  BY <1>1 DEF Init, BufferTypes
<1>3. ProcTypes
  <2>1. faults \in 0 .. MaxFaults
    BY BoundsAssumption DEF Init
  <2>2. QED
    BY <2>1 DEF Init, ProcTypes
<1>4. ConnTypes
  BY DEF Init, ConnTypes, PeerStates
<1>5. QED
  BY <1>2, <1>3, <1>4 DEF TypeOK

\* What does not touch a part of the state keeps its types.
LEMMA UnchangedTypes ==
    ASSUME TypeOK
    PROVE  /\ UNCHANGED <<procVars, g_gamed_conn, faults>> => ProcTypes'
           /\ UNCHANGED <<connVars, peer, sent>> => ConnTypes'
           /\ UNCHANGED <<input, output, chan, received>> => BufferTypes'
BY DEF TypeOK, ProcTypes, ConnTypes, BufferTypes, Streams, procVars, connVars

\* The process starts or leaves its loop.
LEMMA ProcessTypeOK ==
    ASSUME TypeOK, gated_init \/ gated_start_returns
    PROVE  TypeOK'
<1>1. ProcTypes'
  BY DEF TypeOK, ProcTypes, gated_init, gated_start_returns, Ended
<1>2. UNCHANGED <<connVars, bufVars, peerVars>>
  BY DEF gated_init, gated_start_returns
<1>3. QED
  BY <1>1, <1>2, UnchangedTypes DEF TypeOK, bufVars, peerVars

\* What the other ends do.
LEMMA PeerTypeOK ==
    ASSUME TypeOK, NEW c \in Conns, Peer(c)
    PROVE  TypeOK'
<1>1. chan[c] \in Seq(OwnPieces(c)) /\ Len(chan[c]) \in Nat
  BY LenProperties DEF TypeOK, BufferTypes, Streams
<1>2. ProcTypes'
  <2>1. UNCHANGED <<procVars, g_gamed_conn, faults>>
    BY DEF Peer, Connect, SendAuth, Send, Close, Reset
  <2>2. QED
    BY <2>1, UnchangedTypes
<1>3. ConnTypes'
  <2>1. CASE Connect(c)
    BY <2>1 DEF TypeOK, ConnTypes, Connect, peerVars
  <2>2. CASE SendAuth(c) \/ Send(c)
    <3>1. UNCHANGED <<sock, auth, reading, writing, peer>>
      BY <2>2 DEF SendAuth, Send, connVars
    <3>2. sent' \in [Conns -> Nat]
      BY <2>2 DEF TypeOK, ConnTypes, SendAuth, Send, PacketPieces
    <3>3. QED
      BY <3>1, <3>2 DEF TypeOK, ConnTypes
  <2>3. CASE Close(c) \/ Reset(c)
    BY <2>3 DEF TypeOK, ConnTypes, Close, Reset, PeerStates, connVars
  <2>4. QED
    BY <2>1, <2>2, <2>3 DEF Peer
<1>4. Streams(chan')
  <2>1. CASE Connect(c) \/ Close(c)
    BY <2>1 DEF TypeOK, BufferTypes, Connect, Close, peerVars
  <2>2. CASE SendAuth(c)
    <3>1. Pieces(c, PacketPieces) \in Seq(OwnPieces(c))
      BY PiecesType DEF PacketPieces
    <3>2. chan[c] \o Pieces(c, PacketPieces) \in Seq(OwnPieces(c))
      BY <1>1, <3>1, ConcatProperties
    <3>3. QED
      BY <2>2, <3>2, StreamsExcept DEF TypeOK, BufferTypes, SendAuth
  <2>3. CASE Send(c)
    <3>1. <<c, sent[c] + 1>> \in OwnPieces(c)
      BY DEF TypeOK, ConnTypes, OwnPieces
    <3>2. Append(chan[c], <<c, sent[c] + 1>>) \in Seq(OwnPieces(c))
      BY <1>1, <3>1, AppendProperties
    <3>3. QED
      BY <2>3, <3>2, StreamsExcept DEF TypeOK, BufferTypes, Send
  <2>4. CASE Reset(c)
    <3>1. PICK k \in 0 .. Len(chan[c]) :
              chan' = [chan EXCEPT ![c] = SubSeq(@, 1, k)]
      BY <2>4 DEF Reset
    <3>2. SubSeq(chan[c], 1, k) \in Seq(OwnPieces(c))
      BY <1>1, SubSeqType
    <3>3. QED
      BY <3>1, <3>2, StreamsExcept DEF TypeOK, BufferTypes
  <2>5. QED
    BY <2>1, <2>2, <2>3, <2>4 DEF Peer
<1>5. BufferTypes'
  <2>1. UNCHANGED <<input, output, received>>
    BY DEF Peer, Connect, SendAuth, Send, Close, Reset, bufVars, peerVars
  <2>2. QED
    BY <1>4, <2>1 DEF TypeOK, BufferTypes, Streams
<1>6. QED
  BY <1>2, <1>3, <1>5 DEF TypeOK

\* What calls fail is within the bound.
LEMMA FaultsType ==
    ASSUME TypeOK, NEW n \in 0 .. 2, CallsFail(n)
    PROVE  faults' \in 0 .. MaxFaults
BY BoundsAssumption DEF TypeOK, ProcTypes, CallsFail

\* What an accepted descriptor changes, on either port.
LEMMA ListenAccepts ==
    ASSUME NEW c \in Conns, Listen(c)
    PROVE  /\ Running /\ sock[c] = "pending" /\ FreeDescriptor
           /\ \E conn \in {c, NoConn} : /\ net_new_connection(c, conn)
                                       /\ g_gamed_conn' = conn
           /\ \E n \in 0 .. 2 : CallsFail(n)
           /\ UNCHANGED <<proc, clientListener, bufVars, peerVars>>
<1>1. PICK n \in 0 .. 1 : Accept(c, n)
  BY DEF Listen, gamed_accept_cb, client_accept_cb
<1>2. n \in 0 .. 2 /\ n + 1 \in 0 .. 2
  OBVIOUS
<1>3. QED
  BY <1>1, <1>2 DEF Accept

\* Accepting, and failing to.
LEMMA AcceptTypeOK ==
    ASSUME TypeOK,
           \/ \E c \in Conns : Listen(c)
           \/ gamed_accept_error_cb
           \/ client_accept_error_cb
    PROVE  TypeOK'
<1>1. ASSUME NEW c \in Conns, Listen(c)
      PROVE  TypeOK'
  <2>1. PICK conn \in {c, NoConn} : /\ net_new_connection(c, conn)
                                    /\ g_gamed_conn' = conn
    BY <1>1, ListenAccepts
  <2>2. UNCHANGED <<proc, clientListener, bufVars, peerVars>>
    BY <1>1, ListenAccepts
  <2>3. faults' \in 0 .. MaxFaults
    BY <1>1, ListenAccepts, FaultsType
  <2>4. exiting' \in BOOLEAN
    BY <1>1 DEF TypeOK, ProcTypes, Listen, gamed_accept_cb, client_accept_cb
  <2>5. ProcTypes'
    BY <2>1, <2>2, <2>3, <2>4 DEF TypeOK, ProcTypes
  <2>6. ConnTypes'
    BY <2>1, <2>2 DEF TypeOK, ConnTypes, net_new_connection, peerVars
  <2>7. QED
    BY <2>2, <2>5, <2>6, UnchangedTypes DEF TypeOK, bufVars, peerVars
<1>2. ASSUME NEW waiting, AcceptRefused(waiting),
             UNCHANGED <<proc, clientListener, g_gamed_conn, connVars, bufVars,
                         peerVars>>,
             exiting' \in BOOLEAN
      PROVE  TypeOK'
  <2>1. faults' \in 0 .. MaxFaults
    BY <1>2, FaultsType DEF AcceptRefused, CallFails, TypeOK, ProcTypes
  <2>2. ProcTypes'
    BY <1>2, <2>1 DEF TypeOK, ProcTypes
  <2>3. QED
    BY <1>2, <2>2, UnchangedTypes DEF TypeOK, bufVars, peerVars
<1>3. CASE gamed_accept_error_cb
  BY <1>2, <1>3 DEF gamed_accept_error_cb
<1>4. CASE client_accept_error_cb
  BY <1>2, <1>4 DEF client_accept_error_cb, procVars, TypeOK, ProcTypes
<1>5. QED
  BY <1>1, <1>3, <1>4

\* What a read callback of the inter port does, seen by the types.
LEMMA InterReadTypeOK ==
    ASSUME TypeOK, NEW c \in Conns, NEW k \in 1 .. Len(chan[c]),
           gamed_read_cb(c, k)
    PROVE  TypeOK'
<1>1. Streams(chan')
  <2>1. Len(chan[c]) \in Nat
    BY LenProperties DEF TypeOK, BufferTypes, Streams
  <2>2. SubSeq(chan[c], k + 1, Len(chan[c])) \in Seq(OwnPieces(c))
    BY <2>1, StreamsSplit DEF TypeOK, BufferTypes
  <2>3. QED
    BY <2>2, StreamsExcept
       DEF TypeOK, BufferTypes, gamed_read_cb, SocketRead
<1>2. Streams(Filled(c, k))
  BY FilledStreams
<1>3. Streams(input')
  <2>1. g_gamed_conn # NoConn => g_gamed_conn \in Conns
    BY DEF TypeOK, ProcTypes
  <2>2. g_gamed_conn # NoConn => Streams(Removed(Filled(c, k), g_gamed_conn))
    BY <1>2, <2>1, RemovedStreams
  <2>3. QED
    BY <1>2, <2>2 DEF gamed_read_cb, gamed_read_auth_packet,
                      gamed_read_rpc_packet
<1>4. BufferTypes'
  <2>1. UNCHANGED <<output, received>>
    BY DEF gamed_read_cb, SocketRead
  <2>2. QED
    BY <1>1, <1>3, <2>1 DEF TypeOK, BufferTypes, Streams
<1>5. auth' \in [Conns -> {"NONE", "GAMED"}]
  BY DEF TypeOK, ConnTypes, gamed_read_cb, gamed_read_auth_packet,
         gamed_read_rpc_packet
<1>6. ConnTypes'
  BY <1>5 DEF TypeOK, ConnTypes, gamed_read_cb, SocketRead
<1>7. /\ proc' \in {proc, "exit1", "abort", "segv"}
      /\ clientListener' \in {clientListener, TRUE}
  BY DEF gamed_read_cb, gamed_read_auth_packet, gamed_read_rpc_packet,
         open_client_service
<1>8. faults' \in 0 .. MaxFaults
  <2>1. faults' = faults \/ CallFails
    BY DEF gamed_read_cb, gamed_read_auth_packet, gamed_read_rpc_packet,
           open_client_service
  <2>2. QED
    BY <2>1, FaultsType DEF TypeOK, ProcTypes, CallFails
<1>9. ProcTypes'
  <2>1. UNCHANGED <<exiting, g_gamed_conn>>
    BY DEF gamed_read_cb
  <2>2. QED
    BY <1>7, <1>8, <2>1 DEF TypeOK, ProcTypes, Ended
<1>10. QED
  BY <1>4, <1>6, <1>9 DEF TypeOK

\* The echo.
LEMMA ClientReadTypeOK ==
    ASSUME TypeOK, NEW c \in Conns, NEW k \in 1 .. Len(chan[c]),
           client_read_cb(c, k)
    PROVE  TypeOK'
<1>1. Streams(chan')
  <2>1. Len(chan[c]) \in Nat
    BY LenProperties DEF TypeOK, BufferTypes, Streams
  <2>2. SubSeq(chan[c], k + 1, Len(chan[c])) \in Seq(OwnPieces(c))
    BY <2>1, StreamsSplit DEF TypeOK, BufferTypes
  <2>3. QED
    BY <2>2, StreamsExcept
       DEF TypeOK, BufferTypes, client_read_cb, SocketRead
<1>2. Streams(output')
  <2>1. Filled(c, k)[c] \in Seq(OwnPieces(c))
    BY FilledStreams
  <2>2. output[c] \o Filled(c, k)[c] \in Seq(OwnPieces(c))
    BY <2>1, ConcatProperties DEF TypeOK, BufferTypes, Streams
  <2>3. QED
    BY <2>2, StreamsExcept DEF TypeOK, BufferTypes, client_read_cb
<1>3. Streams(input')
  <2>1. <<>> \in Seq(OwnPieces(c))
    BY EmptySeq
  <2>2. QED
    BY <2>1, StreamsExcept DEF TypeOK, BufferTypes, client_read_cb
<1>4. UNCHANGED <<procVars, g_gamed_conn, faults, connVars, peer, sent, received>>
  BY DEF client_read_cb, SocketRead
<1>5. BufferTypes'
  BY <1>1, <1>2, <1>3, <1>4 DEF TypeOK, BufferTypes, Streams
<1>6. QED
  BY <1>4, <1>5, UnchangedTypes DEF TypeOK

\* End of file and errors.
LEMMA ErrorTypeOK ==
    ASSUME TypeOK, NEW c \in Conns, ErrorEvent(c)
    PROVE  TypeOK'
<1>1. ReadError(c) /\ exiting' \in {exiting, TRUE}
  BY DEF ErrorEvent, gamed_error_cb, client_error_cb
<1>2. faults' \in 0 .. MaxFaults
  BY <1>1, FaultsType
     DEF TypeOK, ProcTypes, ReadError, ReadEnd, ReadFails, CallFails
<1>3. ProcTypes'
  BY <1>1, <1>2 DEF TypeOK, ProcTypes, ReadError
<1>4. ConnTypes'
  BY <1>1 DEF TypeOK, ConnTypes, ReadError, ReadEnd, ReadFails, PeerStates
<1>5. QED
  BY <1>1, <1>3, <1>4, UnchangedTypes DEF TypeOK, ReadError, bufVars

\* Writing.
LEMMA WriteTypeOK ==
    ASSUME TypeOK, NEW c \in Conns, Write(c)
    PROVE  TypeOK'
<1>1. CASE WriteOut(c)
  <2>1. PICK k \in 1 .. Len(output[c]) :
            /\ output' = [output EXCEPT ![c] = SubSeq(@, k + 1, Len(@))]
            /\ \/ /\ received' =
                        [received EXCEPT ![c] = @ \o SubSeq(output[c], 1, k)]
                  /\ UNCHANGED peer
               \/ /\ peer' \in {peer, [peer EXCEPT ![c] = "dead"]}
                  /\ UNCHANGED received
    BY <1>1 DEF WriteOut
  <2>2. UNCHANGED <<procVars, g_gamed_conn, connVars, input, sent, chan, faults>>
    BY <1>1 DEF WriteOut
  <2>3. Len(output[c]) \in Nat
    BY LenProperties DEF TypeOK, BufferTypes, Streams
  <2>4. /\ SubSeq(output[c], 1, k) \in Seq(OwnPieces(c))
        /\ SubSeq(output[c], k + 1, Len(output[c])) \in Seq(OwnPieces(c))
    BY <2>3, StreamsSplit DEF TypeOK, BufferTypes
  <2>5. Streams(output')
    BY <2>1, <2>4, StreamsExcept DEF TypeOK, BufferTypes
  <2>6. Streams(received')
    <3>1. received[c] \o SubSeq(output[c], 1, k) \in Seq(OwnPieces(c))
      BY <2>4, ConcatProperties DEF TypeOK, BufferTypes, Streams
    <3>2. Streams([received EXCEPT ![c] = @ \o SubSeq(output[c], 1, k)])
      BY <3>1, StreamsExcept DEF TypeOK, BufferTypes
    <3>3. QED
      BY <2>1, <3>2 DEF TypeOK, BufferTypes
  <2>7. BufferTypes'
    BY <2>2, <2>5, <2>6 DEF TypeOK, BufferTypes, Streams
  <2>8. ConnTypes'
    BY <2>1, <2>2 DEF TypeOK, ConnTypes, PeerStates, connVars
  <2>9. QED
    BY <2>2, <2>7, <2>8, UnchangedTypes DEF TypeOK
<1>2. CASE WriteError(c)
  <2>1. ConnTypes'
    BY <1>2 DEF TypeOK, ConnTypes, WriteError, PeerStates
  <2>2. UNCHANGED <<procVars, g_gamed_conn, faults, bufVars, chan, received>>
    BY <1>2 DEF WriteError
  <2>3. QED
    BY <2>1, <2>2, UnchangedTypes DEF TypeOK, bufVars
<1>3. CASE WriteSigpipe(c)
  <2>1. ProcTypes'
    BY <1>3 DEF TypeOK, ProcTypes, WriteSigpipe, Ended
  <2>2. UNCHANGED <<connVars, bufVars, peerVars>>
    BY <1>3 DEF WriteSigpipe
  <2>3. QED
    BY <2>1, <2>2, UnchangedTypes DEF TypeOK, bufVars, peerVars
<1>4. QED
  BY <1>1, <1>2, <1>3 DEF Write

\* Every variable keeps its type: in particular no callback ever moves bytes
\* from one connection to another.
THEOREM TypeCorrect == Spec => []TypeOK
<1>1. TypeOK /\ [Next]_vars => TypeOK'
  <2> SUFFICES ASSUME TypeOK, [Next]_vars PROVE TypeOK'
    OBVIOUS
  <2>1. CASE gated_init \/ gated_start_returns
    BY <2>1, ProcessTypeOK
  <2>2. CASE \/ gamed_accept_error_cb
             \/ client_accept_error_cb
             \/ \E c \in Conns : Listen(c)
    BY <2>2, AcceptTypeOK
  <2>3. CASE \E c \in Conns : Peer(c)
    BY <2>3, PeerTypeOK
  <2>4. CASE \E c \in Conns : Read(c)
    BY <2>4, InterReadTypeOK, ClientReadTypeOK DEF Read
  <2>5. CASE \E c \in Conns : ErrorEvent(c)
    BY <2>5, ErrorTypeOK
  <2>6. CASE \E c \in Conns : Write(c)
    BY <2>6, WriteTypeOK
  <2>7. CASE UNCHANGED vars
    BY <2>7, UnchangedTypes DEF TypeOK, vars, bufVars, peerVars
  <2>8. QED
    BY <2>1, <2>2, <2>3, <2>4, <2>5, <2>6, <2>7 DEF Next
<1>2. QED
  BY InitTypeOK, <1>1, PTL DEF Spec

-----------------------------------------------------------------------------
(* The handshake.                                                          *)

\* The loop is still to come, or running.
Alive == proc \in {"boot", "loop"}

LEMMA InitHandshake == Init => HandshakeInv
<1> SUFFICES ASSUME Init PROVE HandshakeInv
  OBVIOUS
<1>1. Authenticated = {} /\ ~clientListener
  BY DEF Init, Authenticated
<1>2. \A c \in Inter : output[c] = <<>> /\ received[c] = <<>>
  BY DEF Init, Conns
<1>3. QED
  BY <1>1, <1>2 DEF Init, HandshakeInv, ServiceIffAuthenticated,
                    ClientNeverGamed, Conns

\* A step that keeps the listener, the authentications, the accepted
\* connections and the inter-port buffers, and revives no process.
LEMMA QuietStep ==
    ASSUME HandshakeInv,
           Alive' => Alive,
           UNCHANGED <<clientListener, g_gamed_conn, auth>>,
           \A c \in Conns : sock[c] = "accepted" => sock'[c] = "accepted",
           \A c \in Clients : sock'[c] # "none" => sock[c] # "none" \/ clientListener,
           g_gamed_conn \in Conns \cup {NoConn},
           \A c \in Inter : UNCHANGED <<output[c], received[c]>>
    PROVE  HandshakeInv'
<1>1. Authenticated' = Authenticated
  BY DEF Authenticated
<1>2. (ServiceIffAuthenticated /\ ClientNeverGamed)'
  BY <1>1 DEF HandshakeInv, ServiceIffAuthenticated, ClientNeverGamed, Alive
<1>3. (\A c \in Clients : sock[c] # "none" => clientListener)'
  BY DEF HandshakeInv
<1>4. (g_gamed_conn # NoConn => sock[g_gamed_conn] = "accepted")'
  BY DEF HandshakeInv
<1>5. (\A c \in Authenticated : sock[c] = "accepted")'
  BY <1>1 DEF HandshakeInv, Authenticated
<1>6. (\A c \in Inter : output[c] = <<>> /\ received[c] = <<>>)'
  BY DEF HandshakeInv
<1>7. QED
  BY <1>2, <1>3, <1>4, <1>5, <1>6 DEF HandshakeInv

LEMMA ProcessHandshake ==
    ASSUME TypeOK, HandshakeInv,
           \/ gated_init
           \/ gated_start_returns
           \/ gamed_accept_error_cb
           \/ client_accept_error_cb
           \/ UNCHANGED vars
    PROVE  HandshakeInv'
<1>1. UNCHANGED <<clientListener, g_gamed_conn, connVars, bufVars, peerVars>>
  BY DEF gated_init, gated_start_returns, gamed_accept_error_cb,
         client_accept_error_cb, vars, procVars
<1>2. Alive' => Alive
  BY DEF Alive, gated_init, gated_start_returns, gamed_accept_error_cb,
         client_accept_error_cb, Running, vars, procVars
<1>3. QED
  BY <1>1, <1>2, QuietStep DEF TypeOK, ProcTypes, connVars, bufVars, peerVars

LEMMA PeerHandshake ==
    ASSUME TypeOK, HandshakeInv, NEW c \in Conns, Peer(c)
    PROVE  HandshakeInv'
<1>1. UNCHANGED <<proc, clientListener, g_gamed_conn, auth, output, received>>
  BY DEF Peer, Connect, SendAuth, Send, Close, Reset, procVars, connVars,
         bufVars, peerVars
<1>2. \A d \in Conns : sock[d] = "accepted" => sock'[d] = "accepted"
  BY DEF TypeOK, ConnTypes, Peer, Connect, SendAuth, Send, Close, Reset, connVars
<1>3. \A d \in Clients : sock'[d] # "none" => sock[d] # "none" \/ clientListener
  <2>1. CASE Connect(c)
    BY <2>1 DEF TypeOK, ConnTypes, Connect, Conns
  <2>2. CASE UNCHANGED sock
    BY <2>2
  <2>3. QED
    BY <2>1, <2>2 DEF Peer, SendAuth, Send, Close, Reset, connVars
<1>4. QED
  BY <1>1, <1>2, <1>3, QuietStep DEF Alive, TypeOK, ProcTypes

\* A client is accepted only behind the open port, and a new connection is
\* not authenticated.
LEMMA AcceptHandshake ==
    ASSUME TypeOK, HandshakeInv, NEW c \in Conns, Listen(c)
    PROVE  HandshakeInv'
<1>1. /\ sock[c] = "pending"
      /\ UNCHANGED <<proc, clientListener, bufVars, peerVars>>
  BY ListenAccepts
<1>2. PICK conn \in {c, NoConn} : /\ net_new_connection(c, conn)
                                  /\ g_gamed_conn' = conn
  BY ListenAccepts
<1>3. UNCHANGED <<proc, clientListener, output, received>>
  BY <1>1 DEF bufVars, peerVars
<1>4. sock[c] = "pending" /\ c \notin Authenticated
  BY <1>1 DEF HandshakeInv
<1>5. Authenticated' = Authenticated
  BY <1>2, <1>4 DEF TypeOK, ConnTypes, Authenticated, net_new_connection
<1>6. (ServiceIffAuthenticated /\ ClientNeverGamed)'
  BY <1>3, <1>5 DEF HandshakeInv, ServiceIffAuthenticated, ClientNeverGamed
<1>7. (\A d \in Clients : sock[d] # "none" => clientListener)'
  <2>1. \A d \in Clients : sock'[d] # "none" => sock[d] # "none"
    BY <1>2, <1>4 DEF TypeOK, ConnTypes, Conns, net_new_connection
  <2>2. QED
    BY <1>3, <2>1 DEF HandshakeInv
<1>8. (g_gamed_conn # NoConn => sock[g_gamed_conn] = "accepted")'
  BY <1>2, ConnsAssumption DEF TypeOK, ConnTypes, net_new_connection
<1>9. (\A d \in Authenticated : sock[d] = "accepted")'
  BY <1>2, <1>4, <1>5
     DEF HandshakeInv, TypeOK, ConnTypes, Authenticated, net_new_connection
<1>10. (\A d \in Inter : output[d] = <<>> /\ received[d] = <<>>)'
  BY <1>3 DEF HandshakeInv
<1>11. QED
  BY <1>6, <1>7, <1>8, <1>9, <1>10 DEF HandshakeInv

\* The heart of the argument: a handshake that goes through finds no other
\* authenticated connection, and its connection is not a client's, because
\* no client exists before the port is open; any other one ends the process.
LEMMA InterReadHandshake ==
    ASSUME TypeOK, HandshakeInv, NEW c \in Conns,
           NEW k \in 1 .. Len(chan[c]), gamed_read_cb(c, k)
    PROVE  HandshakeInv'
<1>1. /\ Running
      /\ UNCHANGED <<g_gamed_conn, sock, output, received>>
  BY DEF gamed_read_cb, SocketRead
<1>2. CASE UNCHANGED <<auth, clientListener>>
  <2>1. Alive' => Alive
    BY <1>1 DEF Alive, Running
  <2>2. QED
    BY <1>1, <1>2, <2>1, QuietStep DEF TypeOK, ProcTypes
<1>3. CASE /\ g_gamed_conn # NoConn
           /\ auth' = [auth EXCEPT ![g_gamed_conn] = "GAMED"]
           /\ open_client_service
  <2>1. g_gamed_conn \in Conns /\ sock[g_gamed_conn] = "accepted"
    BY <1>3 DEF TypeOK, ProcTypes, HandshakeInv
  <2>2. Authenticated' = Authenticated \cup {g_gamed_conn}
    BY <1>3, <2>1 DEF TypeOK, ConnTypes, Authenticated
  <2>3. (\A d \in Authenticated : sock[d] = "accepted")'
    BY <1>1, <2>1, <2>2 DEF HandshakeInv
  <2>4. (g_gamed_conn # NoConn => sock[g_gamed_conn] = "accepted")'
    BY <1>1, <2>1
  <2>5. (\A d \in Inter : output[d] = <<>> /\ received[d] = <<>>)'
    BY <1>1 DEF HandshakeInv
  <2>6. (\A d \in Clients : sock[d] # "none" => clientListener)'
    BY <1>1, <1>3 DEF HandshakeInv, open_client_service
  <2>7. (ServiceIffAuthenticated /\ ClientNeverGamed)'
    <3>1. CASE proc' = "exit1"
      BY <3>1 DEF ServiceIffAuthenticated, ClientNeverGamed
    <3>2. CASE ~clientListener /\ clientListener'
      <4>1. Authenticated = {}
        BY <1>1, <3>2 DEF HandshakeInv, ServiceIffAuthenticated, Running
      <4>2. Authenticated' = {g_gamed_conn}
        BY <2>2, <4>1
      <4>3. g_gamed_conn \notin Clients
        BY <2>1, <3>2 DEF HandshakeInv
      <4>4. QED
        BY <3>2, <4>2, <4>3 DEF ServiceIffAuthenticated, ClientNeverGamed
    <3>3. QED
      BY <1>3, <3>1, <3>2 DEF open_client_service
  <2>8. QED
    BY <2>3, <2>4, <2>5, <2>6, <2>7 DEF HandshakeInv
<1>4. QED
  BY <1>2, <1>3 DEF gamed_read_cb, gamed_read_auth_packet, gamed_read_rpc_packet

\* Echo, errors and writes touch the buffers of clients only: the output of
\* a connection of the inter port stays empty.
LEMMA ClientIoHandshake ==
    ASSUME TypeOK, HandshakeInv, NEW c \in Conns,
           \/ \E k \in 1 .. Len(chan[c]) : client_read_cb(c, k)
           \/ ErrorEvent(c)
           \/ Write(c)
    PROVE  HandshakeInv'
<1>1. UNCHANGED <<clientListener, g_gamed_conn, sock, auth>>
  BY DEF client_read_cb, ErrorEvent, gamed_error_cb, client_error_cb, ReadError,
         Write, WriteOut, WriteError, WriteSigpipe, procVars, connVars
<1>2. Alive' => Alive
  BY DEF Alive, client_read_cb, SocketRead, ErrorEvent, gamed_error_cb,
         client_error_cb, ReadError, Write, WriteOut, WriteError, WriteSigpipe,
         Writable, Running, procVars
<1>3. ASSUME NEW d \in Inter
      PROVE  UNCHANGED <<output[d], received[d]>>
  <2>1. d \in Conns /\ d \notin Clients /\ output[d] = <<>>
    BY ConnsAssumption DEF Conns, HandshakeInv
  <2>2. CASE \E k \in 1 .. Len(chan[c]) : client_read_cb(c, k)
    BY <2>1, <2>2 DEF TypeOK, BufferTypes, Streams, client_read_cb, SocketRead
  <2>3. CASE ErrorEvent(c) \/ WriteError(c) \/ WriteSigpipe(c)
    BY <2>3 DEF ErrorEvent, gamed_error_cb, client_error_cb, ReadError,
                WriteError, WriteSigpipe, bufVars, peerVars
  <2>4. CASE WriteOut(c)
    <3>1. c # d
      BY <2>1, <2>4 DEF WriteOut, Writable
    <3>2. QED
      BY <2>1, <2>4, <3>1 DEF TypeOK, BufferTypes, Streams, WriteOut
  <2>5. QED
    BY <2>2, <2>3, <2>4 DEF Write
<1>4. QED
  BY <1>1, <1>2, <1>3, QuietStep DEF TypeOK, ProcTypes

THEOREM HandshakeCorrect == Spec => []HandshakeInv
<1>1. TypeOK /\ HandshakeInv /\ [Next]_vars => HandshakeInv'
  <2> SUFFICES ASSUME TypeOK, HandshakeInv, [Next]_vars PROVE HandshakeInv'
    OBVIOUS
  <2>1. CASE \/ gated_init
             \/ gated_start_returns
             \/ gamed_accept_error_cb
             \/ client_accept_error_cb
             \/ UNCHANGED vars
    BY <2>1, ProcessHandshake
  <2>2. CASE \E c \in Conns : Peer(c)
    BY <2>2, PeerHandshake
  <2>3. CASE \E c \in Conns : Listen(c)
    BY <2>3, AcceptHandshake
  <2>4. CASE \E c \in Conns : Read(c)
    BY <2>4, InterReadHandshake, ClientIoHandshake DEF Read
  <2>5. CASE \E c \in Conns : ErrorEvent(c) \/ Write(c)
    BY <2>5, ClientIoHandshake
  <2>6. QED
    BY <2>1, <2>2, <2>3, <2>4, <2>5 DEF Next
<1>2. QED
  BY InitHandshake, TypeCorrect, <1>1, PTL DEF Spec

\* For any number of connections: the outer port is open exactly when one
\* connection, and never a second one, has been authenticated.
THEOREM ServiceGated == Spec => []ServiceIffAuthenticated
<1>1. HandshakeInv => ServiceIffAuthenticated
  BY DEF HandshakeInv
<1>2. QED
  BY <1>1, HandshakeCorrect, PTL

\* For any number of connections: no client passes for the game server.
THEOREM ClientsNotAuthenticated == Spec => []ClientNeverGamed
<1>1. HandshakeInv => ClientNeverGamed
  BY DEF HandshakeInv
<1>2. QED
  BY <1>1, HandshakeCorrect, PTL

-----------------------------------------------------------------------------
(* Data on the inter port.                                                 *)

\* The only step that takes data off a connection of the inter port is its
\* read callback: such a connection is never reset, since gated sent it nothing.
LEMMA InterDataTakenByRead ==
    ASSUME TypeOK, HandshakeInv, [Next]_vars, NEW c \in Inter,
           Len(chan'[c]) < Len(chan[c])
    PROVE  \E k \in 1 .. Len(chan[c]) : gamed_read_cb(c, k)
<1>1. c \in Conns /\ c \notin Clients /\ received[c] = <<>>
  BY ConnsAssumption DEF Conns, HandshakeInv
<1>2. chan[c] \in Seq(OwnPieces(c)) /\ Len(chan[c]) \in Nat
  BY <1>1, LenProperties DEF TypeOK, BufferTypes, Streams
<1>3. ~UNCHANGED chan
  BY <1>2
<1>4. PICK d \in Conns : Peer(d) \/ Read(d)
  BY <1>3 DEF Next, gated_init, gated_start_returns, gamed_accept_error_cb,
              client_accept_error_cb, Listen, gamed_accept_cb, client_accept_cb,
              Accept, ErrorEvent, gamed_error_cb, client_error_cb, ReadError,
              Write, WriteOut, WriteError, WriteSigpipe, vars, peerVars
<1>5. CASE Peer(d)
  <2>1. d = c
    <3>1. \E s : chan' = [chan EXCEPT ![d] = s]
      BY <1>3, <1>5 DEF Peer, Connect, SendAuth, Send, Close, Reset, peerVars
    <3>2. QED
      BY <1>1, <1>2, <3>1 DEF TypeOK, BufferTypes, Streams
  <2>2. CASE SendAuth(c)
    <3>1. chan'[c] = chan[c] \o Pieces(c, PacketPieces)
      BY <1>1, <2>2 DEF SendAuth, TypeOK, BufferTypes, Streams
    <3>2. Pieces(c, PacketPieces) \in Seq(OwnPieces(c))
      BY <1>1, PiecesType DEF PacketPieces
    <3>3. Len(chan'[c]) >= Len(chan[c])
      BY <1>2, <3>1, <3>2, ConcatProperties, LenProperties
    <3>4. QED
      BY <1>2, <3>3
  <2>3. CASE Connect(c) \/ Close(c)
    BY <1>2, <2>3 DEF Connect, Close, peerVars
  <2>4. CASE Reset(c)
    BY <1>1, <2>4 DEF Reset
  <2>5. QED
    BY <1>1, <1>5, <2>1, <2>2, <2>3, <2>4 DEF Peer
<1>6. CASE Read(d)
  <2>1. d = c
    <3>1. \E s : chan' = [chan EXCEPT ![d] = s]
      BY <1>6 DEF Read, gamed_read_cb, client_read_cb, SocketRead
    <3>2. QED
      BY <1>1, <1>2, <3>1 DEF TypeOK, BufferTypes, Streams
  <2>2. QED
    BY <1>1, <1>6, <2>1 DEF Read, client_read_cb
<1>7. QED
  BY <1>4, <1>5, <1>6

\* For any number of connections: once the outer port is open, the next data
\* that gated takes from the inter port ends it.
THEOREM InterDataIsFatal == Spec => InterDataEndsOpenService
<1>1. ASSUME TypeOK, HandshakeInv, [Next]_vars, NEW c \in Inter,
             clientListener, Len(chan'[c]) < Len(chan[c])
      PROVE  proc' \in {"abort", "exit1", "segv"}
  <2>1. \E k \in 1 .. Len(chan[c]) : gamed_read_cb(c, k)
    BY <1>1, InterDataTakenByRead
  <2>2. QED
    BY <1>1, <2>1 DEF gamed_read_cb, gamed_read_auth_packet,
                      gamed_read_rpc_packet, open_client_service
<1>2. TypeOK /\ HandshakeInv /\ [Next]_vars =>
          [\A c \in Inter :
               clientListener /\ Len(chan'[c]) < Len(chan[c]) =>
                   proc' \in {"abort", "exit1", "segv"}]_vars
  BY <1>1
<1>3. QED
  BY <1>2, TypeCorrect, HandshakeCorrect, PTL DEF Spec, InterDataEndsOpenService

-----------------------------------------------------------------------------
(* First gamed, then the service.                                          *)

(* Where the data on a connection comes from: its peer has connected and   *)
(* sent, and on the inter port only game servers send.                     *)
SenderInv ==
    /\ \A c \in Conns : chan[c] # <<>> => sock[c] # "none" /\ sent[c] > 0
    /\ \A c \in Inter \ Gameds : chan[c] = <<>>
    /\ ServiceAfterGamed

\* A connection once made is never forgotten, and pieces once sent stay sent.
LEMMA NothingUnsent ==
    ASSUME TypeOK, [Next]_vars, NEW c \in Conns
    PROVE  /\ sock[c] # "none" => sock'[c] # "none"
           /\ sent[c] > 0 => sent'[c] > 0
<1>1. CASE \E d \in Conns : Peer(d)
  <2>1. PICK d \in Conns : Peer(d)
    BY <1>1
  <2>2. sock' = sock \/ sock' = [sock EXCEPT ![d] = "pending"]
    BY <2>1 DEF Peer, Connect, SendAuth, Send, Close, Reset, connVars
  <2>3. \/ sent' = sent
        \/ sent' = [sent EXCEPT ![d] = PacketPieces]
        \/ sent' = [sent EXCEPT ![d] = @ + 1]
    BY <2>1 DEF Peer, Connect, SendAuth, Send, Close, Reset, peerVars
  <2>4. QED
    BY <2>2, <2>3 DEF TypeOK, ConnTypes, PacketPieces
<1>2. CASE \E d \in Conns : Listen(d)
  <2>1. PICK d \in Conns : Listen(d)
    BY <1>2
  <2>2. \E s \in {"accepted", "orphan"} : sock' = [sock EXCEPT ![d] = s]
    BY <2>1, ListenAccepts DEF net_new_connection
  <2>3. UNCHANGED sent
    BY <2>1, ListenAccepts DEF peerVars
  <2>4. QED
    BY <2>2, <2>3 DEF TypeOK, ConnTypes
<1>3. CASE \/ gated_init
           \/ gated_start_returns
           \/ gamed_accept_error_cb
           \/ client_accept_error_cb
           \/ \E d \in Conns : Read(d) \/ ErrorEvent(d) \/ Write(d)
           \/ UNCHANGED vars
  <2>1. UNCHANGED <<sock, sent>>
    BY <1>3 DEF gated_init, gated_start_returns, gamed_accept_error_cb,
                client_accept_error_cb, Read, gamed_read_cb, client_read_cb,
                SocketRead, ErrorEvent, gamed_error_cb, client_error_cb,
                ReadError, Write, WriteOut, WriteError, WriteSigpipe, vars,
                connVars, peerVars
  <2>2. QED
    BY <2>1
<1>4. QED
  BY <1>1, <1>2, <1>3 DEF Next

\* Data appears on a connection only when its peer sends.
LEMMA OnlySendersSend ==
    ASSUME TypeOK, [Next]_vars, NEW c \in Conns,
           chan[c] = <<>>, chan'[c] # <<>>
    PROVE  \/ c \in Gameds /\ SendAuth(c)
           \/ c \in Clients /\ Send(c)
<1>1. chan[c] \in Seq(OwnPieces(c)) /\ Len(chan[c]) = 0
  BY DEF TypeOK, BufferTypes, Streams
<1>2. PICK d \in Conns : Peer(d) \/ Read(d)
  BY DEF Next, gated_init, gated_start_returns, gamed_accept_error_cb,
         client_accept_error_cb, Listen, gamed_accept_cb, client_accept_cb,
         Accept, ErrorEvent, gamed_error_cb, client_error_cb, ReadError,
         Write, WriteOut, WriteError, WriteSigpipe, vars, peerVars
<1>3. d = c
  <2>1. \E s : chan' = [chan EXCEPT ![d] = s]
    BY <1>2 DEF Peer, Connect, SendAuth, Send, Close, Reset, Read,
                gamed_read_cb, client_read_cb, SocketRead, peerVars
  <2>2. QED
    BY <2>1 DEF TypeOK, BufferTypes, Streams
<1>4. ~Read(c)
  BY <1>1 DEF Read
<1>5. ~Connect(c) /\ ~Close(c)
  BY DEF Connect, Close, peerVars
<1>6. ~Reset(c)
  <2>1. SUFFICES ASSUME NEW k \in 0 .. Len(chan[c]),
                        chan' = [chan EXCEPT ![c] = SubSeq(@, 1, k)]
                 PROVE  FALSE
    BY DEF Reset
  <2>2. SubSeq(chan[c], 1, k) = <<>>
    BY <1>1 DEF TypeOK, BufferTypes, Streams
  <2>3. QED
    BY <2>1, <2>2 DEF TypeOK, BufferTypes, Streams
<1>7. QED
  BY <1>2, <1>3, <1>4, <1>5, <1>6 DEF Peer

\* The outer port opens only when gated reads data of the inter port.
LEMMA OpenedByRead ==
    ASSUME [Next]_vars, ~clientListener, clientListener'
    PROVE  \E c \in Inter : chan[c] # <<>>
<1>1. PICK c \in Conns : Read(c)
  BY DEF Next, gated_init, gated_start_returns, gamed_accept_error_cb,
         client_accept_error_cb, Peer, Connect, SendAuth, Send, Close, Reset,
         Listen, gamed_accept_cb, client_accept_cb, Accept, ErrorEvent,
         gamed_error_cb, client_error_cb, ReadError, Write, WriteOut, WriteError,
         WriteSigpipe, vars, procVars
<1>2. PICK k \in 1 .. Len(chan[c]) : gamed_read_cb(c, k)
  BY <1>1 DEF Read, client_read_cb, procVars
<1>3. chan[c] # <<>>
  BY <1>2
<1>4. QED
  BY <1>2, <1>3 DEF gamed_read_cb

\* For any number of connections: the outer port is opened only after a game
\* server has connected and sent its packet, although the packet may be read
\* from the wrong connection and the answer may be garbage.
THEOREM GamedBeforeService == Spec => []ServiceAfterGamed
<1>1. Init => SenderInv
  BY DEF Init, SenderInv, ServiceAfterGamed, Conns
<1>2. ASSUME TypeOK, SenderInv, [Next]_vars
      PROVE  SenderInv'
  <2>1. ASSUME NEW c \in Conns, chan'[c] # <<>>
        PROVE  sock'[c] # "none" /\ sent'[c] > 0
    <3>1. CASE chan[c] # <<>>
      BY <1>2, <3>1, NothingUnsent DEF SenderInv
    <3>2. CASE chan[c] = <<>>
      <4>1. SendAuth(c) \/ Send(c)
        BY <1>2, <2>1, <3>2, OnlySendersSend
      <4>2. QED
        BY <1>2, <4>1 DEF SendAuth, Send, connVars, PacketPieces, TypeOK,
                          ConnTypes
    <3>3. QED
      BY <3>1, <3>2
  <2>2. ASSUME NEW c \in Inter \ Gameds
        PROVE  chan'[c] = <<>>
    <3>1. c \in Conns /\ c \notin Clients /\ chan[c] = <<>>
      BY <1>2, ConnsAssumption DEF Conns, SenderInv
    <3>2. QED
      BY <1>2, <3>1, OnlySendersSend
  <2>3. ServiceAfterGamed'
    <3>1. SUFFICES ASSUME clientListener'
                   PROVE  \E c \in Gameds : sock'[c] # "none" /\ sent'[c] > 0
      BY DEF ServiceAfterGamed
    <3>2. \E c \in Gameds : sock[c] # "none" /\ sent[c] > 0
      <4>1. CASE clientListener
        BY <1>2, <4>1 DEF SenderInv, ServiceAfterGamed
      <4>2. CASE ~clientListener
        BY <1>2, <3>1, <4>2, OpenedByRead DEF SenderInv, Conns, Inter
      <4>3. QED
        BY <4>1, <4>2
    <3>3. \A c \in Gameds : c \in Conns
      BY DEF Conns, Inter
    <3>4. QED
      BY <1>2, <3>2, <3>3, NothingUnsent
  <2>4. QED
    BY <2>1, <2>2, <2>3 DEF SenderInv
<1>3. TypeOK /\ SenderInv /\ [Next]_vars => SenderInv'
  BY <1>2
<1>4. SenderInv => ServiceAfterGamed
  BY DEF SenderInv
<1>5. QED
  BY <1>1, <1>3, <1>4, TypeCorrect, PTL DEF Spec

-----------------------------------------------------------------------------
(* Why the loop is told to exit.                                           *)

\* Three callbacks tell the loop to exit, and nothing takes that back.
LEMMA ExitingSetBy ==
    ASSUME [Next]_vars, exiting' # exiting
    PROVE  \/ gamed_accept_error_cb
           \/ \E c \in Inter, n \in 0 .. 1 : gamed_accept_cb(c, n)
           \/ \E c \in Inter : gamed_error_cb(c)
<1>1. \/ gamed_accept_error_cb
      \/ \E c \in Conns : \/ \E n \in 0 .. 1 : gamed_accept_cb(c, n)
                         \/ gamed_error_cb(c)
  BY DEF Next, gated_init, gated_start_returns, client_accept_error_cb, Peer,
         Connect, SendAuth, Send, Close, Reset, Listen, client_accept_cb, Read,
         gamed_read_cb, client_read_cb, ErrorEvent, client_error_cb, Write,
         WriteOut, WriteError, WriteSigpipe, vars, procVars
<1>2. QED
  BY <1>1 DEF gamed_accept_cb, gamed_error_cb

\* Reading stops at one connection at a time, and only for its own error.
LEMMA ReadingStoppedBy ==
    ASSUME [Next]_vars, NEW c \in reading \ reading'
    PROVE  ErrorEvent(c)
<1>1. PICK d \in Conns : Listen(d) \/ ErrorEvent(d)
  BY DEF Next, gated_init, gated_start_returns, gamed_accept_error_cb,
         client_accept_error_cb, Peer, Connect, SendAuth, Send, Close, Reset,
         Read, gamed_read_cb, client_read_cb, Write, WriteOut, WriteError,
         WriteSigpipe, vars, connVars
<1>2. CASE Listen(d)
  BY <1>2, ListenAccepts DEF net_new_connection
<1>3. CASE ErrorEvent(d)
  <2>1. reading' = reading \ {d}
    BY <1>3 DEF ErrorEvent, gamed_error_cb, client_error_cb, ReadError
  <2>2. QED
    BY <1>3, <2>1
<1>4. QED
  BY <1>1, <1>2, <1>3

\* A call that fails is counted.
LEMMA FailureCounted ==
    ASSUME TypeOK, NEW n \in 1 .. 2, CallsFail(n)
    PROVE  faults' > faults
BY BoundsAssumption DEF TypeOK, ProcTypes, CallsFail

LEMMA ErrorIsLoss ==
    ASSUME TypeOK, NEW c \in Inter, gamed_error_cb(c)
    PROVE  Lost(c) /\ exiting'
<1>1. c \in reading \ reading' /\ exiting' /\ (ReadEnd(c) \/ ReadFails(c))
  BY DEF gamed_error_cb, ReadError
<1>2. peer[c] # "open" \/ faults' > faults
  BY <1>1, FailureCounted DEF ReadEnd, ReadFails, CallFails
<1>3. QED
  BY <1>1, <1>2 DEF Lost

LEMMA RefusalIsCause ==
    ASSUME TypeOK, gamed_accept_error_cb
    PROVE  exiting' /\ \E c \in Inter : Refused(c)
<1>1. PICK c \in Inter : sock[c] = "pending"
  BY DEF gamed_accept_error_cb, AcceptRefused
<1>2. exiting' /\ sock' = sock
  BY DEF gamed_accept_error_cb, connVars
<1>3. FreeDescriptor' <=> FreeDescriptor
  BY <1>2 DEF FreeDescriptor, Descriptors
<1>4. ~FreeDescriptor \/ faults' > faults
  BY FailureCounted DEF gamed_accept_error_cb, AcceptRefused, CallFails
<1>5. QED
  BY <1>1, <1>2, <1>3, <1>4 DEF Refused

LEMMA AcceptIsCause ==
    ASSUME TypeOK, NEW c \in Inter, NEW n \in 0 .. 1, gamed_accept_cb(c, n),
           exiting' # exiting
    PROVE  exiting' /\ Refused(c)
<1>1. /\ sock[c] = "pending"
      /\ exiting' = (exiting \/ n = 1 \/ ~FreeDescriptor')
      /\ CallsFail(n) \/ CallsFail(n + 1)
  BY DEF gamed_accept_cb, Accept
<1>2. exiting' /\ (n = 1 \/ ~FreeDescriptor')
  BY <1>1 DEF TypeOK, ProcTypes
<1>3. n = 1 => faults' > faults
  BY <1>1, FailureCounted
<1>4. QED
  BY <1>1, <1>2, <1>3 DEF Refused

\* For any number of connections: the loop is told to exit for the inter port
\* only, and for every connection of it that is lost, be it because its peer
\* has gone or because evbuffer_read had no memory.  A connection that could
\* not be accepted is the other cause: for want of memory or of a descriptor,
\* which accept also reports right behind the last one that it gave.
THEOREM ExitsForInterPort == Spec => LoopExitHasInterCause
<1>1. ASSUME TypeOK, [Next]_vars
      PROVE  /\ exiting' # exiting
                   => exiting' /\ \E c \in Inter : Lost(c) \/ Refused(c)
             /\ \A c \in Inter : Lost(c) => exiting'
  <2>1. ASSUME exiting' # exiting
        PROVE  exiting' /\ \E c \in Inter : Lost(c) \/ Refused(c)
    <3>1. CASE gamed_accept_error_cb
      BY <1>1, <3>1, RefusalIsCause
    <3>2. CASE \E c \in Inter, n \in 0 .. 1 : gamed_accept_cb(c, n)
      BY <1>1, <2>1, <3>2, AcceptIsCause
    <3>3. CASE \E c \in Inter : gamed_error_cb(c)
      BY <1>1, <3>3, ErrorIsLoss
    <3>4. QED
      BY <1>1, <2>1, <3>1, <3>2, <3>3, ExitingSetBy
  <2>2. ASSUME NEW c \in Inter, Lost(c)
        PROVE  exiting'
    <3>1. ErrorEvent(c) /\ c \notin Clients
      BY <1>1, <2>2, ReadingStoppedBy, ConnsAssumption DEF Lost
    <3>2. QED
      BY <3>1 DEF ErrorEvent, gamed_error_cb, client_error_cb
  <2>3. QED
    BY <2>1, <2>2
<1>2. TypeOK /\ [Next]_vars =>
          [/\ exiting' # exiting
                  => exiting' /\ \E c \in Inter : Lost(c) \/ Refused(c)
           /\ \A c \in Inter : Lost(c) => exiting']_vars
  BY <1>1
<1>3. QED
  BY <1>2, TypeCorrect, PTL DEF Spec, LoopExitHasInterCause

-----------------------------------------------------------------------------
(* Sequences, and numbered pieces.                                         *)

\* A sequence is its first k elements followed by the others.
LEMMA SplitJoin ==
    ASSUME NEW S, NEW s \in Seq(S), NEW k \in 0 .. Len(s)
    PROVE  /\ SubSeq(s, 1, k) \in Seq(S)
           /\ SubSeq(s, k + 1, Len(s)) \in Seq(S)
           /\ Len(SubSeq(s, 1, k)) = k
           /\ SubSeq(s, 1, k) \o SubSeq(s, k + 1, Len(s)) = s
<1>1. Len(s) \in Nat
  BY LenProperties
<1>2. SubSeq(s, 1, k) \in Seq(S) /\ SubSeq(s, k + 1, Len(s)) \in Seq(S)
  BY <1>1, SubSeqType
<1>3. Len(SubSeq(s, 1, k)) = k
  <2>1. \A i \in 1 .. k : s[i] \in S
    BY <1>1, ElementOfSeq
  <2>2. QED
    BY <1>1, <2>1, SubSeqProperties
<1>4. SubSeq(s, 1, k) \o SubSeq(s, k + 1, Len(s)) = SubSeq(s, 1, Len(s))
  <2>1. /\ 1 \in 1 .. Len(s) + 1
        /\ k \in 1 - 1 .. Len(s)
        /\ Len(s) \in k .. Len(s)
    BY <1>1
  <2>2. QED
    BY <2>1, ConcatAdjacentSubSeq
<1>5. QED
  BY <1>2, <1>3, <1>4, SubSeqFull

\* Moving the first k elements of a sequence to the end of the one before it.
LEMMA MoveFront ==
    ASSUME NEW S, NEW o \in Seq(S), NEW s \in Seq(S), NEW k \in 0 .. Len(s)
    PROVE  (o \o SubSeq(s, 1, k)) \o SubSeq(s, k + 1, Len(s)) = o \o s
<1>1. /\ SubSeq(s, 1, k) \in Seq(S)
      /\ SubSeq(s, k + 1, Len(s)) \in Seq(S)
      /\ SubSeq(s, 1, k) \o SubSeq(s, k + 1, Len(s)) = s
  BY SplitJoin
<1>2. PICK a \in Seq(S), b \in Seq(S) : /\ a = SubSeq(s, 1, k)
                                        /\ b = SubSeq(s, k + 1, Len(s))
  BY <1>1
<1>3. (o \o a) \o b = o \o (a \o b)
  BY SMTT(30)
<1>4. QED
  BY <1>1, <1>2, <1>3

\* Taking the first k elements of s \o t, when s has as many.
LEMMA TakeFront ==
    ASSUME NEW S, NEW s \in Seq(S), NEW t \in Seq(S), NEW k \in 1 .. Len(s)
    PROVE  /\ k \in 1 .. Len(s \o t)
           /\ SubSeq(s \o t, 1, k) = SubSeq(s, 1, k)
           /\ SubSeq(s \o t, k + 1, Len(s \o t)) =
                  SubSeq(s, k + 1, Len(s)) \o t
<1>1. Len(s) \in Nat /\ Len(t) \in Nat
  BY LenProperties
<1>2. PICK q \in Seq(S) : q = s \o t /\ Len(q) = Len(s) + Len(t)
  BY ConcatProperties
<1>3. k \in 1 .. Len(q)
  BY <1>1, <1>2
<1>4. SubSeq(q, 1, k) = SubSeq(s, 1, k)
  BY <1>1, <1>2, <1>3, SubSeqOfConcat1
<1>5. /\ SubSeq(s, 1, k) \in Seq(S)
      /\ SubSeq(s, k + 1, Len(s)) \in Seq(S)
      /\ SubSeq(s, 1, k) \o SubSeq(s, k + 1, Len(s)) = s
  BY <1>1, SplitJoin
<1>6. /\ SubSeq(q, k + 1, Len(q)) \in Seq(S)
      /\ SubSeq(q, 1, k) \o SubSeq(q, k + 1, Len(q)) = q
  <2>1. k \in 0 .. Len(q)
    BY <1>3
  <2>2. QED
    BY <2>1, SplitJoin
<1>7. PICK a \in Seq(S), b \in Seq(S), d \in Seq(S) :
          /\ a = SubSeq(s, 1, k)
          /\ b = SubSeq(s, k + 1, Len(s))
          /\ d = SubSeq(q, k + 1, Len(q))
  BY <1>5, <1>6
<1>8. PICK e \in Seq(S) : e = b \o t
  BY ConcatProperties
<1>9. a \o e = a \o d
  <2>1. (a \o b) \o t = a \o (b \o t)
    OBVIOUS
  <2>2. QED
    BY <1>2, <1>4, <1>5, <1>6, <1>7, <1>8, <2>1
<1>10. \A x, y, z \in Seq(S) : x \o y = x \o z => y = z
  BY ConcatSimplifications
<1>11. d = e
  BY <1>9, <1>10
<1>12. QED
  BY <1>2, <1>3, <1>4, <1>7, <1>8, <1>11

\* n pieces of c.
LEMMA PiecesProperties ==
    ASSUME NEW c \in Conns, NEW n \in Nat
    PROVE  /\ Pieces(c, n) \in Seq(OwnPieces(c))
           /\ Len(Pieces(c, n)) = n
           /\ \A i \in 1 .. n : Pieces(c, n)[i] = <<c, i>>
<1>1. Pieces(c, n) \in Seq(OwnPieces(c))
  BY PiecesType
<1>2. DOMAIN Pieces(c, n) = 1 .. n
  BY DEF Pieces
<1>3. Len(Pieces(c, n)) \in Nat /\ DOMAIN Pieces(c, n) = 1 .. Len(Pieces(c, n))
  BY <1>1, LenProperties
<1>4. QED
  BY <1>1, <1>2, <1>3 DEF Pieces

\* The next piece continues the stream.
LEMMA PiecesAppend ==
    ASSUME NEW c \in Conns, NEW n \in Nat
    PROVE  Append(Pieces(c, n), <<c, n + 1>>) = Pieces(c, n + 1)
<1>1. <<c, n + 1>> \in OwnPieces(c)
  BY DEF OwnPieces
<1> DEFINE p == Pieces(c, n)
           q == Append(p, <<c, n + 1>>)
<1>2. /\ p \in Seq(OwnPieces(c))
      /\ Len(p) = n
      /\ \A i \in 1 .. n : p[i] = <<c, i>>
  BY PiecesProperties
<1> HIDE DEF p
<1>3. /\ q \in Seq(OwnPieces(c))
      /\ Len(q) = n + 1
      /\ \A i \in 1 .. n : q[i] = <<c, i>>
      /\ q[n + 1] = <<c, n + 1>>
  BY <1>1, <1>2, AppendProperties
<1> HIDE DEF q
<1>4. \A i \in 1 .. n + 1 : q[i] = <<c, i>>
  BY <1>3
<1>5. q = Pieces(c, n + 1)
  <2>1. q = [i \in 1 .. n + 1 |-> q[i]]
    BY <1>3, LenProperties
  <2>2. QED
    BY <1>4, <2>1 DEF Pieces
<1>6. QED
  BY <1>5 DEF p, q

\* A prefix of the stream of c is the stream of c so far.
LEMMA PiecesPrefix ==
    ASSUME NEW c \in Conns, NEW n \in Nat, NEW r \in Seq(OwnPieces(c)),
           NEW s \in Seq(OwnPieces(c)), r \o s = Pieces(c, n)
    PROVE  r = Pieces(c, Len(r))
<1>1. Len(r) \in Nat /\ Len(s) \in Nat
  BY LenProperties
<1> DEFINE rs == r \o s
<1>2. /\ Len(rs) = Len(r) + Len(s)
      /\ \A i \in 1 .. Len(r) : rs[i] = r[i]
  BY <1>1, ConcatProperties
<1> HIDE DEF rs
<1>3. Len(rs) = n /\ \A i \in 1 .. n : rs[i] = <<c, i>>
  BY PiecesProperties DEF rs
<1>4. \A i \in 1 .. Len(r) : r[i] = <<c, i>>
  BY <1>1, <1>2, <1>3
<1>5. r = [i \in 1 .. Len(r) |-> r[i]]
  BY LenProperties
<1>6. QED
  BY <1>4, <1>5 DEF Pieces

\* The four buffers between gated and a peer.
LEMMA BufferTypesOf ==
    ASSUME TypeOK, NEW c \in Conns
    PROVE  /\ input[c] \in Seq(OwnPieces(c))
           /\ output[c] \in Seq(OwnPieces(c))
           /\ chan[c] \in Seq(OwnPieces(c))
           /\ received[c] \in Seq(OwnPieces(c))
           /\ InTransit(c) \in Seq(OwnPieces(c))
<1>1. /\ input[c] \in Seq(OwnPieces(c))
      /\ output[c] \in Seq(OwnPieces(c))
      /\ chan[c] \in Seq(OwnPieces(c))
      /\ received[c] \in Seq(OwnPieces(c))
  BY DEF TypeOK, BufferTypes, Streams
<1>2. output[c] \o input[c] \in Seq(OwnPieces(c))
  BY <1>1, ConcatProperties
<1>3. InTransit(c) \in Seq(OwnPieces(c))
  BY <1>1, <1>2, ConcatProperties DEF InTransit
<1>4. QED
  BY <1>1, <1>3

-----------------------------------------------------------------------------
(* What each step does to the words of a client that are on their way.     *)

\* A client's input buffer is empty between callbacks: whatever
\* evbuffer_remove is made to read from it, it takes nothing.
Drained == \A c \in Clients : input[c] = <<>>

\* The words a client sends go to the end of what is on its way.
LEMMA SendAppends ==
    ASSUME TypeOK, NEW c \in Clients, Send(c)
    PROVE  InTransit(c)' = Append(InTransit(c), <<c, sent[c] + 1>>)
<1>1. c \in Conns
  BY DEF Conns
<1>2. <<c, sent[c] + 1>> \in OwnPieces(c)
  BY <1>1 DEF TypeOK, ConnTypes, OwnPieces
<1>3. /\ chan'[c] = Append(chan[c], <<c, sent[c] + 1>>)
      /\ UNCHANGED <<output, input>>
  BY <1>1 DEF Send, bufVars, TypeOK, BufferTypes, Streams
<1>4. output[c] \o input[c] \in Seq(OwnPieces(c))
  BY <1>1, BufferTypesOf, ConcatProperties
<1>5. \A s, t \in Seq(OwnPieces(c)), e \in OwnPieces(c) :
          s \o Append(t, e) = Append(s \o t, e)
  OBVIOUS
<1>6. InTransit(c)' = (output[c] \o input[c]) \o Append(chan[c], <<c, sent[c] + 1>>)
  BY <1>3 DEF InTransit
<1>7. chan[c] \in Seq(OwnPieces(c))
  BY <1>1, BufferTypesOf
<1>8. QED
  BY <1>2, <1>4, <1>5, <1>6, <1>7 DEF InTransit

\* The echo moves words from the socket to the output buffer, in order.
LEMMA EchoMoves ==
    ASSUME TypeOK, Drained, NEW c \in Clients, NEW k \in 1 .. Len(chan[c]),
           client_read_cb(c, k)
    PROVE  InTransit(c)' = InTransit(c) /\ input'[c] = <<>>
<1>1. c \in Conns /\ input[c] = <<>>
  BY DEF Conns, Drained
<1>2. chan[c] \in Seq(OwnPieces(c)) /\ output[c] \in Seq(OwnPieces(c))
  BY <1>1, BufferTypesOf
<1>3. k \in 0 .. Len(chan[c]) /\ Len(chan[c]) \in Nat
  BY <1>2, LenProperties
<1>4. SubSeq(chan[c], 1, k) \in Seq(OwnPieces(c))
  BY <1>2, <1>3, SplitJoin
<1>5. Filled(c, k)[c] = SubSeq(chan[c], 1, k)
  <2>1. Filled(c, k)[c] = <<>> \o SubSeq(chan[c], 1, k)
    BY <1>1 DEF Filled, TypeOK, BufferTypes, Streams
  <2>2. QED
    BY <1>4, <2>1, ConcatEmptySeq
<1>6. /\ output'[c] = output[c] \o SubSeq(chan[c], 1, k)
      /\ input'[c] = <<>>
      /\ chan'[c] = SubSeq(chan[c], k + 1, Len(chan[c]))
  BY <1>1, <1>5 DEF client_read_cb, SocketRead, TypeOK, BufferTypes, Streams
<1>7. \A s, t \in Seq(OwnPieces(c)) : (s \o <<>>) \o t = s \o t
  BY ConcatEmptySeq
<1>8. InTransit(c)' = (output[c] \o SubSeq(chan[c], 1, k))
                          \o SubSeq(chan[c], k + 1, Len(chan[c]))
  <2>1. output[c] \o SubSeq(chan[c], 1, k) \in Seq(OwnPieces(c))
    BY <1>2, <1>4, ConcatProperties
  <2>2. SubSeq(chan[c], k + 1, Len(chan[c])) \in Seq(OwnPieces(c))
    BY <1>2, <1>3, SplitJoin
  <2>3. QED
    BY <1>6, <1>7, <2>1, <2>2 DEF InTransit
<1>9. InTransit(c) = output[c] \o chan[c]
  BY <1>1, <1>2, <1>7 DEF InTransit
<1>10. QED
  BY <1>2, <1>3, <1>6, <1>8, <1>9, MoveFront

\* Writing to a peer that is there takes words from the front.
LEMMA WriteDelivers ==
    ASSUME TypeOK, NEW c \in Conns, WriteOut(c), peer[c] = "open"
    PROVE  \E k \in 1 .. Len(InTransit(c)) :
               /\ received'[c] = received[c] \o SubSeq(InTransit(c), 1, k)
               /\ InTransit(c)' =
                      SubSeq(InTransit(c), k + 1, Len(InTransit(c)))
               /\ UNCHANGED <<peer, input>>
<1>1. PICK k \in 1 .. Len(output[c]) :
          /\ output' = [output EXCEPT ![c] = SubSeq(@, k + 1, Len(@))]
          /\ received' = [received EXCEPT ![c] = @ \o SubSeq(output[c], 1, k)]
          /\ UNCHANGED peer
  BY DEF WriteOut
<1>2. UNCHANGED <<input, chan>>
  BY DEF WriteOut
<1>3. PICK o \in Seq(OwnPieces(c)), i \in Seq(OwnPieces(c)),
            h \in Seq(OwnPieces(c)) :
          o = output[c] /\ i = input[c] /\ h = chan[c]
  BY BufferTypesOf
<1>4. PICK b \in Seq(OwnPieces(c)) : b = SubSeq(o, k + 1, Len(o))
  <2>1. k \in 0 .. Len(o)
    BY <1>1, <1>3, LenProperties
  <2>2. SubSeq(o, k + 1, Len(o)) \in Seq(OwnPieces(c))
    BY <2>1, SplitJoin
  <2>3. QED
    BY <2>2
<1>5. output'[c] = b /\ received'[c] = received[c] \o SubSeq(o, 1, k)
  BY <1>1, <1>3, <1>4 DEF TypeOK, BufferTypes, Streams
<1>6. PICK t \in Seq(OwnPieces(c)) : t = i \o h
  BY ConcatProperties
<1>7. InTransit(c) = o \o t
  <2>1. (o \o i) \o h = o \o (i \o h)
    OBVIOUS
  <2>2. QED
    BY <1>3, <1>6, <2>1 DEF InTransit
<1>8. InTransit(c)' = b \o t
  <2>1. InTransit(c)' = (b \o i) \o h
    BY <1>2, <1>3, <1>5 DEF InTransit
  <2>2. (b \o i) \o h = b \o (i \o h)
    OBVIOUS
  <2>3. QED
    BY <1>6, <2>1, <2>2
<1>9. /\ k \in 1 .. Len(o \o t)
      /\ SubSeq(o \o t, 1, k) = SubSeq(o, 1, k)
      /\ SubSeq(o \o t, k + 1, Len(o \o t)) = b \o t
  <2>1. k \in 1 .. Len(o)
    BY <1>1, <1>3
  <2>2. QED
    BY <1>4, <2>1, TakeFront
<1>10. QED
  BY <1>1, <1>2, <1>5, <1>7, <1>8, <1>9

-----------------------------------------------------------------------------
(* What a step is to a client.                                             *)

\* Nothing happens to c, or its words only move on inside gated.
Kept(c) == /\ UNCHANGED <<received[c], sent[c]>>
           /\ InTransit(c)' = InTransit(c)
           /\ input'[c] = <<>>
           /\ peer'[c] = "open" <=> peer[c] = "open"

\* c has gone: what is on its way no longer counts.
Gone(c) == /\ UNCHANGED received[c]
           /\ input'[c] = <<>>
           /\ peer'[c] # "open"

\* c gets words from the front of what is on its way.
Delivered(c) ==
    \E k \in 1 .. Len(InTransit(c)) :
        /\ received'[c] = received[c] \o SubSeq(InTransit(c), 1, k)
        /\ InTransit(c)' = SubSeq(InTransit(c), k + 1, Len(InTransit(c)))
        /\ UNCHANGED <<sent[c], input[c], peer[c]>>

\* The callbacks of other connections leave c alone: gamed_read_cb may work on
\* c when c was accepted last, but takes nothing from an empty buffer.
LEMMA OthersKept ==
    ASSUME TypeOK, Drained, NEW d \in Conns,
           Peer(d) \/ Read(d) \/ ErrorEvent(d) \/ Write(d),
           NEW c \in Clients, c # d
    PROVE  Kept(c)
<1>1. c \in Conns /\ input[c] = <<>>
  BY DEF Conns, Drained
<1>2. UNCHANGED <<received[c], sent[c], peer[c], output[c], chan[c]>>
  <2>1. CASE Peer(d)
    BY <1>1, <2>1 DEF Peer, Connect, SendAuth, Send, Close, Reset, bufVars,
                      peerVars, TypeOK, ConnTypes, BufferTypes, Streams
  <2>2. CASE Read(d)
    BY ZenonT(40), <1>1, <2>2 DEF Read, gamed_read_cb, client_read_cb, SocketRead, TypeOK,
                      ConnTypes, BufferTypes, Streams
  <2>3. CASE ErrorEvent(d)
    BY <1>1, <2>3 DEF ErrorEvent, gamed_error_cb, client_error_cb, ReadError,
                      ReadEnd, ReadFails, bufVars, TypeOK, ConnTypes
  <2>4. CASE WriteOut(d)
    BY <1>1, <2>4 DEF WriteOut, TypeOK, ConnTypes, BufferTypes, Streams
  <2>5. CASE WriteError(d) \/ WriteSigpipe(d)
    BY <1>1, <2>5 DEF WriteError, WriteSigpipe, bufVars, peerVars, TypeOK,
                      ConnTypes
  <2>6. QED
    BY <2>1, <2>2, <2>3, <2>4, <2>5 DEF Write
<1>3. input'[c] = <<>>
  <2>1. CASE Peer(d) \/ ErrorEvent(d) \/ Write(d)
    <3>1. UNCHANGED input
      BY <2>1 DEF Peer, Connect, SendAuth, Send, Close, Reset, ErrorEvent,
                  gamed_error_cb, client_error_cb, ReadError, Write, WriteOut,
                  WriteError, WriteSigpipe, bufVars
    <3>2. QED
      BY <1>1, <3>1
  <2>2. CASE \E k \in 1 .. Len(chan[d]) : client_read_cb(d, k)
    BY <1>1, <2>2 DEF client_read_cb, TypeOK, BufferTypes, Streams
  <2>3. ASSUME NEW k \in 1 .. Len(chan[d]), gamed_read_cb(d, k)
        PROVE  input'[c] = <<>>
    <3>1. Filled(d, k)[c] = <<>> /\ Filled(d, k) \in [Conns -> Seq(Conns \X (Nat \ {0}))]
      BY <1>1, FilledStreams DEF Filled, TypeOK, BufferTypes, Streams
    <3>2. \A g : Removed(Filled(d, k), g)[c] = <<>>
      <4>1. SubSeq(<<>>, PacketPieces + 1, Len(<<>>)) = <<>>
        BY SubSeqEmpty, EmptySeq DEF PacketPieces
      <4>2. QED
        BY <1>1, <3>1, <4>1 DEF Removed
    <3>3. QED
      BY <2>3, <3>1, <3>2 DEF gamed_read_cb, gamed_read_auth_packet,
                              gamed_read_rpc_packet
  <2>4. QED
    BY <2>1, <2>2, <2>3 DEF Read
<1>4. QED
  BY <1>1, <1>2, <1>3 DEF Kept, InTransit

\* The process, the listeners and accepting leave every client's words alone.
LEMMA AllKept ==
    ASSUME Drained,
           \/ gated_init
           \/ gated_start_returns
           \/ gamed_accept_error_cb
           \/ client_accept_error_cb
           \/ \E d \in Conns : Listen(d)
           \/ UNCHANGED vars,
           NEW c \in Clients
    PROVE  Kept(c)
<1>1. UNCHANGED <<bufVars, peerVars>>
  BY DEF gated_init, gated_start_returns, gamed_accept_error_cb,
         client_accept_error_cb, Listen, gamed_accept_cb, client_accept_cb,
         Accept, vars
<1>2. QED
  BY <1>1 DEF Kept, InTransit, Drained, bufVars, peerVars

\* What a step of its own connection is to a client.
LEMMA OwnStep ==
    ASSUME TypeOK, Drained, NEW c \in Clients,
           Peer(c) \/ Read(c) \/ ErrorEvent(c) \/ Write(c)
    PROVE  \/ Kept(c)
           \/ Send(c)
           \/ Gone(c) /\ (peer[c] = "open" => Close(c) \/ Reset(c))
           \/ Delivered(c) /\ WriteOut(c) /\ peer[c] = "open"
<1>1. c \in Conns /\ c \notin Inter /\ c \notin Gameds /\ input[c] = <<>>
  BY ConnsAssumption DEF Conns, Inter, Drained
<1>2. CASE Connect(c) \/ WriteSigpipe(c)
  BY <1>1, <1>2 DEF Connect, WriteSigpipe, Kept, InTransit, bufVars, peerVars
<1>3. CASE Send(c)
  BY <1>3
<1>4. CASE Close(c) \/ Reset(c)
  BY <1>1, <1>4 DEF Close, Reset, Gone, bufVars, TypeOK, ConnTypes
<1>5. CASE ErrorEvent(c)
  <2>1. UNCHANGED <<bufVars, sent, chan, received>> /\ (ReadEnd(c) \/ ReadFails(c))
    BY <1>1, <1>5 DEF ErrorEvent, gamed_error_cb, client_error_cb, ReadError
  <2>2. CASE ReadEnd(c)
    BY <1>1, <2>1, <2>2 DEF ReadEnd, Gone, bufVars, TypeOK, ConnTypes
  <2>3. CASE ReadFails(c)
    BY <1>1, <2>1, <2>3 DEF ReadFails, Kept, InTransit, bufVars
  <2>4. QED
    BY <2>1, <2>2, <2>3
<1>6. CASE WriteError(c)
  BY <1>1, <1>6 DEF WriteError, Gone, bufVars, TypeOK, ConnTypes
<1>7. CASE Read(c)
  <2>1. PICK k \in 1 .. Len(chan[c]) : client_read_cb(c, k)
    BY <1>1, <1>7 DEF Read, gamed_read_cb
  <2>2. InTransit(c)' = InTransit(c) /\ input'[c] = <<>>
    BY <2>1, EchoMoves
  <2>3. QED
    BY <2>1, <2>2 DEF Kept, client_read_cb, SocketRead
<1>8. CASE WriteOut(c) /\ peer[c] = "open"
  <2>1. UNCHANGED sent
    BY <1>8 DEF WriteOut
  <2>2. QED
    BY <1>1, <1>8, <2>1, WriteDelivers DEF Delivered
<1>9. CASE WriteOut(c) /\ peer[c] # "open"
  BY <1>1, <1>9 DEF WriteOut, Gone, TypeOK, ConnTypes
<1>10. QED
  BY <1>1, <1>2, <1>3, <1>4, <1>5, <1>6, <1>7, <1>8, <1>9
  DEF Peer, Write

-----------------------------------------------------------------------------
(* The echo.                                                               *)

EchoInv == EchoIntegrity /\ Drained

\* What the echo promises to one client.
Echoed(c) ==
    /\ received[c] = Pieces(c, Len(received[c]))
    /\ peer[c] = "open" => received[c] \o InTransit(c) = Pieces(c, sent[c])

\* A client that gets words has got a longer part of its own stream.
LEMMA DeliveredEchoed ==
    ASSUME TypeOK, NEW c \in Clients, Echoed(c), Delivered(c),
           peer[c] = "open"
    PROVE  Echoed(c)'
<1>1. c \in Conns /\ sent[c] \in Nat
  BY DEF Conns, TypeOK, ConnTypes
<1>2. received[c] \in Seq(OwnPieces(c)) /\ InTransit(c) \in Seq(OwnPieces(c))
  BY <1>1, BufferTypesOf
<1>3. PICK k \in 1 .. Len(InTransit(c)) :
          /\ received'[c] = received[c] \o SubSeq(InTransit(c), 1, k)
          /\ InTransit(c)' = SubSeq(InTransit(c), k + 1, Len(InTransit(c)))
          /\ UNCHANGED <<sent[c], input[c], peer[c]>>
  BY DEF Delivered
<1>4. k \in 0 .. Len(InTransit(c))
  BY <1>2, <1>3, LenProperties
<1>5. received'[c] \o InTransit(c)' = Pieces(c, sent[c])
  BY <1>2, <1>3, <1>4, MoveFront DEF Echoed
<1>6. received'[c] \in Seq(OwnPieces(c)) /\ InTransit(c)' \in Seq(OwnPieces(c))
  BY <1>2, <1>3, <1>4, SplitJoin, ConcatProperties
<1>7. received'[c] = Pieces(c, Len(received'[c]))
  BY <1>1, <1>5, <1>6, PiecesPrefix
<1>8. QED
  BY <1>3, <1>5, <1>7 DEF Echoed

\* A word sent is the next one of the stream.
LEMMA SendEchoed ==
    ASSUME TypeOK, NEW c \in Clients, Echoed(c), Send(c)
    PROVE  Echoed(c)' /\ UNCHANGED <<input, received, peer>>
<1>1. c \in Conns /\ sent[c] \in Nat
  BY DEF Conns, TypeOK, ConnTypes
<1>2. /\ peer[c] = "open"
      /\ sent'[c] = sent[c] + 1
      /\ UNCHANGED <<input, received, peer>>
  BY <1>1 DEF Send, bufVars, TypeOK, ConnTypes
<1>3. InTransit(c)' = Append(InTransit(c), <<c, sent[c] + 1>>)
  BY SendAppends
<1>4. received[c] \in Seq(OwnPieces(c)) /\ InTransit(c) \in Seq(OwnPieces(c))
  BY <1>1, BufferTypesOf
<1>5. <<c, sent[c] + 1>> \in OwnPieces(c)
  BY <1>1 DEF OwnPieces
<1>6. received[c] \o Append(InTransit(c), <<c, sent[c] + 1>>) =
          Append(received[c] \o InTransit(c), <<c, sent[c] + 1>>)
  <2>1. \A s, t \in Seq(OwnPieces(c)), e \in OwnPieces(c) :
            s \o Append(t, e) = Append(s \o t, e)
    OBVIOUS
  <2>2. QED
    BY <1>4, <1>5, <2>1
<1>7. Append(Pieces(c, sent[c]), <<c, sent[c] + 1>>) = Pieces(c, sent[c] + 1)
  BY <1>1, PiecesAppend
<1>8. QED
  BY <1>2, <1>3, <1>6, <1>7 DEF Echoed

\* EchoIntegrity with what makes it inductive: between callbacks a client has
\* no input that gamed_read_cb could take for an auth packet.
THEOREM EchoInvariant == Spec => []EchoInv
<1>1. Init => EchoInv
  <2> SUFFICES ASSUME Init, NEW c \in Clients
               PROVE  Echoed(c) /\ input[c] = <<>>
    BY DEF EchoInv, EchoIntegrity, Drained, Echoed
  <2>1. c \in Conns
    BY DEF Conns
  <2>2. Pieces(c, 0) = <<>> /\ Len(<<>>) = 0
    BY <2>1, PiecesProperties, EmptySeq
  <2>3. (<<>> \o <<>>) \o <<>> = <<>> /\ <<>> \o <<>> = <<>>
    OBVIOUS
  <2>4. QED
    BY <2>1, <2>2, <2>3 DEF Init, Echoed, InTransit
<1>2. ASSUME TypeOK, EchoInv, [Next]_vars, NEW c \in Clients
      PROVE  Echoed(c)' /\ input'[c] = <<>>
  <2>1. Drained /\ Echoed(c)
    BY <1>2 DEF EchoInv, EchoIntegrity, Echoed
  <2>2. CASE Kept(c)
    BY <2>1, <2>2 DEF Kept, Echoed
  <2>3. CASE Gone(c)
    BY <2>1, <2>3 DEF Gone, Echoed
  <2>4. CASE Send(c)
    BY <1>2, <2>1, <2>4, SendEchoed DEF Drained
  <2>5. CASE Delivered(c) /\ peer[c] = "open"
    BY <1>2, <2>1, <2>5, DeliveredEchoed DEF Drained, Delivered
  <2>6. CASE \E d \in Conns : Peer(d) \/ Read(d) \/ ErrorEvent(d) \/ Write(d)
    <3>1. PICK d \in Conns : Peer(d) \/ Read(d) \/ ErrorEvent(d) \/ Write(d)
      BY <2>6
    <3>2. CASE c # d
      BY <1>2, <2>1, <2>2, <3>1, <3>2, OthersKept
    <3>3. CASE c = d
      BY <1>2, <2>1, <2>2, <2>3, <2>4, <2>5, <3>1, <3>3, OwnStep
    <3>4. QED
      BY <3>2, <3>3
  <2>7. CASE \/ gated_init
             \/ gated_start_returns
             \/ gamed_accept_error_cb
             \/ client_accept_error_cb
             \/ \E d \in Conns : Listen(d)
             \/ UNCHANGED vars
    BY <2>1, <2>2, <2>7, AllKept
  <2>8. QED
    BY <1>2, <2>6, <2>7 DEF Next
<1>3. TypeOK /\ EchoInv /\ [Next]_vars => EchoInv'
  BY <1>2 DEF EchoInv, EchoIntegrity, Drained, Echoed
<1>4. QED
  BY <1>1, <1>3, TypeCorrect, PTL DEF Spec

\* For any number of clients: what a client gets back is what it sent, in
\* order, and complete while it stays.
THEOREM EchoCorrect == Spec => []EchoIntegrity
<1>1. EchoInv => EchoIntegrity
  BY DEF EchoInv
<1>2. QED
  BY <1>1, EchoInvariant, PTL

-----------------------------------------------------------------------------
(* gated implements the abstract service.                                  *)

\* Who has sent has connected.
SentInv == \A c \in Conns : sent[c] > 0 => sock[c] # "none"

LEMMA SentInvariant == Spec => []SentInv
<1>1. Init => SentInv
  BY DEF Init, SentInv
<1>2. ASSUME TypeOK, SentInv, [Next]_vars, NEW c \in Conns, sent'[c] > 0
      PROVE  sock'[c] # "none"
  <2>1. CASE sent'[c] = sent[c]
    BY <1>2, <2>1, NothingUnsent DEF SentInv
  <2>2. CASE sent'[c] # sent[c]
    <3>1. PICK d \in Conns : SendAuth(d) \/ Send(d)
      BY <1>2, <2>2 DEF Next, gated_init, gated_start_returns,
         gamed_accept_error_cb, client_accept_error_cb, Peer, Connect, Close,
         Reset, Listen, gamed_accept_cb, client_accept_cb, Accept, Read,
         gamed_read_cb, client_read_cb, SocketRead, ErrorEvent, gamed_error_cb,
         client_error_cb, ReadError, Write, WriteOut, WriteError, WriteSigpipe,
         vars, peerVars
    <3>2. d = c
      BY <1>2, <2>2, <3>1 DEF SendAuth, Send, TypeOK, ConnTypes
    <3>3. QED
      BY <3>1, <3>2 DEF SendAuth, Send, connVars
  <2>3. QED
    BY <2>1, <2>2
<1>3. TypeOK /\ SentInv /\ [Next]_vars => SentInv'
  BY <1>2 DEF SentInv
<1>4. QED
  BY <1>1, <1>3, TypeCorrect, PTL DEF Spec

\* How far the process and its outer port are, in the terms of the service.
LEMMA PhaseStep ==
    ASSUME TypeOK, [Next]_vars
    PROVE  \/ ServicePhase' = ServicePhase
           \/ ServicePhase = "closed" /\ ServicePhase' = "open"
           \/ ServicePhase # "down" /\ ServicePhase' = "down"
<1>1. CASE UNCHANGED <<proc, clientListener>>
  BY <1>1 DEF ServicePhase
<1>2. CASE ~UNCHANGED <<proc, clientListener>>
  <2>1. proc \in {"boot", "loop"}
    BY ZenonT(40), <1>2 DEF Next, gated_init, gated_start_returns,
       gamed_accept_error_cb, client_accept_error_cb, Peer, Connect, SendAuth,
       Send, Close, Reset, Listen, gamed_accept_cb, client_accept_cb, Accept,
       Read, gamed_read_cb, client_read_cb, SocketRead, ErrorEvent,
       gamed_error_cb, client_error_cb, ReadError, Write, WriteOut, WriteError,
       WriteSigpipe, Writable, Running, vars, procVars
  <2>2. clientListener => clientListener'
    BY DEF Next, gated_init, gated_start_returns,
       gamed_accept_error_cb, client_accept_error_cb, Peer, Connect, SendAuth,
       Send, Close, Reset, Listen, gamed_accept_cb, client_accept_cb, Accept,
       Read, gamed_read_cb, gamed_read_auth_packet, gamed_read_rpc_packet,
       open_client_service, client_read_cb, ErrorEvent,
       gamed_error_cb, client_error_cb, ReadError, Write, WriteOut, WriteError,
       WriteSigpipe, vars, procVars
  <2>3. QED
    BY <2>1, <2>2 DEF ServicePhase, Ended
<1>3. QED
  BY <1>1, <1>2

\* A client with which gated has to do has found the outer port open.
LEMMA OpenFor ==
    ASSUME TypeOK, HandshakeInv, EchoInv, SentInv, Running, NEW c \in Clients,
           peer[c] = "open",
           sock[c] # "none" \/ received[c] # <<>> \/ output[c] # <<>>
    PROVE  ServicePhase = "open"
<1>1. c \in Conns /\ sent[c] \in Nat
  BY DEF Conns, TypeOK, ConnTypes
<1>2. received[c] # <<>> \/ output[c] # <<>> => sent[c] > 0
  <2>1. received[c] \o InTransit(c) = Pieces(c, sent[c])
    BY DEF EchoInv, EchoIntegrity
  <2>2. /\ received[c] \in Seq(OwnPieces(c))
        /\ output[c] \in Seq(OwnPieces(c))
        /\ input[c] \in Seq(OwnPieces(c))
        /\ chan[c] \in Seq(OwnPieces(c))
    BY <1>1, BufferTypesOf
  <2>3. Len(Pieces(c, sent[c])) = sent[c]
    BY <1>1, PiecesProperties
  <2>4. PICK r \in Seq(OwnPieces(c)), o \in Seq(OwnPieces(c)),
             i \in Seq(OwnPieces(c)), h \in Seq(OwnPieces(c)) :
            r = received[c] /\ o = output[c] /\ i = input[c] /\ h = chan[c]
    BY <2>2
  <2>5. Len(r \o (o \o i \o h)) = sent[c]
    BY <2>1, <2>3, <2>4 DEF InTransit
  <2>6. Len(r) + Len(o) <= sent[c]
    <3>1. Len(r \o (o \o i \o h)) = Len(r) + Len(o) + Len(i) + Len(h)
      OBVIOUS
    <3>2. QED
      BY <2>5, <3>1, LenProperties
  <2>7. /\ r # <<>> => Len(r) \in Nat \ {0}
        /\ o # <<>> => Len(o) \in Nat \ {0}
        /\ Len(r) \in Nat /\ Len(o) \in Nat
    BY EmptySeq, LenProperties
  <2>8. r # <<>> \/ o # <<>> => sent[c] > 0
    <3>1. PICK m \in Nat, n \in Nat : m = Len(r) /\ n = Len(o) /\ m + n <= sent[c]
      BY <2>6, <2>7
    <3>2. r # <<>> \/ o # <<>> => m > 0 \/ n > 0
      BY <2>7, <3>1
    <3>3. QED
      BY <1>1, <3>1, <3>2
  <2>9. QED
    BY <2>4, <2>8
<1>3. sock[c] # "none"
  BY <1>1, <1>2 DEF SentInv
<1>4. clientListener
  BY <1>3 DEF HandshakeInv
<1>5. QED
  BY <1>4 DEF ServicePhase, Running, Ended

\* When nothing happens to any client that is there, only the phase may change.
LEMMA QuietService ==
    ASSUME TypeOK, [Next]_vars,
           \A c \in Clients : Kept(c) \/ (Gone(c) /\ peer[c] # "open")
    PROVE  [Service!Next]_(Service!vars)
<1>1. PresentClients' = PresentClients
  BY DEF PresentClients, Kept, Gone
<1>2. ServiceGot' = ServiceGot
  BY DEF ServiceGot, Kept, Gone
<1>3. ServicePipe' = ServicePipe
  <2>1. ASSUME NEW c \in Clients, c \in PresentClients
        PROVE  InTransit(c)' = InTransit(c)
    BY <2>1 DEF PresentClients, Kept
  <2>2. QED
    BY <1>1, <2>1 DEF ServicePipe
<1>4. QED
  BY <1>1, <1>2, <1>3, PhaseStep
     DEF Service!Next, Service!OpenService, Service!Stop, Service!vars

\* When something happens to one client, the others keep what they have.
LEMMA OneClientStep ==
    ASSUME TypeOK, NEW c \in Clients,
           \A d \in Clients : d # c => Kept(d),
           UNCHANGED <<proc, clientListener>>
    PROVE  /\ ServicePhase' = ServicePhase
           /\ \A d \in Clients : d # c => /\ ServicePipe'[d] = ServicePipe[d]
                                          /\ ServiceGot'[d] = ServiceGot[d]
           /\ \A d \in Clients : d # c => (d \in PresentClients' <=>
                                               d \in PresentClients)
<1>1. ServicePhase' = ServicePhase
  BY DEF ServicePhase
<1>2. ASSUME NEW d \in Clients, d # c
      PROVE  d \in PresentClients' <=> d \in PresentClients
  BY <1>2 DEF PresentClients, Kept
<1>3. ASSUME NEW d \in Clients, d # c
      PROVE  ServicePipe'[d] = ServicePipe[d] /\ ServiceGot'[d] = ServiceGot[d]
  BY <1>2, <1>3 DEF ServicePipe, ServiceGot, Kept
<1>4. QED
  BY <1>1, <1>2, <1>3

\* Sending is submitting a word.
LEMMA SendSubmits ==
    ASSUME TypeOK, HandshakeInv, EchoInv, SentInv, NEW c \in Clients, Send(c),
           \A d \in Clients : d # c => Kept(d)
    PROVE  Service!Submit(c)
<1>1. c \in Conns /\ sent[c] \in Nat /\ Echoed(c)
  BY DEF Conns, TypeOK, ConnTypes, EchoInv, EchoIntegrity, Echoed
<1>2. /\ UNCHANGED <<proc, clientListener, received, peer>>
      /\ sock[c] # "none" /\ peer[c] = "open" /\ Running
      /\ sent[c] < MaxSend
  BY <1>1 DEF Send, procVars
<1>3. ServicePhase = "open" /\ c \in PresentClients /\ c \in PresentClients'
  BY <1>2, OpenFor DEF PresentClients
<1>4. ServiceGot[c] = received[c] /\ ServicePipe[c] = InTransit(c)
  BY <1>3 DEF ServiceGot, ServicePipe
<1>5. ServiceGot'[c] = received[c] /\ ServicePipe'[c] = InTransit(c)'
  BY <1>2, <1>3 DEF ServiceGot, ServicePipe
<1>6. Len(received[c]) + Len(InTransit(c)) = sent[c]
  <2>1. received[c] \in Seq(OwnPieces(c)) /\ InTransit(c) \in Seq(OwnPieces(c))
    BY <1>1, BufferTypesOf
  <2>2. received[c] \o InTransit(c) = Pieces(c, sent[c])
    BY <1>1, <1>2 DEF Echoed
  <2>3. \A r, t \in Seq(OwnPieces(c)) : Len(r \o t) = Len(r) + Len(t)
    BY ConcatProperties
  <2>4. Len(Pieces(c, sent[c])) = sent[c]
    BY <1>1, PiecesProperties
  <2>5. QED
    BY <2>1, <2>2, <2>3, <2>4
<1>7. ServicePipe'[c] = Append(ServicePipe[c], Service!NextWord(c))
  BY <1>4, <1>5, <1>6, SendAppends DEF Service!NextWord
<1>8. PresentClients' = PresentClients /\ ServiceGot' = ServiceGot
  BY <1>2 DEF PresentClients, ServiceGot
<1>9. ServicePipe' = [ServicePipe EXCEPT
                          ![c] = Append(ServicePipe[c], Service!NextWord(c))]
  BY <1>2, <1>7, OneClientStep DEF ServicePipe
<1>10. ServicePhase' = ServicePhase
  BY <1>2 DEF ServicePhase
<1>11. QED
  BY <1>2, <1>3, <1>4, <1>6, <1>8, <1>9, <1>10 DEF Service!Submit

\* Closing and resetting is leaving.
LEMMA GoneLeaves ==
    ASSUME TypeOK, HandshakeInv, EchoInv, SentInv, NEW c \in Clients,
           Close(c) \/ Reset(c), Gone(c), peer[c] = "open",
           \A d \in Clients : d # c => Kept(d)
    PROVE  Service!Leave(c)
<1>1. /\ UNCHANGED <<proc, clientListener>>
      /\ Running
      /\ sock[c] # "none" \/ received[c] # <<>>
  BY DEF Close, Reset, procVars
<1>2. ServicePhase = "open" /\ ServicePhase' = ServicePhase
  BY <1>1, OpenFor, OneClientStep
<1>3. c \in PresentClients /\ c \notin PresentClients'
  BY DEF PresentClients, Gone
<1>4. PresentClients' = PresentClients \ {c}
  BY <1>1, <1>3, OneClientStep DEF PresentClients
<1>5. ServiceGot' = ServiceGot
  BY DEF ServiceGot, Gone, Kept
<1>6. ServicePipe' = [ServicePipe EXCEPT ![c] = <<>>]
  <2>1. ServicePipe'[c] = <<>>
    BY <1>3 DEF ServicePipe
  <2>2. QED
    BY <1>1, <2>1, OneClientStep DEF ServicePipe
<1>7. QED
  BY <1>2, <1>3, <1>4, <1>5, <1>6 DEF Service!Leave

\* Writing to a client that is there is delivering.
LEMMA WriteIsDeliver ==
    ASSUME TypeOK, HandshakeInv, EchoInv, SentInv, NEW c \in Clients,
           WriteOut(c), Delivered(c), peer[c] = "open",
           \A d \in Clients : d # c => Kept(d)
    PROVE  Service!Deliver(c)
<1>1. UNCHANGED <<proc, clientListener>> /\ Running /\ output[c] # <<>>
  BY DEF WriteOut, Writable, procVars
<1>2. ServicePhase = "open" /\ ServicePhase' = ServicePhase
  BY <1>1, OpenFor, OneClientStep
<1>3. PICK k \in 1 .. Len(InTransit(c)) :
          /\ received'[c] = received[c] \o SubSeq(InTransit(c), 1, k)
          /\ InTransit(c)' = SubSeq(InTransit(c), k + 1, Len(InTransit(c)))
          /\ UNCHANGED <<sent[c], input[c], peer[c]>>
  BY DEF Delivered
<1>4. PresentClients' = PresentClients /\ c \in PresentClients
  BY <1>3 DEF PresentClients, Kept
<1>5. ServiceGot[c] = received[c] /\ ServicePipe[c] = InTransit(c)
  BY <1>4 DEF ServiceGot, ServicePipe
<1>6. ServiceGot'[c] = received'[c] /\ ServicePipe'[c] = InTransit(c)'
  BY <1>4 DEF ServiceGot, ServicePipe
<1>7. ServiceGot' = [ServiceGot EXCEPT
                         ![c] = ServiceGot[c] \o SubSeq(ServicePipe[c], 1, k)]
  BY <1>1, <1>3, <1>5, <1>6, OneClientStep DEF ServiceGot
<1>8. ServicePipe' =
          [ServicePipe EXCEPT
               ![c] = SubSeq(ServicePipe[c], k + 1, Len(ServicePipe[c]))]
  BY <1>1, <1>3, <1>5, <1>6, OneClientStep DEF ServicePipe
<1>9. QED
  BY <1>2, <1>3, <1>4, <1>5, <1>7, <1>8 DEF Service!Deliver

\* For any number of connections: gated implements the abstract service.
THEOREM GatedImplementsService == Spec => ServiceSpec
<1>1. Init => Service!Init
  <2> SUFFICES ASSUME Init PROVE Service!Init
    OBVIOUS
  <2>1. \A c \in Clients : c \in Conns
    BY DEF Conns
  <2>2. ServicePhase = "closed"
    BY DEF Init, ServicePhase, Ended
  <2>3. PresentClients = Clients
    BY <2>1 DEF Init, PresentClients
  <2>4. ServiceGot = [c \in Clients |-> <<>>]
    BY <2>1 DEF Init, ServiceGot
  <2>5. ServicePipe = [c \in Clients |-> <<>>]
    <3>1. (<<>> \o <<>>) \o <<>> = <<>>
      OBVIOUS
    <3>2. QED
      BY <2>1, <3>1 DEF Init, ServicePipe, InTransit
  <2>6. QED
    BY <2>2, <2>3, <2>4, <2>5 DEF Service!Init
<1>2. ASSUME TypeOK, HandshakeInv, EchoInv, SentInv, [Next]_vars
      PROVE  [Service!Next]_(Service!vars)
  <2>1. Drained
    BY <1>2 DEF EchoInv
  <2>2. CASE \/ gated_init
             \/ gated_start_returns
             \/ gamed_accept_error_cb
             \/ client_accept_error_cb
             \/ \E d \in Conns : Listen(d)
             \/ UNCHANGED vars
    <3>1. \A c \in Clients : Kept(c)
      BY <2>1, <2>2, AllKept
    <3>2. QED
      BY <1>2, <3>1, QuietService
  <2>3. ASSUME NEW d \in Conns,
               Peer(d) \/ Read(d) \/ ErrorEvent(d) \/ Write(d)
        PROVE  [Service!Next]_(Service!vars)
    <3>1. \A c \in Clients : c # d => Kept(c)
      BY <1>2, <2>1, <2>3, OthersKept
    <3>2. CASE d \notin Clients
      <4>1. \A c \in Clients : Kept(c)
        BY <3>1, <3>2
      <4>2. QED
        BY <1>2, <4>1, QuietService
    <3>3. CASE d \in Clients /\ Send(d)
      BY <1>2, <3>1, <3>3, SendSubmits DEF Service!Next
    <3>4. CASE /\ d \in Clients
               /\ Close(d) \/ Reset(d)
               /\ Gone(d)
               /\ peer[d] = "open"
      BY <1>2, <3>1, <3>4, GoneLeaves DEF Service!Next
    <3>5. CASE /\ d \in Clients
               /\ WriteOut(d)
               /\ Delivered(d)
               /\ peer[d] = "open"
      BY <1>2, <3>1, <3>5, WriteIsDeliver DEF Service!Next
    <3>6. CASE /\ d \in Clients
               /\ Kept(d) \/ (Gone(d) /\ peer[d] # "open")
      <4>1. \A c \in Clients : Kept(c) \/ (Gone(c) /\ peer[c] # "open")
        BY <3>1, <3>6
      <4>2. QED
        BY <1>2, <4>1, QuietService
    <3>7. QED
      BY <1>2, <2>1, <2>3, <3>2, <3>3, <3>4, <3>5, <3>6, OwnStep
  <2>4. QED
    BY <1>2, <2>2, <2>3 DEF Next
<1>3. TypeOK /\ HandshakeInv /\ EchoInv /\ SentInv /\ [Next]_vars
          => [Service!Next]_(Service!vars)
  BY <1>2
<1>4. QED
  BY <1>1, <1>3, TypeCorrect, HandshakeCorrect, EchoInvariant, SentInvariant,
     PTL DEF Spec, ServiceSpec, Service!Spec
=============================================================================
