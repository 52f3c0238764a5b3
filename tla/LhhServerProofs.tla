--------------------------- MODULE LhhServerProofs ---------------------------
(***************************************************************************)
(* Theorems about LhhServer, for any number of game servers, silent        *)
(* connections and clients, and any configuration file.                    *)
(*                                                                         *)
(* The server is a gated whose peers are processes of their own: all that  *)
(* is proved of Gated holds of it.  What is added is the bookkeeping of    *)
(* the two ends of a connection, and with it the order of the start-up.    *)
(***************************************************************************)
EXTENDS LhhServer, GatedProofs

-----------------------------------------------------------------------------
(* Gated with these peers is gated.                                        *)

LEMMA GatedAloneSteps == GatedAlone => [Next]_vars
<1>1. GatedBoots => gated_init
  BY DEF GatedBoots
<1>2. ASSUME NEW c \in Conns, ClientPeer(c)
      PROVE  Peer(c)
  BY <1>2 DEF ClientPeer
<1>3. QED
  BY <1>1, <1>2 DEF GatedAlone, Next

LEMMA GamedStepOfGated ==
    ASSUME NEW p \in Gameds, GamedStep(p)
    PROVE  Connect(p) \/ SendAuth(p) \/ Close(p) \/ UNCHANGED vars
BY DEF GamedStep, GamedMain, GamedStartup, GamedLoop, GamedKilled, Here, GamedConnects,
       Established, GamedTransmits, GatedGone, GamedGone

LEMMA ServerStepOfGated == [ServerNext]_serverVars => [Next]_vars
<1>1. GatedStep => [Next]_vars
  BY GatedAloneSteps DEF GatedStep
<1>2. ASSUME NEW p \in Gameds, GamedStep(p)
      PROVE  [Next]_vars
  <2>1. p \in Conns
    BY DEF Conns, Inter
  <2>2. Peer(p) \/ UNCHANGED vars
    BY <1>2, GamedStepOfGated DEF Peer
  <2>3. QED
    BY <2>1, <2>2 DEF Next
<1>3. QED
  BY <1>1, <1>2 DEF ServerNext, serverVars

(* The gated of the whole server behaves as gated alone may: what the      *)
(* theorems about Gated say holds of it, whatever its game servers do.     *)
THEOREM ServerIsGated == ServerSpec => Spec
<1>1. ServerInit => Init
  BY DEF ServerInit
<1>2. QED
  BY <1>1, ServerStepOfGated, PTL DEF ServerSpec, Spec

-----------------------------------------------------------------------------
(* The two ends of the connection of a game server.                        *)

\* Before the event loop nothing has been sent, and before socket_init there
\* is nothing to send and nowhere to.  A connection that is lost or refused
\* never comes back.
EndsAgree(p) ==
    /\ link[p] = "up" => sock[p] # "none"
    /\ link[p] \in {"none", "connecting", "refused"} => sock[p] = "none"
    /\ peer[p] # "open" => link[p] = "lost"
    /\ stage[p] \in {"off", "init"} => link[p] = "none" /\ p \notin queued
    /\ p \in queued => sent[p] = 0
    /\ sent[p] > 0 => link[p] \in {"up", "lost"} /\ StartedUp(p)

ServerInv == /\ G!GamedTypeOK
             /\ file \in Files
             /\ \A p \in Gameds : EndsAgree(p)

\* What a step of gated, of a client or of a silent connection may do to a
\* connection of a game server.
LEMMA GatedKeepsEnds ==
    ASSUME TypeOK, GatedAlone, NEW p \in Gameds
    PROVE  /\ sock[p] = "none" => sock'[p] = "none"
           /\ sock[p] # "none" => sock'[p] # "none"
           /\ peer[p] = "open" => peer'[p] = "open"
           /\ sent'[p] = sent[p]
<1> DEFINE Stays == /\ sock[p] = "none" <=> sock'[p] = "none"
                    /\ peer[p] = "open" => peer'[p] = "open"
                    /\ sent'[p] = sent[p]
<1>1. /\ p \in Conns /\ p \notin Clients
      /\ sock \in [Conns -> {"none", "pending", "accepted", "orphan"}]
      /\ peer \in [Conns -> PeerStates]
      /\ sent \in [Conns -> Nat]
  BY ConnsAssumption DEF Conns, Inter, TypeOK, ConnTypes
<1>2. CASE \/ GatedBoots \/ gated_start_returns
           \/ gamed_accept_error_cb \/ client_accept_error_cb
  BY <1>2 DEF GatedBoots, gated_init, gated_start_returns, gamed_accept_error_cb,
              client_accept_error_cb, connVars, peerVars, vars
<1>3. ASSUME NEW c \in Conns, ClientPeer(c)
      PROVE  Stays
  <2>1. c # p
    BY <1>3 DEF ClientPeer
  <2>2. CASE Connect(c)
    BY <1>1, <2>1, <2>2 DEF Connect, peerVars
  <2>3. CASE Send(c)
    BY <1>1, <2>1, <2>3 DEF Send, connVars
  <2>4. CASE Close(c)
    BY <1>1, <2>1, <2>4 DEF Close, connVars
  <2>5. CASE Reset(c)
    BY <1>1, <2>1, <2>5 DEF Reset, connVars
  <2>6. ~(c \in Gameds)
    BY <1>3 DEF ClientPeer
  <2>7. QED
    BY <1>3, <2>2, <2>3, <2>4, <2>5, <2>6 DEF ClientPeer, Peer
<1>4. ASSUME NEW c \in Conns, Listen(c)
      PROVE  Stays
  BY <1>1, <1>4, ListenAccepts DEF net_new_connection, peerVars
<1>5. ASSUME NEW c \in Conns, Read(c)
      PROVE  Stays
  BY <1>5 DEF Read, gamed_read_cb, client_read_cb, SocketRead, connVars
<1>6. ASSUME NEW c \in Conns, ErrorEvent(c)
      PROVE  Stays
  BY <1>1, <1>6 DEF ErrorEvent, gamed_error_cb, client_error_cb, ReadError,
                    ReadEnd, ReadFails
<1>7. ASSUME NEW c \in Conns, Write(c)
      PROVE  Stays
  BY <1>1, <1>7 DEF Write, WriteOut, WriteError, WriteSigpipe, connVars, peerVars
<1>8. QED
  BY SMTT(30), <1>2, <1>3, <1>4, <1>5, <1>6, <1>7 DEF GatedAlone

LEMMA ConnectEnds ==
    ASSUME TypeOK, NEW p \in Gameds, Connect(p)
    PROVE  /\ sock[p] = "none" /\ sock'[p] # "none"
           /\ \A q \in Gameds \ {p} : sock'[q] = sock[q]
           /\ peer' = peer /\ sent' = sent
BY DEF TypeOK, ConnTypes, Conns, Inter, Connect, peerVars

LEMMA SendAuthEnds ==
    ASSUME TypeOK, NEW p \in Gameds, SendAuth(p)
    PROVE  /\ \A q \in Gameds \ {p} : sent'[q] = sent[q]
           /\ peer' = peer /\ sock' = sock
BY DEF TypeOK, ConnTypes, Conns, Inter, SendAuth, connVars

LEMMA CloseEnds ==
    ASSUME TypeOK, NEW p \in Gameds, Close(p)
    PROVE  /\ \A q \in Gameds \ {p} : peer'[q] = peer[q]
           /\ sock' = sock /\ sent' = sent
BY DEF TypeOK, ConnTypes, Conns, Inter, Close, connVars

LEMMA InitServer == ServerInit => ServerInv
<1> SUFFICES ASSUME ServerInit
             PROVE  ServerInv
  OBVIOUS
<1>1. G!GamedTypeOK
  BY DEF ServerInit, G!GamedInit, G!GamedTypeOK, G!Stages, G!Links
<1>2. \A p \in Gameds : EndsAgree(p)
  BY DEF ServerInit, Init, G!GamedInit, EndsAgree, Conns, Inter
<1>3. QED
  BY <1>1, <1>2 DEF ServerInit, ServerInv

-----------------------------------------------------------------------------
(* The steps.                                                              *)

LEMMA GatedKeepsServer ==
    ASSUME TypeOK, ServerInv, GatedStep
    PROVE  ServerInv'
<1>1. GatedAlone /\ UNCHANGED <<file, stage, link, queued, stopping>>
  BY DEF GatedStep, OfGated, gamedVars
<1>2. G!GamedTypeOK' /\ file' \in Files
  BY <1>1 DEF ServerInv, G!GamedTypeOK
<1>3. ASSUME NEW p \in Gameds
      PROVE  EndsAgree(p)'
  <2>1. /\ sock[p] = "none" => sock'[p] = "none"
        /\ sock[p] # "none" => sock'[p] # "none"
        /\ peer[p] = "open" => peer'[p] = "open"
        /\ sent'[p] = sent[p]
    BY <1>1, GatedKeepsEnds DEF ServerInv
  <2>2. EndsAgree(p)
    BY DEF ServerInv
  <2>3. QED
    BY <1>1, <2>1, <2>2 DEF EndsAgree, StartedUp
<1>4. QED
  BY <1>2, <1>3 DEF ServerInv

\* A step of a game server concerns its own connection only.
LEMMA OthersAgree ==
    ASSUME NEW q, EndsAgree(q),
           link'[q] = link[q], stage'[q] = stage[q], q \in queued' <=> q \in queued,
           sock'[q] = sock[q], peer'[q] = peer[q], sent'[q] = sent[q]
    PROVE  EndsAgree(q)'
BY DEF EndsAgree, StartedUp

\* Steps that leave gated and the connection alone.
LEMMA InnerStep ==
    ASSUME TypeOK, ServerInv, NEW p \in Gameds,
           GamedMain(p) \/ GamedStartup(p) \/ GamedLoop(p) \/ GamedKilled(p)
    PROVE  ServerInv'
<1>1. /\ UNCHANGED <<vars, file, link, queued>>
      /\ \E s \in G!Stages :
            /\ stage' = [stage EXCEPT ![p] = s]
            /\ \/ s = "init" /\ stage[p] = "off"
               \/ s \notin {"off", "init"}
            /\ StartedUp(p) => s \in {"sigpipe", "returned", "killed", "loop"}
      /\ stopping' \subseteq stopping \cup {p}
  <2>1. CASE GamedMain(p)
    BY <2>1 DEF GamedMain, Here, G!main, G!Goto, G!Stages, G!GamedEnded, StartedUp
  <2>2. CASE GamedStartup(p)
    <3>1. CASE G!config_init_fails(p, file)
      BY <2>2, <3>1
         DEF GamedStartup, Here, G!config_init_fails, G!ConfigEnds, G!Outcomes, G!Goto,
             G!Stages, G!GamedEnded, StartedUp
    <3>2. CASE G!connect_fails(p, file, Addresses)
      BY <2>2, <3>2
         DEF GamedStartup, Here, G!connect_fails, G!Goto, G!Stages, G!GamedEnded,
             StartedUp
    <3>3. CASE G!vm_init(p)
      BY <2>2, <3>3
         DEF GamedStartup, Here, G!vm_init, G!Goto, G!Stages, G!GamedEnded, StartedUp
    <3>4. QED
      BY <2>2, <3>1, <3>2, <3>3 DEF GamedStartup, G!Startup
  <2>3. CASE GamedLoop(p)
    <3>1. stage[p] = "loop" /\ stage \in [Gameds -> G!Stages]
      BY <2>3 DEF GamedLoop, G!Loop, G!gated_error_cb, G!gamed_start_returns, ServerInv,
                  G!GamedTypeOK
    <3>2. "loop" \in G!Stages /\ "sigpipe" \in G!Stages /\ "returned" \in G!Stages
      BY DEF G!Stages, G!GamedEnded
    <3>3. stage = [stage EXCEPT ![p] = "loop"]
      BY <3>1
    <3>4. QED
      BY <2>3, <3>1, <3>2, <3>3
         DEF GamedLoop, Here, G!Loop, G!gated_error_cb, G!gamed_start_returns, G!Goto
  <2>4. CASE GamedKilled(p)
    BY <2>4 DEF GamedKilled, Here, G!Killed, G!Goto, G!Stages, G!GamedEnded
  <2>5. QED
    BY <2>1, <2>2, <2>3, <2>4
<1>2. G!GamedTypeOK' /\ file' \in Files
  BY <1>1 DEF ServerInv, G!GamedTypeOK
<1>3. UNCHANGED <<sock, peer, sent>>
  BY <1>1 DEF vars, connVars, peerVars
<1>4. EndsAgree(p)'
  BY <1>1, <1>3 DEF ServerInv, G!GamedTypeOK, EndsAgree, StartedUp
<1>5. ASSUME NEW q \in Gameds, q # p
      PROVE  EndsAgree(q)'
  BY <1>1, <1>3, <1>5, OthersAgree DEF ServerInv, G!GamedTypeOK
<1>6. QED
  BY <1>2, <1>4, <1>5 DEF ServerInv

LEMMA GamedConnectsKeeps ==
    ASSUME TypeOK, ServerInv, NEW p \in Gameds, GamedConnects(p)
    PROVE  ServerInv'
<1>1. PICK l \in {"connecting", "up"} :
         /\ G!socket_init(p, file, Addresses, l)
         /\ \/ l = "connecting" /\ UNCHANGED vars
            \/ l = "up" /\ Connect(p)
         /\ UNCHANGED file
  BY DEF GamedConnects, Here
<1>2. PICK s \in {"connected", "segv"} :
         /\ stage[p] = "init" /\ stage' = [stage EXCEPT ![p] = s]
         /\ link' = [link EXCEPT ![p] = l]
         /\ queued' = queued \cup {p} \/ queued' = queued
         /\ stopping' = stopping
  BY <1>1 DEF G!socket_init, G!Goto, G!SetLink
<1>3. G!GamedTypeOK' /\ file' \in Files
  BY <1>1, <1>2 DEF ServerInv, G!GamedTypeOK, G!Stages, G!GamedEnded, G!Links
<1>4. /\ UNCHANGED <<peer, sent>>
      /\ l = "connecting" => sock'[p] = sock[p]
      /\ l = "up" => sock'[p] # "none"
      /\ \A q \in Gameds \ {p} : sock'[q] = sock[q]
  <2>1. CASE l = "connecting"
    BY <1>1, <2>1 DEF vars, connVars, peerVars
  <2>2. CASE l = "up"
    BY <1>1, <2>2, ConnectEnds DEF ServerInv
  <2>3. QED
    BY <2>1, <2>2
<1>5. EndsAgree(p)'
  <2>1. link'[p] = l /\ stage'[p] = s
    BY <1>2 DEF ServerInv, G!GamedTypeOK
  <2>2. EndsAgree(p) /\ sent[p] \in Nat
    BY DEF ServerInv, TypeOK, ConnTypes, Conns, Inter
  <2>3. sock[p] = "none" /\ peer[p] = "open" /\ sent[p] = 0
    BY <1>2, <2>2 DEF EndsAgree
  <2>4. QED
    BY <1>4, <2>1, <2>3 DEF EndsAgree
<1>6. ASSUME NEW q \in Gameds, q # p
      PROVE  EndsAgree(q)'
  BY <1>2, <1>4, <1>6, OthersAgree DEF ServerInv, G!GamedTypeOK
<1>7. QED
  BY <1>3, <1>5, <1>6 DEF ServerInv

LEMMA EstablishedKeeps ==
    ASSUME TypeOK, ServerInv, NEW p \in Gameds, Established(p)
    PROVE  ServerInv'
<1>1. PICK l \in {"up", "refused"} :
         /\ link[p] = "connecting" /\ link' = [link EXCEPT ![p] = l]
         /\ \/ l = "refused" /\ UNCHANGED vars
            \/ l = "up" /\ Connect(p)
         /\ UNCHANGED <<file, stage, queued, stopping>>
  BY DEF Established, G!SetLink
<1>2. G!GamedTypeOK' /\ file' \in Files
  BY <1>1 DEF ServerInv, G!GamedTypeOK, G!Links
<1>3. /\ UNCHANGED <<peer, sent>>
      /\ l = "refused" => sock'[p] = sock[p]
      /\ l = "up" => sock'[p] # "none"
      /\ \A q \in Gameds \ {p} : sock'[q] = sock[q]
  <2>1. CASE l = "refused"
    BY <1>1, <2>1 DEF vars, connVars, peerVars
  <2>2. CASE l = "up"
    BY <1>1, <2>2, ConnectEnds DEF ServerInv
  <2>3. QED
    BY <2>1, <2>2
<1>4. EndsAgree(p)'
  <2>1. link'[p] = l
    BY <1>1 DEF ServerInv, G!GamedTypeOK
  <2>2. EndsAgree(p)
    BY DEF ServerInv
  <2>3. QED
    BY <1>1, <1>3, <2>1, <2>2 DEF EndsAgree
<1>5. ASSUME NEW q \in Gameds, q # p
      PROVE  EndsAgree(q)'
  BY <1>1, <1>3, <1>5, OthersAgree DEF ServerInv, G!GamedTypeOK
<1>6. QED
  BY <1>2, <1>4, <1>5 DEF ServerInv

LEMMA GamedTransmitsKeeps ==
    ASSUME TypeOK, ServerInv, NEW p \in Gameds, GamedTransmits(p)
    PROVE  ServerInv'
<1>1. /\ stage[p] = "loop" /\ link[p] = "up" /\ p \in queued
      /\ queued' = queued \ {p}
      /\ UNCHANGED <<file, stage, link, stopping>>
      /\ SendAuth(p) \/ UNCHANGED vars
  BY DEF GamedTransmits, G!Transmit
<1>2. G!GamedTypeOK' /\ file' \in Files
  BY <1>1 DEF ServerInv, G!GamedTypeOK
<1>3. UNCHANGED <<peer, sock>> /\ \A q \in Gameds \ {p} : sent'[q] = sent[q]
  <2>1. CASE UNCHANGED vars
    BY <2>1 DEF vars, connVars, peerVars
  <2>2. QED
    BY <1>1, <2>1, SendAuthEnds DEF ServerInv
<1>4. EndsAgree(p)'
  BY <1>1, <1>3 DEF ServerInv, EndsAgree, StartedUp
<1>5. ASSUME NEW q \in Gameds, q # p
      PROVE  EndsAgree(q)'
  BY <1>1, <1>3, <1>5, OthersAgree DEF ServerInv
<1>6. QED
  BY <1>2, <1>4, <1>5 DEF ServerInv

LEMMA GoneKeeps ==
    ASSUME TypeOK, ServerInv, NEW p \in Gameds, GatedGone(p) \/ GamedGone(p)
    PROVE  ServerInv'
<1>1. /\ link[p] = "up" /\ link' = [link EXCEPT ![p] = "lost"]
      /\ UNCHANGED <<file, stage, queued, stopping>>
      /\ Close(p) \/ UNCHANGED vars
  BY DEF GatedGone, GamedGone, G!SetLink
<1>2. G!GamedTypeOK' /\ file' \in Files
  BY <1>1 DEF ServerInv, G!GamedTypeOK, G!Links
<1>3. UNCHANGED <<sock, sent>> /\ \A q \in Gameds \ {p} : peer'[q] = peer[q]
  <2>1. CASE UNCHANGED vars
    BY <2>1 DEF vars, connVars, peerVars
  <2>2. QED
    BY <1>1, <2>1, CloseEnds DEF ServerInv
<1>4. EndsAgree(p)'
  <2>1. link'[p] = "lost"
    BY <1>1 DEF ServerInv, G!GamedTypeOK
  <2>2. QED
    BY <1>1, <1>3, <2>1 DEF ServerInv, EndsAgree, StartedUp
<1>5. ASSUME NEW q \in Gameds, q # p
      PROVE  EndsAgree(q)'
  BY <1>1, <1>3, <1>5, OthersAgree DEF ServerInv, G!GamedTypeOK
<1>6. QED
  BY <1>2, <1>4, <1>5 DEF ServerInv

LEMMA ServerInvariant == ServerSpec => []ServerInv
<1>1. ASSUME TypeOK, ServerInv, [ServerNext]_serverVars
      PROVE  ServerInv'
  <2>1. CASE UNCHANGED serverVars
    <3>1. UNCHANGED <<file, stage, link, queued, stopping, sock, peer, sent>>
      BY <2>1 DEF serverVars, gamedVars, vars, connVars, peerVars
    <3>2. G!GamedTypeOK' /\ file' \in Files
      BY <1>1, <3>1 DEF ServerInv, G!GamedTypeOK
    <3>3. \A p \in Gameds : EndsAgree(p)'
      BY <1>1, <3>1 DEF ServerInv, EndsAgree, StartedUp
    <3>4. QED
      BY <3>2, <3>3 DEF ServerInv
  <2>2. QED
    BY <1>1, <2>1, GatedKeepsServer, InnerStep, GamedConnectsKeeps, EstablishedKeeps,
       GamedTransmitsKeeps, GoneKeeps DEF ServerNext, GamedStep
<1>2. QED
  BY InitServer, ServerIsGated, TypeCorrect, <1>1, PTL DEF ServerSpec

-----------------------------------------------------------------------------
(* The theorems.                                                           *)

(* What the game servers know of their connections agrees with what gated  *)
(* knows, and a packet is queued or sent, never both (socket_init,         *)
(* net_send_packet and the event loop of gamed.c).                         *)
THEOREM ServerTypes == ServerSpec => []ServerTypeOK
<1>1. ServerInv => ServerTypeOK
  <2> SUFFICES ASSUME ServerInv
               PROVE  ServerTypeOK
    OBVIOUS
  <2>1. ASSUME NEW p \in Gameds
        PROVE  /\ link[p] = "up" => sock[p] # "none" /\ peer[p] = "open"
               /\ p \in queued => sent[p] = 0
               /\ sent[p] > 0 => link[p] \in {"up", "lost"}
    BY DEF ServerInv, EndsAgree
  <2>2. QED
    BY <2>1 DEF ServerInv, ServerTypeOK
<1>2. QED
  BY ServerInvariant, <1>1, PTL

(* "First connect gamed, then provide service": when gated has opened its  *)
(* outer port some game server has come through all of gamed_init.         *)
THEOREM ServiceNeedsGamed == ServerSpec => []ServiceAfterStartup
<1>1. ServerInv /\ ServiceAfterGamed => ServiceAfterStartup
  BY DEF ServerInv, EndsAgree, ServiceAfterGamed, ServiceAfterStartup
<1>2. QED
  BY ServerInvariant, ServerIsGated, GamedBeforeService, <1>1, PTL

(* The server as a whole gives its clients the echo service: whatever the  *)
(* game servers and their start-up do, each client gets back what it sent, *)
(* in order, once a game server has connected (client_read_cb, GateService).*)
THEOREM ServerImplementsService == ServerSpec => ServiceSpec
BY ServerIsGated, GatedImplementsService
=============================================================================
