----------------------------- MODULE LhhServer -----------------------------
(***************************************************************************)
(* The server as a whole: one gated process (Gated) and the game server    *)
(* processes (Gamed) that connect to its inter port, all started with the  *)
(* same configuration file.  A game server that is started again is one    *)
(* more process.                                                           *)
(*                                                                         *)
(* Gated lets a game server connect, send its packet and go away at any    *)
(* time; here it does so because its process does.  The network carries    *)
(* each event when it likes: a connection is established, refused or lost  *)
(* in a step of its own.                                                   *)
(***************************************************************************)
EXTENDS Gated

CONSTANTS NonStringKeys, LuaGlobals, INT_MAX,
          Files,       \* configuration files, with distinct ports
          Addresses,   \* the texts that inet_aton accepts
          Argvs        \* command lines of the game servers

VARIABLES file, stage, link, queued, stopping

G == INSTANCE Gamed WITH Procs <- Gameds

gamedVars == <<stage, link, queued, stopping>>
serverVars == <<vars, file, gamedVars>>

ServerInit == /\ Init
              /\ G!GamedInit
              /\ file \in Files

Configured == "ready" \in G!Outcomes(file)

-----------------------------------------------------------------------------
(* Gated, its clients and silent connections.                              *)

GatedBoots == /\ gated_init
              /\ proc' = "loop" => Configured

\* A port that the file does not name is port 0: the kernel picks one, which
\* nobody knows.
ClientPeer(c) == /\ c \notin Gameds
                 /\ Peer(c)
                 /\ sock[c] = "none" => G!IntOf(file, "OUTER_GATED_PORT") # 0

GatedAlone == \/ GatedBoots
              \/ gated_start_returns
              \/ gamed_accept_error_cb
              \/ client_accept_error_cb
              \/ \E c \in Conns : \/ Listen(c) \/ Read(c)
                                  \/ ErrorEvent(c) \/ Write(c)
                                  \/ ClientPeer(c)

OfGated == UNCHANGED <<file, gamedVars>>

GatedStep == GatedAlone /\ OfGated

-----------------------------------------------------------------------------
(* The game servers.                                                       *)

Here == UNCHANGED <<vars, file>>

Listening == Running /\ G!IntOf(file, "INTER_GATED_PORT") # 0

GamedMain(p) == G!main(p) /\ Here
GamedStartup(p) == G!Startup(p, file, Addresses) /\ Here
GamedLoop(p) == G!Loop(p) /\ Here
GamedKilled(p) == G!Killed(p) /\ Here

\* connect is in progress, or succeeds at once.
GamedConnects(p) ==
    \/ G!socket_init(p, file, Addresses, "connecting") /\ Here
    \/ /\ Listening
       /\ G!socket_init(p, file, Addresses, "up")
       /\ Connect(p)
       /\ UNCHANGED file

\* The connection in progress gets through, or it is refused or times out.
Established(p) ==
    /\ link[p] = "connecting"
    /\ stage[p] \notin G!GamedEnded
    /\ \/ Listening /\ Connect(p) /\ G!SetLink(p, "up")
       \/ UNCHANGED vars /\ G!SetLink(p, "refused")
    /\ UNCHANGED <<file, stage, queued, stopping>>

\* The packet goes to gated, or to nobody when gated has just ended.
GamedTransmits(p) ==
    /\ G!Transmit(p)
    /\ SendAuth(p) \/ (proc \in Ended /\ UNCHANGED vars)
    /\ UNCHANGED file

\* Gated has ended, and the kernel has closed or reset its connections.
GatedGone(p) == /\ proc \in Ended
                /\ link[p] = "up"
                /\ stage[p] \notin G!GamedEnded
                /\ G!SetLink(p, "lost")
                /\ UNCHANGED <<vars, file, stage, queued, stopping>>

\* The process has ended, and the kernel has closed its connection.
GamedGone(p) == /\ stage[p] \in G!GamedEnded
                /\ link[p] = "up"
                /\ Close(p)
                /\ G!SetLink(p, "lost")
                /\ UNCHANGED <<file, stage, queued, stopping>>

GamedStep(p) == \/ GamedMain(p) \/ GamedStartup(p) \/ GamedConnects(p)
                \/ Established(p) \/ GamedTransmits(p)
                \/ GamedLoop(p) \/ GamedKilled(p)
                \/ GatedGone(p) \/ GamedGone(p)

ServerNext == GatedStep \/ \E p \in Gameds : GamedStep(p)

ServerSpec == ServerInit /\ [][ServerNext]_serverVars

-----------------------------------------------------------------------------
(* Processes that have been started keep running, event loops serve what   *)
(* stays ready, and the network decides about every connection in the end. *)
(* Nobody has to start a game server or to kill one.                       *)
ServerFairness ==
    /\ WF_serverVars(GatedBoots /\ OfGated)
    /\ WF_serverVars(gated_start_returns /\ OfGated)
    /\ WF_serverVars(NoDescriptor /\ OfGated)
    /\ \A c \in Conns : /\ WF_serverVars(Listen(c) /\ OfGated)
                        /\ WF_serverVars(Read(c) /\ OfGated)
                        /\ WF_serverVars(AtEnd(c) /\ OfGated)
                        /\ WF_serverVars(Write(c) /\ OfGated)
    /\ \A p \in Gameds :
          /\ WF_serverVars(GamedStartup(p) \/ GamedConnects(p))
          /\ WF_serverVars(Established(p))
          /\ WF_serverVars(GamedTransmits(p))
          /\ WF_serverVars(GamedLoop(p))
          /\ WF_serverVars(GatedGone(p))
          /\ WF_serverVars(GamedGone(p))

FairServerSpec == ServerSpec /\ ServerFairness

-----------------------------------------------------------------------------
(* Properties.                                                             *)

(* Types, and what the two sides know of a connection agrees: a process    *)
(* with a connection is in gated's accept queue or accepted, and its       *)
(* packet is in the output buffer or sent, never both.                     *)
ServerTypeOK ==
    /\ G!GamedTypeOK
    /\ file \in Files
    /\ \A p \in Gameds :
          /\ link[p] = "up" => sock[p] # "none" /\ peer[p] = "open"
          /\ p \in queued => sent[p] = 0
          /\ sent[p] > 0 => link[p] \in {"up", "lost"}

(* "First connect gamed, then provide service": gated opens the outer port *)
(* only when some game server has come through all of gamed_init.  The     *)
(* packet is queued before vm_init, but leaves with the event loop; a game *)
(* server whose Lua machine cannot be made never opens the service.        *)
StartedUp(p) == stage[p] \in {"loop", "sigpipe", "returned", "killed"}

ServiceAfterStartup ==
    clientListener => \E p \in Gameds : sent[p] > 0 /\ StartedUp(p)

(* A game server that has queued its packet is not left waiting: the outer *)
(* port opens, or it ends, or gated ends; unless gated had no memory for   *)
(* its connection, which it then keeps open and never serves.              *)
QueuedPacketServed ==
    \A p \in Gameds :
        stage[p] = "loop" /\ p \in queued ~>
            \/ clientListener
            \/ stage[p] \in G!GamedEnded
            \/ proc \in Ended
            \/ sock[p] = "orphan"

(* When gated has ended every game server that is starting or running ends *)
(* too: by the error callback, or by SIGPIPE if its packet was not written.*)
GamedFollowsGated ==
    \A p \in Gameds :
        proc \in Ended /\ stage[p] \in {"init", "connected", "loop"} ~>
            stage[p] \in G!GamedEnded

(* When a game server that gated has accepted ends, however, gated ends.   *)
GatedFollowsGamed ==
    \A p \in Gameds :
        sock[p] = "accepted" /\ stage[p] \in G!GamedEnded ~> proc \in Ended
=============================================================================
