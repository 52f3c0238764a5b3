------------------------------- MODULE Gamed -------------------------------
(***************************************************************************)
(* The game server processes: main of src/src/main.c and src/src/gamed.c,  *)
(* with net_connect, net_new_connection and net_send_packet of network.c.  *)
(*                                                                         *)
(* A process goes through its start-up, which queues the auth packet on a  *)
(* connection that may not exist yet, and then runs its event loop.  What  *)
(* the network does is left open here: LhhServer joins it with gated.      *)
(***************************************************************************)
EXTENDS ConfigFile

CONSTANTS Procs,      \* the processes
          Argvs       \* their command lines: sequences of option letters

VARIABLES stage,      \* stage[p], see Stages
          link,       \* link[p]: its socket, see Links
          queued,     \* the processes with the packet in the output evbuffer
          stopping    \* the processes that have called event_base_loopexit

gamedVars == <<stage, link, queued, stopping>>

\* usage: main has returned 1; returned: the loop has ended; killed: by a
\* signal from outside.
GamedEnded ==
    {"usage", "exit1", "abort", "segv", "sigpipe", "returned", "killed"}

\* off: not started; init: in gamed_init; connected: socket_init is done;
\* loop: in event_base_dispatch.
Stages == {"off", "init", "connected", "loop"} \cup GamedEnded

\* connecting: EINPROGRESS; lost: the other end is closed or reset.
Links == {"none", "connecting", "up", "refused", "lost"}

Goto(p, s) == stage' = [stage EXCEPT ![p] = s]
SetLink(p, l) == link' = [link EXCEPT ![p] = l]

GamedInit == /\ stage = [p \in Procs |-> "off"]
             /\ link = [p \in Procs |-> "none"]
             /\ queued = {}
             /\ stopping = {}

-----------------------------------------------------------------------------
(* main.  The last of the options n (gated) and l (gamed) counts, any other *)
(* one ends the process, and without options two uninitialised function    *)
(* pointers are called.                                                    *)

RoleOf(argv) == IF \E i \in DOMAIN argv : argv[i] \notin {"n", "l"} THEN "usage"
                ELSE IF argv = <<>> THEN "garbage"
                ELSE IF argv[Len(argv)] = "n" THEN "gated" ELSE "gamed"

main(p) ==
    /\ stage[p] = "off"
    /\ \E argv \in Argvs :
          \/ RoleOf(argv) = "usage" /\ Goto(p, "usage")
          \/ RoleOf(argv) = "garbage" /\ Goto(p, "segv")
          \/ RoleOf(argv) = "gamed" /\ Goto(p, "init")
    /\ UNCHANGED <<link, queued, stopping>>

-----------------------------------------------------------------------------
(* gamed_init.                                                             *)

\* libevent_init and config_init with this file; libevent_init may find no
\* memory for the event base and luaL_newstate none for the Lua state.
ConfigEnds(file) == {"exit1", "segv"} \cup (Outcomes(file) \ {"ready"})

config_init_fails(p, file) ==
    /\ stage[p] = "init"
    /\ \E end \in ConfigEnds(file) : Goto(p, end)
    /\ UNCHANGED <<link, queued, stopping>>

\* A usable address: config_get_string and net_convert_addr assert it.
AddressKnown(file, addresses) == StringOf(file, "GATED_IP") \in addresses

connect_fails(p, file, addresses) ==
    /\ stage[p] = "init"
    /\ "ready" \in Outcomes(file)
    /\ \/ ~AddressKnown(file, addresses) /\ Goto(p, "abort")
       \/ AddressKnown(file, addresses) /\ Goto(p, "exit1")
    /\ UNCHANGED <<link, queued, stopping>>

\* socket_init: connect succeeds at once or is in progress (l), and the packet
\* goes to the output buffer, unless there is no memory for the connection
\* (NULL is dereferenced) or for the data (the result is only printed).
socket_init(p, file, addresses, l) ==
    /\ stage[p] = "init"
    /\ "ready" \in Outcomes(file)
    /\ AddressKnown(file, addresses)
    /\ SetLink(p, l)
    /\ \/ Goto(p, "connected") /\ queued' = queued \cup {p}
       \/ Goto(p, "connected") /\ UNCHANGED queued
       \/ Goto(p, "segv") /\ UNCHANGED queued
    /\ UNCHANGED stopping

\* No memory for the Lua state: luaL_openlibs is called with NULL.
vm_init(p) == /\ stage[p] = "connected"
              /\ Goto(p, "loop") \/ Goto(p, "segv")
              /\ UNCHANGED <<link, queued, stopping>>

-----------------------------------------------------------------------------
(* gamed_start: the event loop.                                            *)

Bug_WrittenAtOnce(p) ==
    /\ stage[p] \in {"connected", "loop"}
    /\ link[p] = "up"
    /\ p \in queued
    /\ queued' = queued \ {p}
    /\ UNCHANGED <<stage, link, stopping>>

Bug_PacketKept(p) == /\ stage[p] = "loop"
                     /\ link[p] = "up"
                     /\ p \in queued
                     /\ UNCHANGED gamedVars

\* The output buffer is written once the connection is there.
Transmit(p) == /\ stage[p] = "loop"
               /\ link[p] = "up"
               /\ p \in queued
               /\ queued' = queued \ {p}
               /\ UNCHANGED <<stage, link, stopping>>

Bug_ErrorOnlyLogged(p) ==
    /\ stage[p] = "loop"
    /\ p \notin stopping
    /\ link[p] = "refused" \/ link[p] = "lost"
    /\ UNCHANGED gamedVars

\* read() on a socket that is refused, reset or closed by gated.  Refused or
\* reset, the socket is also writable in this round: the write of a packet that
\* is still queued follows, and raises SIGPIPE.
gated_error_cb(p) ==
    /\ stage[p] = "loop"
    /\ p \notin stopping
    /\ \/ /\ link[p] \in {"refused", "lost"}
          /\ p \in queued
          /\ Goto(p, "sigpipe")
          /\ UNCHANGED stopping
       \/ /\ link[p] = "lost" \/ (link[p] = "refused" /\ p \notin queued)
          /\ stopping' = stopping \cup {p}
          /\ UNCHANGED stage
    /\ UNCHANGED <<link, queued>>

gamed_start_returns(p) == /\ stage[p] = "loop"
                          /\ p \in stopping
                          /\ Goto(p, "returned")
                          /\ UNCHANGED <<link, queued, stopping>>

Killed(p) == /\ stage[p] \in {"init", "connected", "loop"}
             /\ Goto(p, "killed")
             /\ UNCHANGED <<link, queued, stopping>>

\* What the process does by itself once it has been started.
Startup(p, file, addresses) ==
    \/ config_init_fails(p, file)
    \/ connect_fails(p, file, addresses)
    \/ vm_init(p)

Loop(p) == gated_error_cb(p) \/ gamed_start_returns(p)

GamedTypeOK == /\ stage \in [Procs -> Stages]
               /\ link \in [Procs -> Links]
               /\ queued \subseteq Procs
               /\ stopping \subseteq Procs
=============================================================================
