---------------------------- MODULE GateService ----------------------------
(***************************************************************************)
(* What gated promises to the outside: it is closed until its game server  *)
(* has connected, then it offers every client an echo pipe that is FIFO    *)
(* and loses nothing while the client stays, until the process is down.    *)
(* Gated implements this specification (see the refinement in Gated).      *)
(***************************************************************************)
EXTENDS Integers, Sequences

CONSTANTS Clients,   \* the clients of the outer port
          MaxSend    \* how many words a client may send

VARIABLES phase,     \* "closed", "open" or "down"
          present,   \* the clients that have not gone away
          pipe,      \* pipe[c]: words of c that c has not got back yet
          got        \* got[c]: words c has got back

vars == <<phase, present, pipe, got>>

Words == Clients \X Nat

TypeOK == /\ phase \in {"closed", "open", "down"}
          /\ present \subseteq Clients
          /\ pipe \in [Clients -> Seq(Words)]
          /\ got \in [Clients -> Seq(Words)]

Init == /\ phase = "closed"
        /\ present = Clients
        /\ pipe = [c \in Clients |-> <<>>]
        /\ got = [c \in Clients |-> <<>>]

OpenService == /\ phase = "closed"
               /\ phase' = "open"
               /\ UNCHANGED <<present, pipe, got>>

Stop == /\ phase # "down"
        /\ phase' = "down"
        /\ UNCHANGED <<present, pipe, got>>

\* The words of c are numbered in the order they are sent.
NextWord(c) == <<c, Len(got[c]) + Len(pipe[c]) + 1>>

Submit(c) == /\ phase = "open"
             /\ c \in present
             /\ Len(got[c]) + Len(pipe[c]) < MaxSend
             /\ pipe' = [pipe EXCEPT ![c] = Append(@, NextWord(c))]
             /\ UNCHANGED <<phase, present, got>>

Deliver(c) ==
    /\ phase = "open"
    /\ \E k \in 1 .. Len(pipe[c]) :
          /\ got' = [got EXCEPT ![c] = @ \o SubSeq(pipe[c], 1, k)]
          /\ pipe' = [pipe EXCEPT ![c] = SubSeq(@, k + 1, Len(@))]
    /\ UNCHANGED <<phase, present>>

\* What a client that goes away has not got back is lost.
Leave(c) == /\ phase = "open"
            /\ c \in present
            /\ present' = present \ {c}
            /\ pipe' = [pipe EXCEPT ![c] = <<>>]
            /\ UNCHANGED <<phase, got>>

Next == \/ OpenService
        \/ Stop
        \/ \E c \in Clients : Submit(c) \/ Deliver(c) \/ Leave(c)

Spec == Init /\ [][Next]_vars

\* Every word of a client that stays comes back, unless the service goes down.
LiveSpec == Spec /\ \A c \in Clients : WF_vars(Deliver(c))
=============================================================================
