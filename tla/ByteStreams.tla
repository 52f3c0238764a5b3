---------------------------- MODULE ByteStreams ----------------------------
(***************************************************************************)
(* What the evbuffers of a bufferevent promise: two queues of bytes, one   *)
(* of which can be moved to the end of the other.  EvBuffer implements     *)
(* this specification.                                                     *)
(***************************************************************************)
EXTENDS Integers, Sequences

CONSTANT PacketSize

VARIABLES in, out,   \* the bytes of the two queues
          come       \* how many bytes have come

NewBytes(n) == [i \in 1 .. n |-> come + i]

Without(stream, n) == SubSeq(stream, n + 1, Len(stream))

Init == in = <<>> /\ out = <<>> /\ come = 0

Receive == /\ come' > come
           /\ in' = in \o NewBytes(come' - come)
           /\ UNCHANGED out

Put == /\ come' = come + PacketSize
       /\ out' = out \o NewBytes(PacketSize)
       /\ UNCHANGED in

Take == in' = Without(in, PacketSize) /\ UNCHANGED <<out, come>>

Move == out' = out \o in /\ in' = <<>> /\ UNCHANGED come

Send == /\ \E n \in 1 .. Len(out) : out' = Without(out, n)
        /\ UNCHANGED <<in, come>>

Next == Receive \/ Put \/ Take \/ Move \/ Send

Spec == Init /\ [][Next]_<<in, out, come>>
=============================================================================
