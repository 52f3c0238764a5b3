------------------------------ MODULE EvBuffer ------------------------------
(***************************************************************************)
(* The two evbuffers of a bufferevent (src/3rd/libevent/buffer.c), as the  *)
(* servers use them: the socket is read into the input; client_read_cb     *)
(* moves all of the input to the output, gamed_read_auth_packet takes a    *)
(* packet out of it, net_send_packet puts one into a fresh output; the     *)
(* output is written to the socket.  The servers have one thread, so that  *)
(* every call is one step.                                                 *)
(*                                                                         *)
(* An evbuffer is a list of chains, each a piece of memory of which some   *)
(* part holds data, with two values kept aside: total_len and              *)
(* last_with_datap, here the place of its chain in the list.  The chains   *)
(* behind it are empty: a read makes room for what the socket announces    *)
(* and may get less.  Bytes are numbered in the order in which they come.  *)
(***************************************************************************)
EXTENDS Integers, Sequences, FiniteSets

CONSTANTS MIN_BUFFER_SIZE,  \* the smallest allocation (1024)
          ChainSize,        \* EVBUFFER_CHAIN_SIZE
          MaxRead,          \* EVBUFFER_MAX_READ (4096)
          ReadVecs,         \* NUM_READ_IOVEC (4)
          PacketSize,       \* sizeof(auth_packet_t)
          MaxBytes,         \* bound: bytes that come
          MaxOom            \* bound: allocations that fail

ASSUME EvBufferAssumption ==
    /\ {ChainSize, MaxRead, PacketSize} \subseteq Nat \ {0}
    /\ MIN_BUFFER_SIZE \in Nat /\ MIN_BUFFER_SIZE > ChainSize
    /\ ReadVecs \in Nat /\ ReadVecs >= 2
    /\ {MaxBytes, MaxOom} \subseteq Nat

VARIABLES input, output,  \* the two evbuffers
          come,           \* how many bytes have come
          oom             \* allocations that have failed

evbufferVars == <<input, output, come, oom>>

Empty == [chains |-> <<>>, last_with_data |-> 1, total_len |-> 0]

EvBufferInit == input = Empty /\ output = Empty /\ come = 0 /\ oom = 0

-----------------------------------------------------------------------------
(* Chains.                                                                 *)

Least(set) == CHOOSE i \in set : \A j \in set : i <= j

\* The allocation is the smallest one, doubled until it is large enough.
BufferLen(size) ==
    LET to_alloc[i \in 0 .. size] ==
            IF i = 0 THEN MIN_BUFFER_SIZE ELSE 2 * to_alloc[i - 1]
        fits == {i \in 0 .. size : to_alloc[i] >= size + ChainSize}
    IN  to_alloc[Least(fits)] - ChainSize

evbuffer_chain_new(size) ==
    [buffer_len |-> BufferLen(size), misalign |-> 0, data |-> <<>>]

CHAIN_SPACE_LEN(chain) == chain.buffer_len - (chain.misalign + Len(chain.data))

\* The bytes of the first i chains, and those of all.
Upto(chains) ==
    LET bytes[i \in 0 .. Len(chains)] ==
            IF i = 0 THEN <<>> ELSE bytes[i - 1] \o chains[i].data
    IN  bytes

Bytes(chains) == Upto(chains)[Len(chains)]

Arriving(n) == [i \in 1 .. n |-> come + i]

-----------------------------------------------------------------------------
(* Making room at the end.                                                 *)

\* The room in the chains from last_with_data to the i-th.
Room(buf) ==
    LET room[i \in 0 .. Len(buf.chains)] ==
            IF i < buf.last_with_data THEN 0
            ELSE room[i - 1] + CHAIN_SPACE_LEN(buf.chains[i])
    IN  room

Used(buf, i) ==
    {j \in buf.last_with_data .. i : CHAIN_SPACE_LEN(buf.chains[j]) > 0}

\* The last chain that _evbuffer_expand_fast looks at: they have room for size
\* bytes by then, or ReadVecs of them have room.  (A chain that is empty has
\* never held data: to realign it changes nothing.)
LastExamined(buf, size) ==
    LET stops == {i \in buf.last_with_data .. Len(buf.chains) :
                     Room(buf)[i] >= size \/ Cardinality(Used(buf, i)) = ReadVecs}
    IN  IF stops = {} THEN Len(buf.chains) ELSE Least(stops)

HasRoom(buf, size) == Room(buf)[LastExamined(buf, size)] >= size

\* Without room, one chain is added behind the others; but when ReadVecs chains
\* have room already it takes the place of all the empty ones.
Kept(buf, size) ==
    IF Cardinality(Used(buf, LastExamined(buf, size))) < ReadVecs THEN buf.chains
    ELSE IF buf.chains[buf.last_with_data].data = <<>> THEN <<>>
    ELSE SubSeq(buf.chains, 1, buf.last_with_data)

WithKept(buf, size) == [buf EXCEPT !.chains = Kept(buf, size)]

_evbuffer_expand_fast(buf, size) ==
    LET kept == WithKept(buf, size)
        avail == Room(kept)[Len(kept.chains)]
    IN  IF HasRoom(buf, size) THEN buf
        ELSE [kept EXCEPT !.chains = Append(@, evbuffer_chain_new(size - avail))]

-----------------------------------------------------------------------------
(* The operations, as what they make of an evbuffer.                       *)

\* readv and what follows it: the bytes go where there is room, in order, and
\* last_with_datap to the chain that takes the last of them.
Filled(buf, bytes) ==
    LET places == buf.last_with_data .. Len(buf.chains)
        taken(i) == Least({Len(bytes), Room(buf)[i]})
        part(i) == SubSeq(bytes, taken(i - 1) + 1, taken(i))
    IN  [chains |-> [i \in DOMAIN buf.chains |->
                        IF i \in places THEN [buf.chains[i] EXCEPT !.data = @ \o part(i)]
                        ELSE buf.chains[i]],
         last_with_data |-> Least({i \in places : Room(buf)[i] >= Len(bytes)}),
         total_len |-> buf.total_len + Len(bytes)]

\* The chains that are used up are freed; when last_with_datap pointed at one of
\* them or was in it (&chain->next), it becomes &buf->first.
evbuffer_drain(buf, len) ==
    LET first == Least({i \in DOMAIN buf.chains : Len(Upto(buf.chains)[i]) > len})
        gone == first - 1
        remaining == len - Len(Upto(buf.chains)[gone])
        rest == SubSeq(buf.chains, first, Len(buf.chains))
    IN  IF len >= buf.total_len THEN Empty
        ELSE [chains |-> [rest EXCEPT ![1].misalign = @ + remaining,
                                      ![1].data = SubSeq(@, remaining + 1, Len(@))],
              last_with_data |-> IF gone >= buf.last_with_data - 1 THEN 1
                                 ELSE buf.last_with_data - gone,
              total_len |-> buf.total_len - len]

Bug_LastNotShifted(dst, src) ==
    [chains |-> dst.chains \o src.chains,
     last_with_data |-> src.last_with_data,
     total_len |-> dst.total_len + src.total_len]

\* The empty chains at the end of dst stay where they are.
APPEND_CHAIN(dst, src) ==
    [chains |-> dst.chains \o src.chains,
     last_with_data |-> Len(dst.chains) + src.last_with_data,
     total_len |-> dst.total_len + src.total_len]

-----------------------------------------------------------------------------
(* The calls.                                                              *)

AllocationFails == oom < MaxOom /\ oom' = oom + 1

\* The socket announces some bytes (or none: then the most is tried) and
\* yields as many or fewer, or an end or an error.
evbuffer_read ==
    \E howmuch \in 1 .. MaxRead :
        /\ \/ \E k \in 1 .. Least({howmuch, MaxBytes - come}) :
                 /\ input' = Filled(_evbuffer_expand_fast(input, howmuch), Arriving(k))
                 /\ come' = come + k
                 /\ UNCHANGED oom
           \/ /\ input' = _evbuffer_expand_fast(input, howmuch)
              /\ UNCHANGED <<come, oom>>
           \/ /\ ~HasRoom(input, howmuch)
              /\ AllocationFails
              /\ input' = WithKept(input, howmuch)
              /\ UNCHANGED come
        /\ UNCHANGED output

Bug_CopiedOverData ==
    /\ input.total_len > 0
    /\ output' = IF output.last_with_data = 1 THEN input ELSE APPEND_CHAIN(output, input)
    /\ input' = Empty
    /\ UNCHANGED <<come, oom>>

\* Nothing happens to an empty input.  The empty chains of an output without
\* data are freed.
evbuffer_add_buffer ==
    /\ input.total_len > 0
    /\ output' = IF output.total_len = 0 THEN input ELSE APPEND_CHAIN(output, input)
    /\ input' = Empty
    /\ UNCHANGED <<come, oom>>

evbuffer_remove ==
    /\ input.total_len > 0
    /\ input' = evbuffer_drain(input, PacketSize)
    /\ UNCHANGED <<output, come, oom>>

\* Into an output without chains, as that of a connection just made.
evbuffer_add ==
    /\ output.chains = <<>>
    /\ \/ /\ come + PacketSize <= MaxBytes
          /\ output' = Filled([Empty EXCEPT !.chains = <<evbuffer_chain_new(PacketSize)>>],
                              Arriving(PacketSize))
          /\ come' = come + PacketSize
          /\ UNCHANGED oom
       \/ AllocationFails /\ UNCHANGED <<output, come>>
    /\ UNCHANGED input

\* The socket takes some of the bytes.
evbuffer_write_atmost ==
    \E k \in 1 .. output.total_len : /\ output' = evbuffer_drain(output, k)
                                     /\ UNCHANGED <<input, come, oom>>

EvBufferNext == \/ evbuffer_read
                \/ evbuffer_add_buffer
                \/ evbuffer_remove
                \/ evbuffer_add
                \/ evbuffer_write_atmost

EvBufferSpec == EvBufferInit /\ [][EvBufferNext]_evbufferVars

-----------------------------------------------------------------------------
(* Properties.                                                             *)

(* What struct evbuffer keeps aside is true of its chains: total_len, and  *)
(* last_with_datap, "the last chain that has any data in it" or else the   *)
(* first.  No chain holds more than its memory, and the empty chains that  *)
(* short reads leave behind stay within what one readv can use.            *)
ChainsIntact ==
    /\ \A buf \in {input, output} :
          /\ buf.total_len = Len(Bytes(buf.chains))
          /\ \A i \in DOMAIN buf.chains : CHAIN_SPACE_LEN(buf.chains[i]) >= 0
          /\ LET withData == {i \in DOMAIN buf.chains : buf.chains[i].data # <<>>}
             IN  /\ withData = {} => buf.last_with_data = 1
                 /\ withData # {} => /\ buf.last_with_data \in withData
                                     /\ \A i \in withData : i <= buf.last_with_data
    /\ Len(input.chains) - input.last_with_data <= ReadVecs

(* The evbuffers are two streams of bytes: what is taken out of them and   *)
(* moved between them is what came, in order, however it lies in chains.   *)
Streams == INSTANCE ByteStreams WITH in <- Bytes(input.chains),
                                     out <- Bytes(output.chains)
StreamSpec == Streams!Spec
=============================================================================
