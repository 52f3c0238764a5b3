--------------------------- MODULE GatedLoopProofs ---------------------------
(***************************************************************************)
(* Theorems about GatedLoop, for any finite number of connections.         *)
(*                                                                         *)
(* The loop runs the callbacks that Gated allows, so it inherits what is   *)
(* proved of Gated.  What it adds is that the events that callbacks add    *)
(* and delete and the active queue that was filled before agree.           *)
(***************************************************************************)
EXTENDS GatedLoop, GatedProofs, FiniteSetTheorems

-----------------------------------------------------------------------------
(* The loop runs callbacks of gated.                                       *)

LEMMA CallbackOfGated ==
    ASSUME NEW c \in Conns,
           bufferevent_readcb(c) \/ bufferevent_writecb(c) \/ Accepts(c)
    PROVE  Read(c) \/ ErrorEvent(c) \/ Write(c) \/ Listen(c) \/ UNCHANGED vars
<1>1. CASE bufferevent_readcb(c)
  BY <1>1 DEF bufferevent_readcb, Read, ErrorEvent
<1>2. CASE bufferevent_writecb(c)
  BY <1>2 DEF bufferevent_writecb, Write
<1>3. CASE Accepts(c)
  BY <1>3 DEF Accepts, Listen
<1>4. QED
  BY <1>1, <1>2, <1>3

LEMMA LoopStepOfGated == [LoopNext]_allVars => [Next]_vars
<1>1. ASSUME NEW c \in Conns,
             bufferevent_readcb(c) \/ bufferevent_writecb(c) \/ Accepts(c)
      PROVE  [Next]_vars
  BY <1>1, CallbackOfGated DEF Next
<1>2. PeerStep => [Next]_vars
  BY DEF PeerStep, Next
<1>3. Dispatch \/ event_loopexit_cb \/ (\E port \in Ports : listener_read_cb(port))
         => UNCHANGED vars
  BY DEF Dispatch, event_loopexit_cb, listener_read_cb
<1>4. AcceptFails => [Next]_vars
  BY DEF AcceptFails, Next
<1>5. LoopEnds \/ gated_init => [Next]_vars
  BY DEF LoopEnds, Next
<1>6. QED
  BY <1>1, <1>2, <1>3, <1>4, <1>5 DEF LoopNext, LoopStep, allVars

(* Whatever the order in which the loop polls and runs its callbacks, the  *)
(* gated that it runs is the gated of the theorems about Gated.            *)
THEOREM LoopIsGated == LoopSpec => Spec
<1>1. LoopInit => Init
  BY DEF LoopInit
<1>2. QED
  BY <1>1, LoopStepOfGated, PTL DEF LoopSpec, Spec

-----------------------------------------------------------------------------
(* The inductive invariant.                                                *)

AllEvents == {ReadEvent(c) : c \in Conns} \cup {WriteEvent(c) : c \in Conns}
                \cup {ListenEvent(port) : port \in Ports}

\* The event is added when those connections have ev_read, and those ev_write.
AddedIn(event, readers, writers) ==
    \/ \E c \in readers : event = ReadEvent(c)
    \/ \E c \in writers : event = WriteEvent(c)
    \/ \E port \in Ports : event = ListenEvent(port)

Added(event) == AddedIn(event, reading, polled)
AddedNext(event) == AddedIn(event, reading', polled')

\* A queue in which every event is there once, added, and the timer last.
QueueInv ==
    /\ activeq \in Seq(AllEvents \cup {ExitEvent})
    /\ IsInjective(activeq)
    /\ \A i \in 1 .. Len(activeq) :
          Added(activeq[i]) \/ (activeq[i] = ExitEvent /\ i = Len(activeq))

FlagTypes == /\ timer \in BOOLEAN
             /\ gotterm \in BOOLEAN
             /\ accepting \in Ports \cup {Idle}

WriteAdded == /\ polled \subseteq writing
              /\ \A c \in writing : output[c] # <<>> => c \in polled

ExitQueued == \E i \in 1 .. Len(activeq) : activeq[i] = ExitEvent

ExitComes == Alive /\ exiting => timer \/ gotterm \/ ExitQueued

ScheduleInv == QueueInv /\ FlagTypes /\ WriteAdded /\ ExitComes

LEMMA EventsDistinct ==
    ASSUME NEW c, NEW d, NEW port
    PROVE  /\ ReadEvent(c) = ReadEvent(d) => c = d
           /\ WriteEvent(c) = WriteEvent(d) => c = d
           /\ ReadEvent(c) # WriteEvent(d)
           /\ ReadEvent(c) # ListenEvent(port)
           /\ WriteEvent(c) # ListenEvent(port)
           /\ ExitEvent # ReadEvent(c)
           /\ ExitEvent # WriteEvent(c)
           /\ ExitEvent # ListenEvent(port)
BY DEF ReadEvent, WriteEvent, ListenEvent, ExitEvent

LEMMA InitLoop == LoopInit => ScheduleInv
<1> SUFFICES ASSUME LoopInit
             PROVE  ScheduleInv
  OBVIOUS
<1>1. activeq \in Seq(AllEvents \cup {ExitEvent}) /\ Len(activeq) = 0
  BY EmptySeq DEF LoopInit
<1>2. QueueInv
  BY <1>1 DEF QueueInv, IsInjective, LoopInit
<1>3. FlagTypes
  BY DEF LoopInit, FlagTypes
<1>4. WriteAdded /\ ExitComes
  BY DEF LoopInit, Init, WriteAdded, ExitComes
<1>5. QED
  BY <1>2, <1>3, <1>4 DEF ScheduleInv

\* The first event leaves the queue, and is the only one that may be deleted.
LEMMA FirstEventLeaves ==
    ASSUME QueueInv, activeq # <<>>, activeq' = Tail(activeq),
           \A event : event # Head(activeq) /\ Added(event) => AddedNext(event)
    PROVE  /\ QueueInv'
           /\ ExitQueued => Head(activeq) = ExitEvent \/ ExitQueued'
<1> DEFINE S == AllEvents \cup {ExitEvent}
           n == Len(activeq)
<1>1. /\ activeq \in Seq(S) /\ n \in Nat /\ n > 0
      /\ activeq' \in Seq(S) /\ Len(activeq') = n - 1
      /\ Head(activeq) = activeq[1]
      /\ \A i \in 1 .. n - 1 : activeq'[i] = activeq[i + 1]
  BY HeadTailProperties, LenProperties, EmptySeq DEF QueueInv
<1>2. \A i, j \in 1 .. n : activeq[i] = activeq[j] => i = j
  BY <1>1, LenProperties DEF QueueInv, IsInjective
<1>3. IsInjective(activeq')
  <2>1. DOMAIN activeq' = 1 .. n - 1
    BY <1>1, LenProperties
  <2>2. \A i, j \in 1 .. n - 1 : activeq'[i] = activeq'[j] => i = j
    BY <1>1, <1>2
  <2>3. QED
    BY <2>1, <2>2 DEF IsInjective
<1>4. ASSUME NEW i \in 1 .. n - 1
      PROVE  \/ AddedNext(activeq[i + 1])
             \/ activeq'[i] = ExitEvent /\ i = Len(activeq')
  <2>1. activeq'[i] = activeq[i + 1] /\ i + 1 \in 1 .. n
    BY <1>1
  <2>2. PICK event : event = activeq[i + 1]
    OBVIOUS
  <2>3. event # Head(activeq)
    BY <1>1, <1>2, <2>1, <2>2
  <2>4. Added(event) \/ (event = ExitEvent /\ i + 1 = n)
    BY <2>1, <2>2 DEF QueueInv
  <2>5. AddedNext(event) \/ (event = ExitEvent /\ i = n - 1)
    <3>1. Added(event) => AddedNext(event)
      BY <2>3
    <3>2. i + 1 = n => i = n - 1
      <4>1. n \in Nat
        BY <1>1
      <4> HIDE DEF n
      <4>2. QED
        BY <4>1
    <3>3. QED
      BY <2>4, <3>1, <3>2
  <2>6. QED
    BY <1>1, <2>1, <2>2, <2>5
<1>5. QueueInv'
  <2>1. \A i \in 1 .. Len(activeq') :
           AddedIn(activeq'[i], reading', polled')
             \/ (activeq'[i] = ExitEvent /\ i = Len(activeq'))
    BY <1>1, <1>4 DEF AddedNext
  <2>2. QED
    BY <1>1, <1>3, <2>1 DEF QueueInv, Added
<1>6. ExitQueued => Head(activeq) = ExitEvent \/ ExitQueued'
  <2>1. ASSUME NEW i \in 1 .. n, activeq[i] = ExitEvent, i # 1
        PROVE  ExitQueued'
    <3>1. i - 1 \in 1 .. n - 1 /\ activeq'[i - 1] = activeq[i]
      BY <1>1, <2>1
    <3>2. QED
      BY <1>1, <2>1, <3>1 DEF ExitQueued
  <2>2. QED
    BY <1>1, <2>1 DEF ExitQueued
<1>7. QED
  BY <1>5, <1>6

\* Events are only added, and the queue is left alone.
LEMMA QueueKept ==
    ASSUME QueueInv, UNCHANGED activeq,
           reading \subseteq reading', polled \subseteq polled'
    PROVE  QueueInv' /\ ExitQueued' = ExitQueued
<1>1. \A i \in 1 .. Len(activeq) :
         Added(activeq[i]) => AddedIn(activeq'[i], reading', polled')
  BY DEF Added, AddedIn
<1>2. QueueInv'
  BY <1>1 DEF QueueInv, Added
<1>3. QED
  BY <1>2 DEF ExitQueued

-----------------------------------------------------------------------------
(* The steps.                                                              *)

\* Steps that leave the loop, its events and the buffers alone.
LEMMA QuietLoopStep ==
    ASSUME ScheduleInv, UNCHANGED <<activeq, polled, timer, gotterm, accepting>>,
           UNCHANGED <<reading, writing, output, exiting>>, Alive' => Alive
    PROVE  ScheduleInv'
<1>1. QueueInv' /\ ExitQueued' = ExitQueued
  BY QueueKept DEF ScheduleInv
<1>2. FlagTypes' /\ WriteAdded'
  BY DEF ScheduleInv, FlagTypes, WriteAdded
<1>3. ExitComes'
  BY <1>1 DEF ScheduleInv, ExitComes
<1>4. QED
  BY <1>1, <1>2, <1>3 DEF ScheduleInv

LEMMA PeerLoopStep ==
    ASSUME ScheduleInv, PeerStep
    PROVE  ScheduleInv'
<1>1. UNCHANGED <<activeq, polled, timer, gotterm, accepting>>
  BY DEF PeerStep, loopVars
<1>2. UNCHANGED <<reading, writing, output, exiting, proc>>
  BY DEF PeerStep, Peer, Connect, SendAuth, Send, Close, Reset, procVars, connVars,
         bufVars
<1>3. QED
  BY <1>1, <1>2, QuietLoopStep DEF Alive

LEMMA BootOrEnd ==
    ASSUME ScheduleInv, (gated_init /\ UNCHANGED loopVars) \/ LoopEnds
    PROVE  ScheduleInv'
<1>1. UNCHANGED <<activeq, polled, timer, gotterm, accepting>>
  BY DEF LoopEnds, loopVars
<1>2. UNCHANGED <<reading, writing, output, exiting>> /\ Alive
  BY DEF LoopEnds, gated_init, gated_start_returns, connVars, bufVars, Alive, Running
<1>3. QED
  BY <1>1, <1>2, QuietLoopStep

LEMMA EventImages ==
    ASSUME NEW S, IsFiniteSet(S)
    PROVE  /\ IsFiniteSet({ReadEvent(c) : c \in S})
           /\ IsFiniteSet({WriteEvent(c) : c \in S})
           /\ IsFiniteSet({ListenEvent(c) : c \in S})
<1>1. IsFiniteSet({ReadEvent(c) : c \in S})
  <2>1. [c \in S |-> ReadEvent(c)] \in Surjection(S, {ReadEvent(c) : c \in S})
    BY DEF Surjection
  <2>2. QED
    BY <2>1, FS_Surjection
<1>2. IsFiniteSet({WriteEvent(c) : c \in S})
  <2>1. [c \in S |-> WriteEvent(c)] \in Surjection(S, {WriteEvent(c) : c \in S})
    BY DEF Surjection
  <2>2. QED
    BY <2>1, FS_Surjection
<1>3. IsFiniteSet({ListenEvent(c) : c \in S})
  <2>1. [c \in S |-> ListenEvent(c)] \in Surjection(S, {ListenEvent(c) : c \in S})
    BY DEF Surjection
  <2>2. QED
    BY <2>1, FS_Surjection
<1>4. QED
  BY <1>1, <1>2, <1>3

\* A poll reports finitely many events, all of them added.
LEMMA EventsFinite ==
    ASSUME TypeOK, polled \subseteq writing
    PROVE  /\ IsFiniteSet(Events)
           /\ Events \subseteq AllEvents
           /\ \A event \in Events : Added(event)
<1>1. /\ {c \in Conns : Readable(c)} \subseteq Conns
      /\ polled \subseteq Conns
      /\ {q \in Ports : Pending(q)} \subseteq Ports
  BY DEF TypeOK, ConnTypes
<1>2. IsFiniteSet({c \in Conns : Readable(c)}) /\ IsFiniteSet(polled)
  BY <1>1, ConnsFinite, FS_Subset
<1>3. IsFiniteSet({q \in Ports : Pending(q)})
  <2>1. IsFiniteSet(({} \cup {"inter"}) \cup {"outer"})
    BY FS_EmptySet, FS_AddElement
  <2>2. Ports = ({} \cup {"inter"}) \cup {"outer"}
    BY DEF Ports
  <2>3. QED
    BY <1>1, <2>1, <2>2, FS_Subset
<1>4. IsFiniteSet({ReadEvent(c) : c \in {d \in Conns : Readable(d)}})
  BY <1>2, EventImages
<1>5. IsFiniteSet({WriteEvent(c) : c \in polled})
  BY <1>2, EventImages
<1>6. IsFiniteSet({ListenEvent(port) : port \in {q \in Ports : Pending(q)}})
  BY <1>3, EventImages
<1>7. IsFiniteSet(Events)
  <2>1. IsFiniteSet({ReadEvent(c) : c \in {d \in Conns : Readable(d)}}
                       \cup {WriteEvent(c) : c \in polled})
    BY <1>4, <1>5, FS_Union
  <2>2. QED
    BY <1>6, <2>1, FS_Union DEF Events
<1>8. Events \subseteq AllEvents
  BY <1>1 DEF Events, AllEvents
<1>9. \A event \in Events : Added(event)
  BY DEF Events, Added, AddedIn, Readable
<1>10. QED
  BY <1>7, <1>8, <1>9

\* The queue that a poll makes: the timer stands behind the events.
LEMMA PolledQueue ==
    ASSUME TypeOK, polled \subseteq writing, timer \in BOOLEAN,
           NEW queue \in SetToSeqs(Events), NEW q, q = queue \o Expired
    PROVE  /\ q \in Seq(AllEvents \cup {ExitEvent})
           /\ IsInjective(q)
           /\ \A i \in 1 .. Len(q) :
                 Added(q[i]) \/ (q[i] = ExitEvent /\ i = Len(q))
           /\ timer => q[Len(q)] = ExitEvent /\ Len(q) \in 1 .. Len(q)
<1> DEFINE n == Cardinality(Events)
           S == AllEvents \cup {ExitEvent}
<1>1. n \in Nat
  BY EventsFinite, FS_CardinalityType
<1>2. /\ queue \in [1 .. n -> Events]
      /\ \A i, j \in 1 .. n : i # j => queue[i] # queue[j]
  BY DEF SetToSeqs
<1> HIDE DEF n
<1>3. queue \in Seq(S) /\ Len(queue) = n
  <2>1. queue \in [1 .. n -> S]
    BY <1>2, EventsFinite
  <2>2. QED
    BY <1>1, <2>1
<1>4. \A i \in 1 .. n : Added(queue[i]) /\ queue[i] # ExitEvent
  <2>1. \A i \in 1 .. n : queue[i] \in Events
    BY <1>2
  <2>2. \A event \in Events : event # ExitEvent
    BY EventsDistinct DEF Events
  <2>3. QED
    BY <2>1, <2>2, EventsFinite
<1>5. CASE timer
  <2>1. Expired = <<ExitEvent>> /\ Expired \in Seq(S) /\ Len(Expired) = 1
    BY <1>5 DEF Expired
  <2>2. /\ q \in Seq(S) /\ Len(q) = n + 1
        /\ \A i \in 1 .. n : q[i] = queue[i]
        /\ q[n + 1] = ExitEvent
    <3> HIDE DEF S
    <3>1. /\ q \in Seq(S) /\ Len(q) = n + 1
          /\ \A i \in 1 .. n + 1 :
                q[i] = IF i <= n THEN queue[i] ELSE Expired[i - n]
      BY <1>3, <2>1, ConcatProperties
    <3>2. n + 1 \in 1 .. n + 1 /\ (n + 1) - n = 1 /\ ~(n + 1 <= n)
      BY <1>1
    <3>3. Expired[1] = ExitEvent
      BY <2>1
    <3>4. QED
      BY <1>1, <3>1, <3>2, <3>3
  <2>3. IsInjective(q)
    <3>1. DOMAIN q = 1 .. n + 1
      BY <2>2, LenProperties
    <3>2. \A i, j \in 1 .. n + 1 : q[i] = q[j] => i = j
      BY <1>1, <1>2, <1>4, <2>2
    <3>3. QED
      BY <3>1, <3>2 DEF IsInjective
  <2>4. \A i \in 1 .. n + 1 :
           Added(q[i]) \/ (q[i] = ExitEvent /\ i = n + 1)
    <3>1. \A i \in 1 .. n : Added(q[i])
      BY <1>4, <2>2
    <3>2. \A i \in 1 .. n + 1 : i \in 1 .. n \/ i = n + 1
      BY <1>1
    <3>3. QED
      BY <2>2, <3>1, <3>2
  <2>5. Len(q) \in 1 .. Len(q)
    BY <1>1, <2>2
  <2>6. QED
    BY <2>2, <2>3, <2>4, <2>5
<1>6. CASE ~timer
  <2>1. q = queue
    BY <1>3, <1>6, ConcatEmptySeq DEF Expired
  <2>2. DOMAIN queue = 1 .. n
    BY <1>2
  <2>3. QED
    BY <1>2, <1>3, <1>4, <1>6, <2>1, <2>2 DEF IsInjective
<1>7. QED
  BY <1>5, <1>6

LEMMA DispatchStep ==
    ASSUME TypeOK, ScheduleInv, Dispatch
    PROVE  ScheduleInv'
<1>1. PICK queue \in SetToSeqs(Events) : activeq' = queue \o Expired
  BY DEF Dispatch
<1>2. /\ UNCHANGED <<polled, gotterm, accepting>>
      /\ UNCHANGED <<reading, writing, output, exiting, proc>>
      /\ timer' = FALSE
      /\ ~gotterm /\ activeq = <<>>
  BY DEF Dispatch, AtTop, vars, procVars, connVars, bufVars
<1>3. polled \subseteq writing /\ timer \in BOOLEAN
  BY DEF ScheduleInv, WriteAdded, FlagTypes
<1>4. /\ activeq' \in Seq(AllEvents \cup {ExitEvent})
      /\ IsInjective(activeq')
      /\ \A i \in 1 .. Len(activeq') :
            Added(activeq'[i]) \/ (activeq'[i] = ExitEvent /\ i = Len(activeq'))
      /\ timer => /\ activeq'[Len(activeq')] = ExitEvent
                  /\ Len(activeq') \in 1 .. Len(activeq')
  BY <1>1, <1>3, PolledQueue
<1>5. QueueInv'
  BY <1>2, <1>4 DEF QueueInv, Added, AddedIn
<1>6. FlagTypes' /\ WriteAdded'
  BY <1>2 DEF ScheduleInv, FlagTypes, WriteAdded
<1>7. timer => ExitQueued'
  BY <1>4 DEF ExitQueued
<1>8. ~ExitQueued
  BY <1>2, EmptySeq DEF ExitQueued
<1>9. ExitComes'
  BY <1>2, <1>7, <1>8 DEF ScheduleInv, ExitComes, Alive
<1>10. QED
  BY <1>5, <1>6, <1>9 DEF ScheduleInv

\* What a callback owes to the loop.
LEMMA CallbackStep ==
    ASSUME ScheduleInv, NEW event, event # ExitEvent, Runs(event),
           reading \ {c \in Conns : ReadEvent(c) = event} \subseteq reading',
           polled \ {c \in Conns : WriteEvent(c) = event} \subseteq polled',
           reading \subseteq Conns, polled \subseteq Conns,
           timer' = timer \/ timer' = TRUE,
           accepting' \in Ports \cup {Idle},
           exiting' => exiting \/ timer',
           Alive' => Alive,
           WriteAdded'
    PROVE  ScheduleInv'
<1>1. /\ QueueInv /\ activeq # <<>> /\ activeq' = Tail(activeq)
      /\ Head(activeq) = event
      /\ gotterm' = gotterm
  BY DEF ScheduleInv, Runs
<1>2. \A e : e # Head(activeq) /\ Added(e) => AddedNext(e)
  <2>1. SUFFICES ASSUME NEW e, e # event, Added(e)
                 PROVE  AddedIn(e, reading', polled')
    BY <1>1 DEF AddedNext
  <2>2. ASSUME NEW c \in reading, e = ReadEvent(c)
        PROVE  c \in reading'
    BY <2>1, <2>2
  <2>3. ASSUME NEW c \in polled, e = WriteEvent(c)
        PROVE  c \in polled'
    BY <2>1, <2>3
  <2>4. QED
    BY <2>1, <2>2, <2>3 DEF Added, AddedIn
<1>3. QueueInv' /\ (ExitQueued => ExitQueued')
  BY <1>1, <1>2, FirstEventLeaves
<1>4. FlagTypes'
  BY <1>1 DEF ScheduleInv, FlagTypes
<1>5. timer => timer'
  BY DEF ScheduleInv, FlagTypes
<1>6. ExitComes'
  BY <1>1, <1>3, <1>5 DEF ScheduleInv, ExitComes
<1>7. QED
  BY <1>3, <1>4, <1>6 DEF ScheduleInv

LEMMA ListenerStep ==
    ASSUME TypeOK, ScheduleInv, NEW port \in Ports, listener_read_cb(port)
    PROVE  ScheduleInv'
<1>1. /\ Runs(ListenEvent(port)) /\ accepting' = port
      /\ UNCHANGED <<polled, timer>>
      /\ UNCHANGED <<reading, writing, output, exiting, proc>>
  BY DEF listener_read_cb, vars, procVars, connVars, bufVars
<1>2. reading \subseteq Conns /\ polled \subseteq Conns /\ WriteAdded'
  BY <1>1 DEF TypeOK, ConnTypes, ScheduleInv, WriteAdded
<1>3. timer' = timer /\ (Alive' => Alive) /\ ListenEvent(port) # ExitEvent
  BY <1>1, EventsDistinct DEF Alive
<1>4. QED
  BY <1>1, <1>2, <1>3, CallbackStep

LEMMA LoopExitStep ==
    ASSUME ScheduleInv, event_loopexit_cb
    PROVE  ScheduleInv'
<1>1. /\ activeq # <<>> /\ activeq' = Tail(activeq) /\ QueueInv
      /\ gotterm' = TRUE
      /\ UNCHANGED <<polled, timer, accepting>>
      /\ UNCHANGED <<reading, writing, output, exiting, proc>>
  BY DEF ScheduleInv, event_loopexit_cb, vars, procVars, connVars, bufVars
<1>2. \A e : Added(e) => AddedNext(e)
  BY <1>1 DEF Added, AddedNext
<1>3. QueueInv'
  BY <1>1, <1>2, FirstEventLeaves
<1>4. FlagTypes' /\ WriteAdded' /\ ExitComes'
  BY <1>1 DEF ScheduleInv, FlagTypes, WriteAdded, ExitComes
<1>5. QED
  BY <1>3, <1>4 DEF ScheduleInv

\* Input of a client is echoed: output is added to its connection only.
LEMMA EchoPolled ==
    ASSUME TypeOK, WriteAdded, NEW c \in Conns, NEW k \in 1 .. Len(chan[c]),
           client_read_cb(c, k), outbuf_cb(c)
    PROVE  WriteAdded' /\ polled \subseteq polled'
<1>1. /\ writing' = writing
      /\ \A d \in Conns : d # c => output'[d] = output[d]
  BY DEF client_read_cb, connVars, TypeOK, BufferTypes, Streams
<1>2. writing \subseteq Conns
  BY DEF TypeOK, ConnTypes
<1>3. QED
  BY <1>1, <1>2 DEF WriteAdded, outbuf_cb, event_add

LEMMA ReadStep ==
    ASSUME TypeOK, ScheduleInv, NEW c \in Conns, bufferevent_readcb(c)
    PROVE  ScheduleInv'
<1>1. /\ Runs(ReadEvent(c)) /\ UNCHANGED accepting
      /\ ReadEvent(c) # ExitEvent
  BY EventsDistinct DEF bufferevent_readcb
<1>2. /\ reading \subseteq Conns /\ polled \subseteq Conns /\ WriteAdded
      /\ accepting \in Ports \cup {Idle}
  BY DEF TypeOK, ConnTypes, ScheduleInv, WriteAdded, FlagTypes
<1>3. ASSUME NEW k \in 1 .. Len(chan[c]),
             gamed_read_cb(c, k), UNCHANGED <<polled, timer>>
      PROVE  ScheduleInv'
  <2>1. UNCHANGED <<reading, writing, output, exiting>> /\ Running
    BY <1>3 DEF gamed_read_cb, SocketRead
  <2>2. WriteAdded' /\ Alive
    BY <1>2, <1>3, <2>1 DEF WriteAdded, Alive, Running
  <2>3. QED
    BY <1>1, <1>2, <1>3, <2>1, <2>2, CallbackStep
<1>4. ASSUME NEW k \in 1 .. Len(chan[c]),
             client_read_cb(c, k), outbuf_cb(c), UNCHANGED timer
      PROVE  ScheduleInv'
  <2>1. UNCHANGED <<reading, exiting, proc>>
    BY <1>4 DEF client_read_cb, connVars, procVars
  <2>2. WriteAdded' /\ polled \subseteq polled'
    BY <1>2, <1>4, EchoPolled
  <2>3. Alive' => Alive
    BY <2>1 DEF Alive
  <2>4. QED
    BY <1>1, <1>2, <1>4, <2>1, <2>2, <2>3, CallbackStep
<1>5. ASSUME ReadError(c), UNCHANGED polled,
             \/ exiting' = TRUE /\ timer' = TRUE
             \/ UNCHANGED <<exiting, timer>>
      PROVE  ScheduleInv'
  <2>1. reading' = reading \ {c} /\ UNCHANGED <<writing, output>> /\ Running
    BY <1>5 DEF ReadError, bufVars
  <2>2. WriteAdded' /\ Alive
    BY <1>2, <1>5, <2>1 DEF WriteAdded, Alive, Running
  <2>3. c \in {d \in Conns : ReadEvent(d) = ReadEvent(c)}
    OBVIOUS
  <2>4. reading \ {d \in Conns : ReadEvent(d) = ReadEvent(c)} \subseteq reading'
    BY <2>1, <2>3
  <2>5. /\ polled \ {d \in Conns : WriteEvent(d) = ReadEvent(c)} \subseteq polled'
        /\ timer' = timer \/ timer' = TRUE
        /\ exiting' => exiting \/ timer'
        /\ accepting' \in Ports \cup {Idle}
    BY <1>1, <1>2, <1>5
  <2>6. QED
    BY <1>1, <1>2, <2>2, <2>4, <2>5, CallbackStep
<1>6. QED
  BY <1>3, <1>4, <1>5 DEF bufferevent_readcb, gamed_error_cb, client_error_cb,
     event_base_loopexit

LEMMA WriteStep ==
    ASSUME TypeOK, ScheduleInv, NEW c \in Conns, bufferevent_writecb(c)
    PROVE  ScheduleInv'
<1>1. /\ Runs(WriteEvent(c)) /\ UNCHANGED <<timer, accepting>>
      /\ WriteEvent(c) # ExitEvent
  BY EventsDistinct DEF bufferevent_writecb
<1>2. /\ reading \subseteq Conns /\ polled \subseteq Conns
      /\ writing \subseteq Conns /\ WriteAdded
      /\ accepting \in Ports \cup {Idle}
      /\ output \in [Conns -> Seq(Conns \X (Nat \ {0}))]
  BY DEF TypeOK, ConnTypes, BufferTypes, Streams, ScheduleInv, WriteAdded, FlagTypes
<1>3. polled \ {c} = polled \ {d \in Conns : WriteEvent(d) = WriteEvent(c)}
  BY EventsDistinct
<1>4. ASSUME UNCHANGED <<reading, exiting>>, Alive' => Alive,
             polled \ {c} \subseteq polled', WriteAdded'
      PROVE  ScheduleInv'
  <2>1. /\ polled \ {d \in Conns : WriteEvent(d) = WriteEvent(c)} \subseteq polled'
        /\ reading \ {d \in Conns : ReadEvent(d) = WriteEvent(c)} \subseteq reading'
        /\ timer' = timer \/ timer' = TRUE
        /\ exiting' => exiting \/ timer'
        /\ accepting' \in Ports \cup {Idle}
    BY <1>1, <1>2, <1>3, <1>4
  <2>2. QED
    BY <1>1, <1>2, <1>4, <2>1, CallbackStep
<1>5. CASE output[c] = <<>> /\ event_del(c) /\ UNCHANGED vars
  <2>1. UNCHANGED <<reading, writing, output, exiting, proc>> /\ polled' = polled \ {c}
    BY <1>5 DEF vars, procVars, connVars, bufVars, event_del
  <2>2. WriteAdded'
    BY <1>2, <1>5, <2>1 DEF WriteAdded
  <2>3. QED
    BY <1>4, <2>1, <2>2 DEF Alive
<1>6. CASE /\ WriteOut(c)
           /\ IF output'[c] = <<>> THEN event_del(c) ELSE UNCHANGED polled
  <2>1. /\ UNCHANGED <<reading, writing, exiting, proc>>
        /\ output[c] # <<>> /\ c \in writing
        /\ \A d \in Conns : d # c => output'[d] = output[d]
    BY <1>2, <1>6 DEF WriteOut, Writable, procVars, connVars
  <2>2. \/ output'[c] = <<>> /\ polled' = polled \ {c}
        \/ output'[c] # <<>> /\ polled' = polled
    BY <1>6 DEF event_del
  <2>3. WriteAdded'
    BY <1>2, <2>1, <2>2 DEF WriteAdded
  <2>4. QED
    BY <1>4, <2>1, <2>2, <2>3 DEF Alive
<1>7. CASE WriteError(c) /\ event_del(c)
  <2>1. /\ UNCHANGED <<reading, output, exiting, proc>>
        /\ writing' = writing \ {c} /\ polled' = polled \ {c}
    BY <1>7 DEF WriteError, procVars, bufVars, event_del
  <2>2. WriteAdded'
    BY <1>2, <2>1 DEF WriteAdded
  <2>3. QED
    BY <1>4, <2>1, <2>2 DEF Alive
<1>8. CASE WriteSigpipe(c) /\ UNCHANGED polled
  <2>1. UNCHANGED <<reading, writing, output, exiting>> /\ Running
    BY <1>8 DEF WriteSigpipe, Writable, connVars, bufVars
  <2>2. WriteAdded' /\ Alive
    BY <1>2, <1>8, <2>1 DEF WriteAdded, Alive, Running
  <2>3. QED
    BY <1>4, <1>8, <2>1, <2>2
<1>9. QED
  BY <1>5, <1>6, <1>7, <1>8 DEF bufferevent_writecb

\* A new connection has nothing to write: its first write event deletes itself.
LEMMA AcceptStep ==
    ASSUME TypeOK, ScheduleInv, NEW c \in Conns, Accepts(c)
    PROVE  ScheduleInv'
<1>1. /\ Listen(c)
      /\ UNCHANGED <<activeq, gotterm, output, proc>>
      /\ \/ UNCHANGED <<timer, accepting, exiting>>
         \/ timer' = TRUE /\ accepting' = Idle
      /\ sock \in [Conns -> {"none", "pending", "accepted", "orphan"}]
      /\ IF sock'[c] = "accepted" THEN event_add(c) ELSE UNCHANGED polled
  <2>1. /\ UNCHANGED <<activeq, gotterm>>
        /\ IF sock'[c] = "accepted" THEN event_add(c) ELSE UNCHANGED polled
    BY DEF Accepts
  <2>2. Listen(c)
    BY DEF Accepts, Listen
  <2>3. UNCHANGED <<output, proc>>
    BY <2>2, ListenAccepts DEF bufVars
  <2>4. \/ UNCHANGED <<timer, accepting, exiting>>
        \/ timer' = TRUE /\ accepting' = Idle
    <3>1. CASE client_accept_cb(c) /\ UNCHANGED <<timer, accepting>>
      BY <3>1 DEF client_accept_cb
    <3>2. ASSUME NEW n \in 0 .. 1, gamed_accept_cb(c, n), n = 0, FreeDescriptor',
                 UNCHANGED <<timer, accepting>>
          PROVE  UNCHANGED <<timer, accepting, exiting>>
      <4>1. exiting' = (exiting \/ n = 1 \/ ~FreeDescriptor') /\ exiting \in BOOLEAN
        BY <3>2 DEF gamed_accept_cb, TypeOK, ProcTypes
      <4>2. QED
        BY <3>2, <4>1
    <3>3. QED
      BY <3>1, <3>2 DEF Accepts, event_base_loopexit
  <2>5. QED
    BY <2>1, <2>2, <2>3, <2>4 DEF TypeOK, ConnTypes
<1>2. \/ /\ sock'[c] = "accepted"
         /\ reading' = reading \cup {c} /\ writing' = writing \cup {c}
      \/ /\ sock'[c] = "orphan"
         /\ UNCHANGED <<reading, writing>>
  BY <1>1, ListenAccepts DEF net_new_connection
<1>3. \/ /\ polled' = polled \cup {c}
         /\ reading' = reading \cup {c} /\ writing' = writing \cup {c}
      \/ UNCHANGED <<reading, writing, polled>>
  BY <1>1, <1>2 DEF event_add
<1>4. QueueInv' /\ ExitQueued' = ExitQueued
  BY <1>1, <1>3, QueueKept DEF ScheduleInv
<1>5. FlagTypes' /\ WriteAdded'
  BY <1>1, <1>3 DEF ScheduleInv, FlagTypes, WriteAdded
<1>6. ExitComes'
  <2>1. CASE timer' = TRUE
    BY <2>1 DEF ExitComes
  <2>2. CASE UNCHANGED <<timer, exiting>>
    BY <1>1, <1>4, <2>2 DEF ScheduleInv, ExitComes, Alive
  <2>3. QED
    BY <1>1, <2>1, <2>2
<1>7. QED
  BY <1>4, <1>5, <1>6 DEF ScheduleInv

LEMMA AcceptFailsStep ==
    ASSUME ScheduleInv, AcceptFails
    PROVE  ScheduleInv'
<1>1. /\ UNCHANGED <<activeq, polled, gotterm>>
      /\ UNCHANGED <<reading, writing, output, proc>>
      /\ accepting' = Idle
      /\ \/ UNCHANGED <<timer, exiting>>
         \/ exiting' = TRUE /\ timer' = TRUE
  BY DEF AcceptFails, gamed_accept_error_cb, client_accept_error_cb,
     event_base_loopexit, AcceptRefused, vars, procVars, connVars, bufVars
<1>2. QueueInv' /\ ExitQueued' = ExitQueued
  BY <1>1, QueueKept DEF ScheduleInv
<1>3. FlagTypes' /\ WriteAdded'
  BY <1>1 DEF ScheduleInv, FlagTypes, WriteAdded
<1>4. ExitComes'
  BY <1>1, <1>2 DEF ScheduleInv, ExitComes, Alive
<1>5. QED
  BY <1>2, <1>3, <1>4 DEF ScheduleInv

LEMMA ScheduleInvariant == LoopSpec => [](TypeOK /\ ScheduleInv)
<1>1. ASSUME TypeOK, ScheduleInv, [LoopNext]_allVars
      PROVE  ScheduleInv'
  <2>1. CASE LoopStep
    BY <1>1, <2>1, BootOrEnd, DispatchStep, LoopExitStep, ReadStep, WriteStep,
       AcceptStep, ListenerStep, AcceptFailsStep DEF LoopStep
  <2>2. CASE PeerStep
    BY <1>1, <2>2, PeerLoopStep
  <2>3. CASE UNCHANGED allVars
    <3>1. UNCHANGED <<activeq, polled, timer, gotterm, accepting>>
      BY <2>3 DEF allVars, loopVars
    <3>2. UNCHANGED <<reading, writing, output, exiting, proc>>
      BY <2>3 DEF allVars, vars, procVars, connVars, bufVars
    <3>3. QED
      BY <1>1, <3>1, <3>2, QuietLoopStep DEF Alive
  <2>4. QED
    BY <1>1, <2>1, <2>2, <2>3 DEF LoopNext
<1>2. LoopSpec => []TypeOK
  BY LoopIsGated, TypeCorrect, PTL
<1>3. QED
  BY <1>1, <1>2, InitLoop, PTL DEF LoopSpec

-----------------------------------------------------------------------------
(* The theorems.                                                           *)

(* The active queue of event_base_loop holds only events that are added,   *)
(* each once and the timer last, although callbacks delete events while it *)
(* is worked off, and a loopexit that was asked for is always on its way.  *)
THEOREM QueueIsIntact == LoopSpec => []LoopIntact
<1>1. ASSUME ScheduleInv
      PROVE  LoopIntact
  <2>1. /\ polled \subseteq writing
        /\ timer \in BOOLEAN /\ gotterm \in BOOLEAN
        /\ accepting \in Ports \cup {Idle}
        /\ IsInjective(activeq)
    BY <1>1 DEF ScheduleInv, QueueInv, FlagTypes, WriteAdded
  <2>2. DOMAIN activeq = 1 .. Len(activeq)
    BY <1>1, LenProperties DEF ScheduleInv, QueueInv
  <2>3. ASSUME NEW i \in DOMAIN activeq
        PROVE  \/ \E c \in reading : activeq[i] = ReadEvent(c)
               \/ \E c \in polled : activeq[i] = WriteEvent(c)
               \/ \E port \in Ports : activeq[i] = ListenEvent(port)
               \/ activeq[i] = ExitEvent /\ i = Len(activeq)
    BY <1>1, <2>2 DEF ScheduleInv, QueueInv, Added, AddedIn
  <2>4. Running /\ exiting =>
           timer \/ gotterm \/ \E i \in DOMAIN activeq : activeq[i] = ExitEvent
    BY <1>1, <2>2 DEF ScheduleInv, ExitComes, ExitQueued, Alive, Running
  <2>5. QED
    BY <2>1, <2>3, <2>4 DEF LoopIntact
<1>2. QED
  BY <1>1, ScheduleInvariant, PTL

(* No wake-up is lost: however bufferevent_writecb, which deletes the write*)
(* event, and the echo of new input come, output that can still be written *)
(* is polled for.                                                          *)
THEOREM OutputIsNotForgotten == LoopSpec => []OutputIsPolled
<1>1. ScheduleInv => OutputIsPolled
  BY DEF ScheduleInv, WriteAdded, OutputIsPolled
<1>2. QED
  BY <1>1, ScheduleInvariant, PTL

LEMMA ReadUsesUp ==
    ASSUME TypeOK, NEW c \in Conns, bufferevent_readcb(c)
    PROVE  vars' # vars
<1>1. CASE \E k \in 1 .. Len(chan[c]) : gamed_read_cb(c, k) \/ client_read_cb(c, k)
  <2>1. PICK k \in 1 .. Len(chan[c]) : gamed_read_cb(c, k) \/ client_read_cb(c, k)
    BY <1>1
  <2>2. /\ chan \in [Conns -> Seq(Conns \X (Nat \ {0}))]
        /\ chan[c] \in Seq(Conns \X (Nat \ {0})) /\ Len(chan[c]) \in Nat
    BY LenProperties DEF TypeOK, BufferTypes, Streams
  <2>3. chan'[c] = SubSeq(chan[c], k + 1, Len(chan[c]))
    BY <2>1, <2>2 DEF gamed_read_cb, client_read_cb, SocketRead
  <2>4. Len(chan'[c]) = Len(chan[c]) - k
    BY <2>1, <2>2, <2>3, SplitJoin
  <2>5. chan' # chan
    BY <2>1, <2>2, <2>4
  <2>6. QED
    BY <2>5 DEF vars, peerVars
<1>2. CASE gamed_error_cb(c) \/ client_error_cb(c)
  <2>1. c \in reading /\ reading' = reading \ {c}
    BY <1>2 DEF gamed_error_cb, client_error_cb, ReadError
  <2>2. reading' # reading
    BY <2>1
  <2>3. QED
    BY <2>2 DEF vars, connVars
<1>3. QED
  BY <1>1, <1>2 DEF bufferevent_readcb

LEMMA WriteUsesUp ==
    ASSUME TypeOK, ScheduleInv, NEW c \in Conns, bufferevent_writecb(c)
    PROVE  vars' # vars \/ polled' # polled
<1>1. CASE output[c] = <<>> /\ event_del(c)
  <2>1. /\ activeq # <<>> /\ Head(activeq) = WriteEvent(c)
        /\ activeq \in Seq(AllEvents \cup {ExitEvent})
    BY DEF bufferevent_writecb, Runs, ScheduleInv, QueueInv
  <2>2. 1 \in 1 .. Len(activeq) /\ activeq[1] = WriteEvent(c)
    BY <2>1, HeadTailProperties, LenProperties, EmptySeq
  <2>3. Added(WriteEvent(c))
    BY <2>2, EventsDistinct DEF ScheduleInv, QueueInv
  <2>4. c \in polled
    BY <2>3, EventsDistinct DEF Added, AddedIn
  <2>5. QED
    BY <1>1, <2>4 DEF event_del
<1>2. CASE WriteOut(c)
  <2>1. PICK k \in 1 .. Len(output[c]) :
           output' = [output EXCEPT ![c] = SubSeq(@, k + 1, Len(@))]
    BY <1>2 DEF WriteOut
  <2>2. /\ output \in [Conns -> Seq(Conns \X (Nat \ {0}))]
        /\ output[c] \in Seq(Conns \X (Nat \ {0})) /\ Len(output[c]) \in Nat
    BY LenProperties DEF TypeOK, BufferTypes, Streams
  <2>3. output'[c] = SubSeq(output[c], k + 1, Len(output[c]))
    BY <2>1, <2>2
  <2>4. Len(output'[c]) = Len(output[c]) - k
    BY <2>1, <2>2, <2>3, SplitJoin
  <2>5. output' # output
    BY <2>1, <2>2, <2>4
  <2>6. QED
    BY <2>5 DEF vars, bufVars
<1>3. CASE WriteError(c)
  <2>1. writing' # writing
    BY <1>3 DEF WriteError, Writable
  <2>2. QED
    BY <2>1 DEF vars, connVars
<1>4. CASE WriteSigpipe(c)
  <2>1. proc' # proc
    BY <1>4 DEF WriteSigpipe, Writable, Running
  <2>2. QED
    BY <2>1 DEF vars, procVars
<1>5. QED
  BY <1>1, <1>2, <1>3, <1>4 DEF bufferevent_writecb

\* Only a callback takes an event from the queue.
LEMMA OnlyCallbacksTake ==
    ASSUME TypeOK, ScheduleInv, [LoopNext]_allVars, Len(activeq') < Len(activeq)
    PROVE  \/ event_loopexit_cb
           \/ \E c \in Conns : bufferevent_readcb(c) \/ bufferevent_writecb(c)
           \/ \E port \in Ports : listener_read_cb(port)
<1>1. Len(activeq) \in Nat
  BY LenProperties DEF ScheduleInv, QueueInv
<1>2. activeq' # activeq
  BY <1>1
<1>3. CASE Dispatch
  <2>1. activeq = <<>> /\ ScheduleInv'
    BY <1>3, DispatchStep DEF Dispatch, AtTop
  <2>2. Len(activeq') \in Nat /\ Len(activeq) = 0
    BY <2>1, LenProperties, EmptySeq DEF ScheduleInv, QueueInv
  <2>3. QED
    BY <2>2
<1>4. QED
  BY <1>2, <1>3 DEF LoopNext, LoopStep, PeerStep, LoopEnds, Accepts, AcceptFails,
     loopVars, allVars

(* The loop does not spin on a connection: every callback that it runs for *)
(* one uses up input, output, or the event that was active.                *)
THEOREM CallbacksProgress == LoopSpec => Progress
<1>1. ASSUME TypeOK, ScheduleInv, [LoopNext]_allVars, Len(activeq') < Len(activeq),
             NEW c \in Conns, Head(activeq) \in {ReadEvent(c), WriteEvent(c)}
      PROVE  vars' # vars \/ polled' # polled
  <2>1. ~event_loopexit_cb /\ \A port \in Ports : ~listener_read_cb(port)
    BY <1>1, EventsDistinct DEF event_loopexit_cb, listener_read_cb, Runs
  <2>2. PICK d \in Conns : bufferevent_readcb(d) \/ bufferevent_writecb(d)
    BY <1>1, <2>1, OnlyCallbacksTake
  <2>3. QED
    BY <1>1, <2>2, ReadUsesUp, WriteUsesUp
<1>2. TypeOK /\ ScheduleInv /\ [LoopNext]_allVars
         => [/\ Len(activeq') < Len(activeq)
             /\ \E c \in Conns : Head(activeq) \in {ReadEvent(c), WriteEvent(c)}
             => vars' # vars \/ polled' # polled]_allVars
  BY <1>1
<1>3. QED
  BY <1>2, ScheduleInvariant, PTL DEF LoopSpec, Progress
=============================================================================
