----------------------------- MODULE GatedLoop -----------------------------
(***************************************************************************)
(* Gated on the event loop that runs it: event_base_loop of libevent with  *)
(* the epoll backend, its bufferevents and its listeners.                  *)
(*                                                                         *)
(* Gated lets any callback run whenever its socket allows it.  Here one    *)
(* thread polls, puts the events of all ready descriptors into the active  *)
(* queue, and runs their callbacks one after the other while the peers go  *)
(* on; what it does not poll for does not run.  The one fairness           *)
(* assumption is that this thread runs, and the fairness of Gated follows. *)
(*                                                                         *)
(* ev_read of a connection is added exactly while EV_READ is enabled       *)
(* (reading).  ev_write is not: it is deleted when the output is drained   *)
(* and added again when there is output (polled).                          *)
(***************************************************************************)
EXTENDS Gated, SequencesExt

ASSUME ConnsFinite == IsFiniteSet(Conns)

VARIABLES activeq,    \* the active queue: what process_active has still to run
          polled,     \* connections whose ev_write is added
          timer,      \* the once-event of event_base_loopexit is in the heap
          gotterm,    \* base->event_gotterm
          accepting   \* the port whose listener_read_cb is accepting, or Idle

loopVars == <<activeq, polled, timer, gotterm, accepting>>
allVars == <<vars, loopVars>>

Idle == "idle"
Ports == {"inter", "outer"}
ConnsOf(port) == IF port = "inter" THEN Inter ELSE Clients

ReadEvent(c) == <<"read", c>>
WriteEvent(c) == <<"write", c>>
ListenEvent(port) == <<"listen", port>>
ExitEvent == <<"exit", Idle>>

LoopInit == /\ Init
            /\ activeq = <<>>
            /\ polled = {}
            /\ timer = FALSE
            /\ gotterm = FALSE
            /\ accepting = Idle

-----------------------------------------------------------------------------
(* Polling.                                                                *)

Readable(c) == c \in reading /\ (chan[c] # <<>> \/ peer[c] # "open")

Pending(port) == \E c \in ConnsOf(port) : sock[c] = "pending"

\* The events that are ready.  Sockets have room for output: the peers keep
\* reading.
Events == {ReadEvent(c) : c \in {d \in Conns : Readable(d)}}
              \cup {WriteEvent(c) : c \in polled}
              \cup {ListenEvent(port) : port \in {q \in Ports : Pending(q)}}

\* A descriptor activates its events together, in the order in which they were
\* added: a bufferevent adds ev_read before ev_write.
Together(queue) ==
    \A c \in Conns : \A i, j \in DOMAIN queue :
        queue[i] = ReadEvent(c) /\ queue[j] = WriteEvent(c) => j = i + 1

\* The events that timeout_process moves to the active queue: the timer of
\* loopexit is due at once.
Expired == IF timer THEN <<ExitEvent>> ELSE <<>>

AtTop == Running /\ activeq = <<>> /\ accepting = Idle

Bug_OneEventOnly ==
    /\ AtTop
    /\ ~gotterm
    /\ timer \/ Events # {}
    /\ \/ Events = {} /\ activeq' = <<ExitEvent>>
       \/ \E event \in Events : activeq' = <<event>> \o Expired
    /\ timer' = FALSE
    /\ UNCHANGED <<vars, polled, gotterm, accepting>>

Bug_TimeoutLostWhenBusy ==
    /\ AtTop
    /\ ~gotterm
    /\ timer \/ Events # {}
    /\ \E queue \in SetToSeqs(Events) :
          /\ Together(queue)
          /\ activeq' = IF Events = {} THEN Expired ELSE queue
    /\ timer' = FALSE
    /\ UNCHANGED <<vars, polled, gotterm, accepting>>

\* epoll_wait returns all ready descriptors, in any order; timeout_process
\* follows, and puts a timer that is due behind them.
Dispatch ==
    /\ AtTop
    /\ ~gotterm
    /\ timer \/ Events # {}
    /\ \E queue \in SetToSeqs(Events) : /\ Together(queue)
                                       /\ activeq' = queue \o Expired
    /\ timer' = FALSE
    /\ UNCHANGED <<vars, polled, gotterm, accepting>>

LoopEnds == /\ AtTop
            /\ gotterm
            /\ gated_start_returns
            /\ UNCHANGED loopVars

-----------------------------------------------------------------------------
(* Running the first event of the active queue.                            *)

Runs(event) == /\ activeq # <<>>
               /\ accepting = Idle
               /\ Head(activeq) = event
               /\ activeq' = Tail(activeq)
               /\ UNCHANGED <<gotterm>>

event_add(c) == polled' = polled \cup {c}
event_del(c) == polled' = polled \ {c}
event_base_loopexit == timer' = TRUE

Bug_OutbufIgnored(c) == UNCHANGED polled

\* bufferevent_socket_outbuf_cb: there is new output.
outbuf_cb(c) ==
    \/ c \in writing /\ event_add(c)
    \/ c \notin writing /\ UNCHANGED polled

bufferevent_readcb(c) ==
    /\ Runs(ReadEvent(c))
    /\ \/ \E k \in 1 .. Len(chan[c]) : \/ /\ gamed_read_cb(c, k)
                                          /\ UNCHANGED <<polled, timer>>
                                       \/ /\ client_read_cb(c, k)
                                          /\ outbuf_cb(c)
                                          /\ UNCHANGED timer
       \/ gamed_error_cb(c) /\ event_base_loopexit /\ UNCHANGED polled
       \/ client_error_cb(c) /\ UNCHANGED <<polled, timer>>
    /\ UNCHANGED accepting

Bug_NotDeletedWhenDrained(c) ==
    /\ Runs(WriteEvent(c))
    /\ \/ output[c] = <<>> /\ UNCHANGED <<vars, polled>>
       \/ WriteOut(c) /\ UNCHANGED polled
       \/ WriteError(c) /\ event_del(c)
       \/ WriteSigpipe(c) /\ UNCHANGED polled
    /\ UNCHANGED <<timer, accepting>>

\* ev_write is deleted when the output is empty, as it is when the connection
\* has just been accepted, and on an error.
bufferevent_writecb(c) ==
    /\ Runs(WriteEvent(c))
    /\ \/ /\ output[c] = <<>>
          /\ event_del(c)
          /\ UNCHANGED vars
       \/ /\ WriteOut(c)
          /\ IF output'[c] = <<>> THEN event_del(c) ELSE UNCHANGED polled
       \/ WriteError(c) /\ event_del(c)
       \/ WriteSigpipe(c) /\ UNCHANGED polled
    /\ UNCHANGED <<timer, accepting>>

\* listener_read_cb accepts until accept fails; the peers may connect meanwhile.
listener_read_cb(port) == /\ Runs(ListenEvent(port))
                          /\ accepting' = port
                          /\ UNCHANGED <<vars, polled, timer>>

\* Accepting a connection of the inter port may be the end of the loop: see
\* gamed_accept_cb.
Accepts(c) ==
    /\ accepting # Idle
    /\ c \in ConnsOf(accepting)
    /\ \/ client_accept_cb(c) /\ UNCHANGED <<timer, accepting>>
       \/ \E n \in 0 .. 1 :
             /\ gamed_accept_cb(c, n)
             /\ \/ n = 0 /\ FreeDescriptor' /\ UNCHANGED <<timer, accepting>>
                \/ /\ n = 1 \/ ~FreeDescriptor'
                   /\ event_base_loopexit
                   /\ accepting' = Idle
    /\ IF sock'[c] = "accepted" THEN event_add(c) ELSE UNCHANGED polled
    /\ UNCHANGED <<activeq, gotterm>>

\* Nobody waits any more (EAGAIN), or accept fails in another way; on the outer
\* port that is the same.
AcceptFails ==
    /\ \/ /\ accepting \in Ports
          /\ ~Pending(accepting)
          /\ UNCHANGED <<vars, timer>>
       \/ accepting = "inter" /\ gamed_accept_error_cb /\ event_base_loopexit
       \/ accepting = "outer" /\ client_accept_error_cb /\ UNCHANGED timer
    /\ accepting' = Idle
    /\ UNCHANGED <<activeq, polled, gotterm>>

event_loopexit_cb == /\ activeq # <<>>
                     /\ accepting = Idle
                     /\ Head(activeq) = ExitEvent
                     /\ activeq' = Tail(activeq)
                     /\ gotterm' = TRUE
                     /\ UNCHANGED <<vars, polled, timer, accepting>>

-----------------------------------------------------------------------------
\* The thread of gated.
LoopStep == /\ proc \notin Ended
            /\ \/ gated_init /\ UNCHANGED loopVars
               \/ Dispatch
               \/ LoopEnds
               \/ event_loopexit_cb
               \/ \E c \in Conns : \/ bufferevent_readcb(c)
                                   \/ bufferevent_writecb(c)
                                   \/ Accepts(c)
               \/ \E port \in Ports : listener_read_cb(port)
               \/ AcceptFails

PeerStep == (\E c \in Conns : Peer(c)) /\ UNCHANGED loopVars

LoopNext == LoopStep \/ PeerStep

LoopSpec == LoopInit /\ [][LoopNext]_allVars /\ WF_allVars(LoopStep)

-----------------------------------------------------------------------------
(* Properties.                                                             *)

(* Types, and what the loop has to do is registered.  Only events that    *)
(* are added are in the active queue, each once, the timer behind the rest *)
(* although callbacks delete events while it is worked off.  And           *)
(* event_base_loopexit is neither lost nor starved by busy sockets: until  *)
(* gated returns its timer stands, or its event is in the active queue of  *)
(* this very round, or the loop has been told.                             *)
LoopIntact ==
    /\ polled \subseteq writing
    /\ timer \in BOOLEAN /\ gotterm \in BOOLEAN
    /\ accepting \in Ports \cup {Idle}
    /\ IsInjective(activeq)
    /\ \A i \in DOMAIN activeq :
          \/ \E c \in reading : activeq[i] = ReadEvent(c)
          \/ \E c \in polled : activeq[i] = WriteEvent(c)
          \/ \E port \in Ports : activeq[i] = ListenEvent(port)
          \/ activeq[i] = ExitEvent /\ i = Len(activeq)
    /\ Running /\ exiting =>
          timer \/ gotterm \/ \E i \in DOMAIN activeq : activeq[i] = ExitEvent

(* No lost wake-up: a connection that has output, and whose writing has    *)
(* not failed, is polled for writing, in whatever order evbuffer_add_buffer*)
(* and the write callback that deletes the event come.                     *)
OutputIsPolled ==
    Running => \A c \in writing : output[c] # <<>> => c \in polled

(* The loop does not spin: a callback that runs uses up what made its      *)
(* descriptor ready (or deletes the event), so that a level-triggered poll *)
(* does not report the same again.  The one exception is a client that     *)
(* cannot be accepted for lack of descriptors, which makes gated spin.     *)
Progress ==
    [][/\ Len(activeq') < Len(activeq)
       /\ \E c \in Conns : Head(activeq) \in {ReadEvent(c), WriteEvent(c)}
       => vars' # vars \/ polled' # polled]_allVars

(* What Gated assumes of the event loop, the loop provides: every callback *)
(* that stays possible is run.                                             *)
GatedFairSpec == FairSpec
=============================================================================
