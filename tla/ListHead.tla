------------------------------ MODULE ListHead ------------------------------
(***************************************************************************)
(* The circular lists of src/lib/mem_pool/list.h: the memory of some list  *)
(* heads and entries, and the operations as a caller may use them.  The    *)
(* caller knows which list it has put an entry in, and does not use a head *)
(* that it has spliced into another list before it has initialised it      *)
(* again: nothing in list.h tells it.                                      *)
(***************************************************************************)
EXTENDS Integers, Sequences, FiniteSets, SequencesExt

CONSTANTS Heads,     \* struct list_head variables that stand for a list
          Entries,   \* struct list_head members of elements
          Wild       \* a pointer that was never assigned

ASSUME ListAssumption == /\ Heads \cap Entries = {}
                         /\ Wild \notin Heads \cup Entries
                         /\ IsFiniteSet(Entries)

Nodes == Heads \cup Entries

VARIABLES next, prev,  \* the two pointers of every node
          live,        \* heads that stand for a list
          owner,       \* owner[e]: the head of the list that e is in, or Wild
          loop         \* a list_for_each_safe in progress

memory == <<next, prev>>
listVars == <<next, prev, live, owner, loop>>

NoLoop == [head |-> Wild, pos |-> Wild, n |-> Wild, seen |-> <<>>, all |-> <<>>]

ListInit == /\ next = [x \in Nodes |-> Wild]
            /\ prev = [x \in Nodes |-> Wild]
            /\ live = {}
            /\ owner = [e \in Entries |-> Wild]
            /\ loop = NoLoop

-----------------------------------------------------------------------------
(* Reading the memory.                                                     *)

\* The nodes met from a head along a pointer until it returns to the head; at
\* most as many as there are entries.
Along(ptr, h) ==
    LET Node[i \in 0 .. Cardinality(Entries)] ==
            IF i = 0 THEN ptr[h]
            ELSE IF Node[i - 1] \in Entries THEN ptr[Node[i - 1]] ELSE Node[i - 1]
        Before == {i \in DOMAIN Node : Node[i] \in Entries}
    IN  [i \in 1 .. Cardinality(Before) |-> Node[i - 1]]

list_for_each(h) == Along(next, h)
list_for_each_prev(h) == Along(prev, h)

list_empty(h) == next[h] = h

-----------------------------------------------------------------------------
(* The operations, as what they make of the two pointers of all nodes.     *)

Mem(nx, pv) == [next |-> nx, prev |-> pv]
Now == Mem(next, prev)

Bug_PrevNotSet(m, new, before, after) ==
    Mem([m.next EXCEPT ![new] = after, ![before] = new],
        [m.prev EXCEPT ![new] = before])

Added(m, new, before, after) ==
    Mem([m.next EXCEPT ![new] = after, ![before] = new],
        [m.prev EXCEPT ![after] = new, ![new] = before])

Deleted(m, e) == Mem([m.next EXCEPT ![m.prev[e]] = m.next[e]],
                     [m.prev EXCEPT ![m.next[e]] = m.prev[e]])

Initialised(m, x) == Mem([m.next EXCEPT ![x] = x], [m.prev EXCEPT ![x] = x])

AddedTail(m, e, h) == Added(m, e, m.prev[h], h)

Spliced(l, h) ==
    Mem([next EXCEPT ![h] = next[l], ![prev[l]] = next[h]],
        [prev EXCEPT ![next[l]] = h, ![next[h]] = prev[l]])

Store(m) == next' = m.next /\ prev' = m.prev

INIT_LIST_HEAD(h) == /\ h \notin live
                     /\ Store(Initialised(Now, h))
                     /\ live' = live \cup {h}
                     /\ UNCHANGED <<owner, loop>>

Bug_AddedAtTail(e, h) == /\ h \in live
                         /\ owner[e] = Wild
                         /\ Store(AddedTail(Now, e, h))
                         /\ owner' = [owner EXCEPT ![e] = h]
                         /\ UNCHANGED <<live, loop>>

list_add(e, h) == /\ h \in live
                  /\ owner[e] = Wild
                  /\ Store(Added(Now, e, h, next[h]))
                  /\ owner' = [owner EXCEPT ![e] = h]
                  /\ UNCHANGED <<live, loop>>

list_add_tail(e, h) == /\ h \in live
                       /\ owner[e] = Wild
                       /\ Store(AddedTail(Now, e, h))
                       /\ owner' = [owner EXCEPT ![e] = h]
                       /\ UNCHANGED <<live, loop>>

Removal(e, m) == /\ owner[e] # Wild
                 /\ Store(m)
                 /\ owner' = [owner EXCEPT ![e] = Wild]
                 /\ UNCHANGED <<live, loop>>

\* The pointers of e stay what they were.
list_del(e) == Removal(e, Deleted(Now, e))

list_del_init(e) == Removal(e, Initialised(Deleted(Now, e), e))

\* The head of a list that was not empty keeps its pointers into the list that
\* it has been joined to.
list_splice(l, h) ==
    /\ {l, h} \subseteq live
    /\ l # h
    /\ \/ list_empty(l) /\ UNCHANGED <<memory, live, owner>>
       \/ /\ ~list_empty(l)
          /\ Store(Spliced(l, h))
          /\ live' = live \ {l}
          /\ owner' = [e \in Entries |-> IF owner[e] = l THEN h ELSE owner[e]]
    /\ UNCHANGED loop

-----------------------------------------------------------------------------
(* list_for_each_safe with a body that may remove the current entry, or    *)
(* move it to another list, and touches no other entry.                    *)

LoopStart(h) == /\ h \in live
                /\ loop' = [head |-> h, pos |-> next[h], n |-> next[next[h]],
                            seen |-> <<>>, all |-> list_for_each(h)]
                /\ UNCHANGED <<memory, live, owner>>

Bug_NextAfterBody(m) ==
    loop' = [loop EXCEPT !.pos = m.next[loop.pos],
                         !.n = m.next[m.next[loop.pos]],
                         !.seen = Append(@, loop.pos)]

\* pos = n, n = pos->next, in the memory that the body has left.
Advance(m) ==
    loop' = [loop EXCEPT !.pos = loop.n,
                         !.n = m.next[loop.n],
                         !.seen = Append(@, loop.pos)]

LoopKeep == /\ Advance(Now)
            /\ UNCHANGED <<memory, live, owner>>

LoopDelete ==
    \E m \in {Deleted(Now, loop.pos),
              Initialised(Deleted(Now, loop.pos), loop.pos)} :
        /\ Store(m)
        /\ Advance(m)
        /\ owner' = [owner EXCEPT ![loop.pos] = Wild]
        /\ UNCHANGED live

LoopMove(h) ==
    LET m == AddedTail(Deleted(Now, loop.pos), loop.pos, h)
    IN  /\ h \in live \ {loop.head}
        /\ Store(m)
        /\ Advance(m)
        /\ owner' = [owner EXCEPT ![loop.pos] = h]
        /\ UNCHANGED live

LoopBody == /\ loop.pos # loop.head
            /\ LoopKeep \/ LoopDelete \/ \E h \in Heads : LoopMove(h)

LoopEnd == /\ loop.pos = loop.head
           /\ loop' = NoLoop
           /\ UNCHANGED <<memory, live, owner>>

ListNext ==
    \/ /\ loop = NoLoop
       /\ \E h \in Heads :
             \/ INIT_LIST_HEAD(h)
             \/ LoopStart(h)
             \/ \E l \in Heads : list_splice(l, h)
             \/ \E e \in Entries : list_add(e, h) \/ list_add_tail(e, h)
    \/ /\ loop = NoLoop
       /\ \E e \in Entries : list_del(e) \/ list_del_init(e)
    \/ /\ loop # NoLoop
       /\ LoopBody \/ LoopEnd

ListSpec == ListInit /\ [][ListNext]_listVars

-----------------------------------------------------------------------------
(* Properties.                                                             *)

(* Every live list is the same forwards and backwards, ends where it began *)
(* and holds exactly the entries that the caller has put there; list_empty *)
(* tells the truth.  (__list_add, __list_del and list_splice write up to   *)
(* four pointers each, in lists of any length, the empty one included.)    *)
ListsIntact ==
    \A h \in live :
        LET s == list_for_each(h)
        IN  /\ list_for_each_prev(h) = Reverse(s)
            /\ ToSet(s) = {e \in Entries : owner[e] = h}
            /\ list_empty(h) <=> s = <<>>

(* list_for_each_safe meets the entries that were in the list when it      *)
(* began, each once and in order, although the body removes or moves them. *)
SafeLoopMeetsAll ==
    loop # NoLoop =>
        /\ IsPrefix(loop.seen, loop.all)
        /\ loop.pos = loop.head => loop.seen = loop.all

(* What the memory stands for: sequences of entries.                       *)
Lists == [h \in Heads |-> IF h \in live THEN list_for_each(h) ELSE <<>>]

Abstract == INSTANCE ListSeq WITH lists <- Lists

(* Each operation does to the sequences of entries what its comment says,  *)
(* and not what another one does: list_add puts the entry at the front and *)
(* list_add_tail at the back, list_del and list_del_init take out the one  *)
(* entry that they are given, and list_splice joins all of a list to the   *)
(* front of the other.  A loop over a list changes none; its body takes    *)
(* out the entry that it stands at, or moves it to the back of another     *)
(* list.                                                                   *)
CallsKeepPromise ==
    \A h \in Heads :
        /\ INIT_LIST_HEAD(h) \/ LoopStart(h) => UNCHANGED Lists
        /\ \A l \in Heads : list_splice(l, h) => Abstract!Join(l, h)
        /\ \A e \in Entries :
              /\ list_add(e, h) => Abstract!AddFront(e, h)
              /\ list_add_tail(e, h) => Abstract!AddBack(e, h)
              /\ list_del(e) \/ list_del_init(e) => Abstract!Delete(e, owner[e])

BodyKeepsPromise ==
    /\ LoopKeep => UNCHANGED Lists
    /\ LoopDelete => Abstract!Delete(loop.pos, loop.head)
    /\ \A h \in Heads : LoopMove(h) => Abstract!Move(loop.pos, loop.head, h)

ListSeqSpec ==
    /\ Abstract!Spec
    /\ [][/\ CallsKeepPromise
          /\ loop.pos # loop.head => BodyKeepsPromise
          /\ LoopEnd => UNCHANGED Lists]_listVars
=============================================================================
