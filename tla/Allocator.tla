----------------------------- MODULE Allocator -----------------------------
(***************************************************************************)
(* What a memory pool promises: while it is open it hands out cells that   *)
(* nobody holds and takes them back; when it is closed nothing more comes. *)
(***************************************************************************)
EXTENDS Naturals

CONSTANT Cells

VARIABLES live,   \* the cells handed out and not taken back
          count,  \* how many times a cell was handed out and not taken back
          open    \* the pool can be used

vars == <<live, count, open>>

Init == /\ live = {}
        /\ count = 0
        /\ open = FALSE

Open == /\ ~open
        /\ live = {}
        /\ open' = TRUE
        /\ UNCHANGED <<live, count>>

\* A cell handed out is nobody else's, however often cells go and come.
Alloc == /\ open
         /\ \E c \in Cells \ live : live' = live \cup {c}
         /\ count' = count + 1
         /\ UNCHANGED open

Free == /\ open
        /\ \E c \in live : live' = live \ {c}
        /\ count' = count - 1
        /\ UNCHANGED open

Close == /\ open
         /\ open' = FALSE
         /\ \/ UNCHANGED <<live, count>>
            \/ live' = {} /\ count' = 0

Next == Open \/ Alloc \/ Free \/ Close

Spec == Init /\ [][Next]_vars
=============================================================================
