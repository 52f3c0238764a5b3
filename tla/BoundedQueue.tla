---------------------------- MODULE BoundedQueue ----------------------------
(***************************************************************************)
(* What the task queue of the thread pool promises to those who add tasks: *)
(* a queue that keeps every accepted task, in order, refuses one only when *)
(* it holds Capacity tasks and answers each task once.  ThreadPool         *)
(* implements this specification.                                          *)
(***************************************************************************)
EXTENDS Integers, Sequences

CONSTANTS Tasks, Capacity

VARIABLES queue, refused

Init == /\ queue = <<>>
        /\ refused = {}

\* No task is answered twice.
Fresh(t) == t \notin refused /\ \A i \in 1 .. Len(queue) : queue[i] # t

Accept(t) == /\ Len(queue) < Capacity
             /\ Fresh(t)
             /\ queue' = Append(queue, t)
             /\ UNCHANGED refused

Refuse(t) == /\ Len(queue) = Capacity
             /\ Fresh(t)
             /\ refused' = refused \cup {t}
             /\ UNCHANGED queue

Next == \E t \in Tasks : Accept(t) \/ Refuse(t)

Spec == Init /\ [][Next]_<<queue, refused>>
=============================================================================
