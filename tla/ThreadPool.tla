----------------------------- MODULE ThreadPool -----------------------------
(***************************************************************************)
(* The thread pool: src/lib/thread_pool/thread_pool.c.  init_thread_pool   *)
(* makes the pool, and threads of the caller add tasks to its ring under   *)
(* the mutex.  Every access to the ring is a step of its own.              *)
(*                                                                         *)
(* No worker thread exists: the loop that creates them runs while          *)
(* i < thread_num, the field, which memset has cleared.  So nothing ever   *)
(* takes a task out of the ring, and worker_thread_func has no action.     *)
(***************************************************************************)
EXTENDS Integers, Sequences, FiniteSets

CONSTANTS Producers,        \* threads that call thread_pool_add
          TASK_QUEUE_SIZE,
          MaxCalls,         \* bound: calls of each producer
          ThreadNum,        \* the argument of init_thread_pool
          Nobody            \* the mutex is free

ASSUME PoolAssumption == /\ TASK_QUEUE_SIZE \in Nat \ {0}
                         /\ MaxCalls \in Nat
                         /\ ThreadNum \in Nat \ {0}
                         /\ Nobody \notin Producers

VARIABLES pool,       \* "none", "ready", or "failed": init returned -1
          started,    \* the field: threads that have been created
          tasks,      \* the ring: tasks[i] has the fields func and arg
          head, tail, \* its indexes
          lock,       \* the holder of the mutex
          pc,         \* pc[p]: where p is in thread_pool_add
          calls,      \* calls[p]: the calls that p has begun
          accepted,   \* the tasks for which 0 has been or will be returned
          refused     \* those for which -1 has been or will be returned

ring == <<tasks, head, tail>>
poolVars == <<pool, started, ring, lock, pc, calls, accepted, refused>>

\* The n-th task of p.  A slot of fresh memory has neither of its halves.
Task(p, n) == <<p, n>>
AllTasks == Producers \X (1 .. MaxCalls)
Garbage == <<Nobody, 0>>

Current(p) == Task(p, calls[p])

PoolInit == /\ pool = "none"
            /\ started = 0
            /\ tasks = [i \in 0 .. TASK_QUEUE_SIZE - 1 |->
                           [func |-> Garbage, arg |-> Garbage]]
            /\ head = 0
            /\ tail = 0
            /\ lock = Nobody
            /\ pc = [p \in Producers |-> "idle"]
            /\ calls = [p \in Producers |-> 0]
            /\ accepted = <<>>
            /\ refused = {}

\* Four calls of malloc; no thread is created, whatever thread_num is.
init_thread_pool ==
    /\ pool = "none"
    /\ pool' \in {"ready", "failed"}
    /\ head' = 0
    /\ tail' = 0
    /\ UNCHANGED <<started, tasks, lock, pc, calls, accepted, refused>>

-----------------------------------------------------------------------------
(* thread_pool_add.                                                        *)

Bug_QueueIsFull == head = tail

QUEUE_IS_FULL == head = (tail + 1) % TASK_QUEUE_SIZE

At(p, from, to) == /\ pc[p] = from
                   /\ pc' = [pc EXCEPT ![p] = to]

Call(p) == /\ pool = "ready"
           /\ calls[p] < MaxCalls
           /\ At(p, "idle", "lock")
           /\ calls' = [calls EXCEPT ![p] = @ + 1]
           /\ UNCHANGED <<pool, started, ring, lock, accepted, refused>>

Bug_NoLock(p) == /\ At(p, "lock", "test")
                 /\ UNCHANGED <<pool, started, ring, lock, calls, accepted, refused>>

Lock(p) == /\ At(p, "lock", "test")
           /\ lock = Nobody
           /\ lock' = p
           /\ UNCHANGED <<pool, started, ring, calls, accepted, refused>>

TestFull(p) ==
    /\ \/ /\ QUEUE_IS_FULL
          /\ At(p, "test", "unlock")
          /\ refused' = refused \cup {Current(p)}
       \/ /\ ~QUEUE_IS_FULL
          /\ At(p, "test", "func")
          /\ UNCHANGED refused
    /\ UNCHANGED <<pool, started, ring, lock, calls, accepted>>

StoreFunc(p) ==
    /\ At(p, "func", "arg")
    /\ tasks' = [tasks EXCEPT ![tail].func = Current(p)]
    /\ UNCHANGED <<pool, started, head, tail, lock, calls, accepted, refused>>

StoreArg(p) ==
    /\ At(p, "arg", "tail")
    /\ tasks' = [tasks EXCEPT ![tail].arg = Current(p)]
    /\ UNCHANGED <<pool, started, head, tail, lock, calls, accepted, refused>>

\* QUEUE_ADD_POS(tail).  The signal that follows finds nobody waiting.
AddPos(p) ==
    /\ At(p, "tail", "unlock")
    /\ tail' = (tail + 1) % TASK_QUEUE_SIZE
    /\ accepted' = Append(accepted, Current(p))
    /\ UNCHANGED <<pool, started, tasks, head, lock, calls, refused>>

Bug_ReturnLocked(p) ==
    /\ At(p, "unlock", "idle")
    /\ lock' = IF Current(p) \in refused THEN lock ELSE Nobody
    /\ UNCHANGED <<pool, started, ring, calls, accepted, refused>>

\* On both ways out.
Unlock(p) == /\ At(p, "unlock", "idle")
             /\ lock' = Nobody
             /\ UNCHANGED <<pool, started, ring, calls, accepted, refused>>

thread_pool_add(p) == \/ Lock(p) \/ TestFull(p) \/ StoreFunc(p)
                      \/ StoreArg(p) \/ AddPos(p) \/ Unlock(p)

PoolNext == \/ init_thread_pool
            \/ \E p \in Producers : Call(p) \/ thread_pool_add(p)

PoolSpec == PoolInit /\ [][PoolNext]_poolVars

\* A thread that can go on does.  (Calls are finitely many, so a thread that
\* waits for the mutex meets no endless overtaking.)
PoolFairness == \A p \in Producers : WF_poolVars(thread_pool_add(p))

-----------------------------------------------------------------------------
(* Properties.                                                             *)

Length == (tail + TASK_QUEUE_SIZE - head) % TASK_QUEUE_SIZE

Slot(i) == tasks[(head + i - 1) % TASK_QUEUE_SIZE]

(* The ring holds the accepted tasks, each with its own function and its   *)
(* own argument, in the order of their acceptance, whatever the order in   *)
(* which the producers take the mutex and however often the ring is full.  *)
RingIsAccepted ==
    /\ Length = Len(accepted)
    /\ \A i \in 1 .. Length : Slot(i) = [func |-> accepted[i], arg |-> accepted[i]]

(* A task is refused only when TASK_QUEUE_SIZE - 1 tasks are in the ring,  *)
(* and each is accepted or refused once (the abstract queue).              *)
Queue == INSTANCE BoundedQueue WITH Tasks <- AllTasks,
                                    Capacity <- TASK_QUEUE_SIZE - 1,
                                    queue <- accepted
QueueSpec == Queue!Spec

(* Every call returns, the ones that find the ring full included: none     *)
(* leaves with the mutex.                                                  *)
EveryCallReturns == \A p \in Producers : pc[p] # "idle" ~> pc[p] = "idle"

(* "thread_num is the number of threads of the pool" (comment of           *)
(* init_thread_pool): when it has returned 0 they have been started.       *)
ThreadsStarted == pool = "ready" => started = ThreadNum
=============================================================================
