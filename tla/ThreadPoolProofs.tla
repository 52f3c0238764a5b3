-------------------------- MODULE ThreadPoolProofs --------------------------
(***************************************************************************)
(* Theorems about ThreadPool, for any producers, any size of the ring and  *)
(* any number of calls.                                                    *)
(*                                                                         *)
(* The argument is mutual exclusion: only the holder of the mutex is       *)
(* between the test of the ring and the update of tail, so what the test   *)
(* found and what has been stored at tail are still so when tail moves on. *)
(***************************************************************************)
EXTENDS ThreadPool, SequenceTheorems, TLAPS

-----------------------------------------------------------------------------
(* The inductive invariant.                                                *)

\* The steps of thread_pool_add between lock and unlock.
Storing == {"func", "arg", "tail"}
Inside  == {"test", "unlock"} \cup Storing

Indexes == 0 .. TASK_QUEUE_SIZE - 1

Stored == AllTasks \cup {Garbage}

ThreadTypes ==
    /\ pool \in {"none", "ready", "failed"}
    /\ lock \in Producers \cup {Nobody}
    /\ pc \in [Producers -> {"idle", "lock"} \cup Inside]
    /\ calls \in [Producers -> 0 .. MaxCalls]
    /\ \A p \in Producers : pc[p] # "idle" => calls[p] \in 1 .. MaxCalls

\* The mutex is held by the thread that is inside.
MutexHeld == \A p \in Producers : pc[p] \in Inside <=> lock = p

\* Nothing is taken out: head stays where it is and tail counts.
RingShape ==
    /\ tasks \in [Indexes -> [func : Stored, arg : Stored]]
    /\ head = 0
    /\ tail \in Indexes
    /\ accepted \in Seq(AllTasks)
    /\ Len(accepted) = tail
    /\ refused \subseteq AllTasks

SlotsFilled ==
    \A i \in 1 .. tail : tasks[i - 1] = [func |-> accepted[i], arg |-> accepted[i]]

\* The slot at tail while a thread fills it.
SlotAtTail ==
    \A p \in Producers :
        /\ pc[p] \in Storing => tail + 1 \in Indexes
        /\ pc[p] \in {"arg", "tail"} => tasks[tail].func = Current(p)
        /\ pc[p] = "tail" => tasks[tail].arg = Current(p)

\* A task is answered in the call that brings it, and not before its end.
Answered(t) == \/ t[2] < calls[t[1]]
               \/ t[2] = calls[t[1]] /\ pc[t[1]] \in {"unlock", "idle"}

AnsweredOnly == /\ \A t \in refused : Answered(t)
                /\ \A i \in 1 .. Len(accepted) : Answered(accepted[i])

\* init_thread_pool has no thread in thread_pool_add to fear.
UsedWhenReady == pool # "ready" => tail = 0 /\ \A p \in Producers : pc[p] = "idle"

RingInv == /\ ThreadTypes
           /\ UsedWhenReady
           /\ MutexHeld
           /\ RingShape
           /\ SlotsFilled
           /\ SlotAtTail
           /\ AnsweredOnly

-----------------------------------------------------------------------------
(* Indexes modulo the size of the ring.                                    *)

LEMMA Wrap ==
    ASSUME NEW n \in Indexes
    PROVE  /\ n % TASK_QUEUE_SIZE = n
           /\ (n + TASK_QUEUE_SIZE) % TASK_QUEUE_SIZE = n
           /\ n + 1 \in Indexes => (n + 1) % TASK_QUEUE_SIZE = n + 1
           /\ n + 1 \notin Indexes => (n + 1) % TASK_QUEUE_SIZE = 0
<1>1. TASK_QUEUE_SIZE \in Nat /\ TASK_QUEUE_SIZE > 0
  BY PoolAssumption
<1>2. QED
  BY <1>1 DEF Indexes

LEMMA FullIndex ==
    ASSUME RingShape
    PROVE  /\ QUEUE_IS_FULL <=> tail + 1 = TASK_QUEUE_SIZE
           /\ ~QUEUE_IS_FULL <=> tail + 1 \in Indexes
<1>1. TASK_QUEUE_SIZE \in Nat /\ TASK_QUEUE_SIZE > 0
  BY PoolAssumption
<1>2. tail \in Indexes /\ head = 0
  BY DEF RingShape
<1>3. /\ tail + 1 \in Indexes => (tail + 1) % TASK_QUEUE_SIZE = tail + 1
      /\ tail + 1 \notin Indexes => (tail + 1) % TASK_QUEUE_SIZE = 0
  BY <1>2, Wrap
<1>4. QED
  BY <1>1, <1>2, <1>3 DEF QUEUE_IS_FULL, Indexes

LEMMA CurrentTask ==
    ASSUME ThreadTypes, NEW p \in Producers, pc[p] # "idle"
    PROVE  Current(p) \in AllTasks /\ Current(p)[1] = p /\ Current(p)[2] = calls[p]
BY DEF ThreadTypes, Current, Task, AllTasks

LEMMA InitRing == PoolInit => RingInv
<1> SUFFICES ASSUME PoolInit
             PROVE  RingInv
  OBVIOUS
<1>1. TASK_QUEUE_SIZE \in Nat /\ TASK_QUEUE_SIZE > 0 /\ MaxCalls \in Nat /\ Nobody \notin Producers
  BY PoolAssumption
<1>2. ThreadTypes
  BY <1>1 DEF PoolInit, ThreadTypes
<1>3. MutexHeld
  BY <1>1 DEF PoolInit, MutexHeld, Inside, Storing
<1>4. RingShape
  BY <1>1 DEF PoolInit, RingShape, Indexes, Stored
<1>5. SlotsFilled /\ SlotAtTail
  BY <1>1 DEF PoolInit, SlotsFilled, SlotAtTail, Storing
<1>6. AnsweredOnly
  BY DEF PoolInit, AnsweredOnly
<1>7. QED
  BY <1>2, <1>3, <1>4, <1>5, <1>6 DEF RingInv, UsedWhenReady, PoolInit

LEMMA AcceptedTasks ==
    ASSUME RingShape
    PROVE  /\ refused \subseteq AllTasks
           /\ \A i \in 1 .. Len(accepted) : accepted[i] \in AllTasks
BY ElementOfSeq DEF RingShape

-----------------------------------------------------------------------------
(* The steps.                                                              *)

QueueStep == Queue!Next \/ UNCHANGED <<accepted, refused>>

LEMMA StartStep ==
    ASSUME RingInv, init_thread_pool
    PROVE  RingInv' /\ QueueStep
<1>1. pool = "none" /\ pool' \in {"none", "ready", "failed"} /\ head' = 0
  BY DEF init_thread_pool
<1>2. tail' = tail
  BY DEF init_thread_pool, RingInv, UsedWhenReady
<1>3. UNCHANGED <<started, tasks, lock, pc, calls, accepted, refused>>
  BY DEF init_thread_pool
<1>4. QED
  BY <1>1, <1>2, <1>3
     DEF RingInv, ThreadTypes, UsedWhenReady, MutexHeld, RingShape, SlotsFilled, SlotAtTail,
         AnsweredOnly, Answered, Current, QueueStep

LEMMA CallStep ==
    ASSUME RingInv, NEW p \in Producers, Call(p)
    PROVE  RingInv' /\ QueueStep
<1>1. /\ UNCHANGED <<pool, tasks, head, tail, lock, accepted, refused>>
      /\ pc[p] = "idle" /\ pc' = [pc EXCEPT ![p] = "lock"]
      /\ calls[p] < MaxCalls /\ calls' = [calls EXCEPT ![p] = @ + 1]
      /\ pool = "ready"
  BY DEF Call, At, ring
<1>2. MaxCalls \in Nat /\ Nobody \notin Producers
  BY PoolAssumption
<1>3. ThreadTypes'
  BY <1>1, <1>2 DEF RingInv, ThreadTypes
<1>4. MutexHeld'
  BY <1>1 DEF RingInv, ThreadTypes, MutexHeld, Inside, Storing
<1>5. RingShape' /\ SlotsFilled'
  BY <1>1 DEF RingInv, RingShape, SlotsFilled
<1>6. SlotAtTail'
  BY <1>1 DEF RingInv, ThreadTypes, SlotAtTail, Storing, Current, Task
<1>7. AnsweredOnly'
  <2>1. ASSUME NEW t \in AllTasks, Answered(t)
        PROVE  Answered(t)'
    <3>1. t[1] \in Producers /\ t[2] \in 1 .. MaxCalls
      BY DEF AllTasks
    <3>2. calls[t[1]] \in 0 .. MaxCalls /\ calls[p] \in 0 .. MaxCalls
      BY <3>1 DEF RingInv, ThreadTypes
    <3>3. CASE t[1] = p
      <4>1. t[2] < calls'[p]
        BY <1>1, <2>1, <3>1, <3>2, <3>3 DEF Answered, RingInv, ThreadTypes
      <4>2. QED
        BY <3>3, <4>1 DEF Answered
    <3>4. CASE t[1] # p
      BY <1>1, <2>1, <3>1, <3>4 DEF Answered, RingInv, ThreadTypes
    <3>5. QED
      BY <3>3, <3>4
  <2>2. QED
    BY <1>1, <2>1, AcceptedTasks DEF RingInv, AnsweredOnly
<1>8. QED
  BY <1>1, <1>3, <1>4, <1>5, <1>6, <1>7 DEF RingInv, UsedWhenReady, QueueStep

\* A step that moves p and leaves the ring and the calls alone.
LEMMA MoveKeeps ==
    ASSUME RingInv, NEW p \in Producers, NEW to \in {"lock", "idle"} \cup Inside,
           pc' = [pc EXCEPT ![p] = to], pc[p] # "idle",
           to \in {"unlock", "idle"} \/ pc[p] \notin {"unlock", "idle"},
           to \in Storing => tail + 1 \in Indexes,
           to \notin {"arg", "tail"},
           UNCHANGED <<pool, tasks, head, tail, calls, accepted>>
    PROVE  /\ lock' \in Producers \cup {Nobody} => ThreadTypes'
           /\ UsedWhenReady'
           /\ SlotsFilled'
           /\ SlotAtTail'
           /\ \A t \in AllTasks : Answered(t) => Answered(t)'
<1>1. lock' \in Producers \cup {Nobody} => ThreadTypes'
  BY DEF RingInv, ThreadTypes
<1>2. SlotsFilled'
  BY DEF RingInv, SlotsFilled
<1>3. SlotAtTail'
  BY DEF RingInv, ThreadTypes, SlotAtTail, Storing, Current
<1>4. ASSUME NEW t \in AllTasks, Answered(t)
      PROVE  Answered(t)'
  <2>1. t[1] \in Producers
    BY DEF AllTasks
  <2>2. CASE t[1] = p
    BY <1>4, <2>1, <2>2 DEF Answered, RingInv, ThreadTypes
  <2>3. CASE t[1] # p
    BY <1>4, <2>1, <2>3 DEF Answered, RingInv, ThreadTypes
  <2>4. QED
    BY <2>2, <2>3
<1>5. UsedWhenReady'
  BY DEF RingInv, UsedWhenReady
<1>6. QED
  BY <1>1, <1>2, <1>3, <1>4, <1>5

LEMMA LockStep ==
    ASSUME RingInv, NEW p \in Producers, Lock(p)
    PROVE  RingInv' /\ QueueStep
<1>1. /\ UNCHANGED <<pool, tasks, head, tail, calls, accepted, refused>>
      /\ pc[p] = "lock" /\ pc' = [pc EXCEPT ![p] = "test"]
      /\ lock = Nobody /\ lock' = p
  BY DEF Lock, At, ring
<1>2. /\ ThreadTypes' /\ UsedWhenReady' /\ SlotsFilled' /\ SlotAtTail'
      /\ \A t \in AllTasks : Answered(t) => Answered(t)'
  <2>1. "test" \in Inside /\ "test" \notin Storing /\ "test" \notin {"arg", "tail"}
    BY DEF Inside, Storing
  <2>2. pc[p] # "idle" /\ pc[p] \notin {"unlock", "idle"}
    BY <1>1
  <2>3. /\ lock' \in Producers \cup {Nobody} => ThreadTypes'
        /\ UsedWhenReady' /\ SlotsFilled' /\ SlotAtTail'
        /\ \A t \in AllTasks : Answered(t) => Answered(t)'
    <3> DEFINE to == "test"
    <3>1. to \in {"lock", "idle"} \cup Inside /\ pc' = [pc EXCEPT ![p] = to]
      BY <1>1, <2>1
    <3>2. to \notin Storing /\ to \notin {"arg", "tail"}
      BY <2>1
    <3> HIDE DEF to
    <3>3. QED
      BY <1>1, <2>2, <3>1, <3>2, MoveKeeps
  <2>4. QED
    BY <1>1, <2>3
<1>3. MutexHeld'
  BY <1>1, PoolAssumption DEF RingInv, ThreadTypes, MutexHeld, Inside, Storing
<1>4. RingShape'
  BY <1>1 DEF RingInv, RingShape
<1>5. AnsweredOnly'
  BY <1>1, <1>2, AcceptedTasks DEF RingInv, AnsweredOnly
<1>6. QED
  BY <1>1, <1>2, <1>3, <1>4, <1>5 DEF RingInv, QueueStep

LEMMA UnlockStep ==
    ASSUME RingInv, NEW p \in Producers, Unlock(p)
    PROVE  RingInv' /\ QueueStep
<1>1. /\ UNCHANGED <<pool, tasks, head, tail, calls, accepted, refused>>
      /\ pc[p] = "unlock" /\ pc' = [pc EXCEPT ![p] = "idle"]
      /\ lock' = Nobody
  BY DEF Unlock, At, ring
<1>2. /\ ThreadTypes' /\ UsedWhenReady' /\ SlotsFilled' /\ SlotAtTail'
      /\ \A t \in AllTasks : Answered(t) => Answered(t)'
  BY <1>1, MoveKeeps DEF Storing
<1>3. MutexHeld'
  <2>1. lock = p
    BY <1>1 DEF RingInv, MutexHeld, Inside
  <2>2. QED
    BY <1>1, <2>1, PoolAssumption DEF RingInv, ThreadTypes, MutexHeld, Inside, Storing
<1>4. RingShape'
  BY <1>1 DEF RingInv, RingShape
<1>5. AnsweredOnly'
  BY <1>1, <1>2, AcceptedTasks DEF RingInv, AnsweredOnly
<1>6. QED
  BY <1>1, <1>2, <1>3, <1>4, <1>5 DEF RingInv, QueueStep

\* The task that a call brings has not been answered yet.
LEMMA CurrentIsFresh ==
    ASSUME RingInv, NEW p \in Producers, pc[p] \in {"test", "tail"}
    PROVE  Queue!Fresh(Current(p)) /\ Current(p) \in AllTasks
<1>1. Current(p) \in AllTasks /\ ~Answered(Current(p))
  BY CurrentTask DEF RingInv, ThreadTypes, Answered
<1>2. QED
  BY <1>1 DEF RingInv, AnsweredOnly, Queue!Fresh

LEMMA TestFullStep ==
    ASSUME RingInv, NEW p \in Producers, TestFull(p)
    PROVE  RingInv' /\ QueueStep
<1>1. /\ UNCHANGED <<pool, tasks, head, tail, lock, calls, accepted>>
      /\ pc[p] = "test"
  BY DEF TestFull, At, ring
<1>2. lock = p
  BY <1>1 DEF RingInv, MutexHeld, Inside
<1>3. Current(p) \in AllTasks /\ Current(p)[1] = p /\ Current(p)[2] = calls[p]
  BY <1>1, CurrentTask DEF RingInv
<1>4. CASE /\ QUEUE_IS_FULL
           /\ At(p, "test", "unlock")
           /\ refused' = refused \cup {Current(p)}
  <2>1. pc' = [pc EXCEPT ![p] = "unlock"]
    BY <1>4 DEF At
  <2>2. /\ ThreadTypes' /\ UsedWhenReady' /\ SlotsFilled' /\ SlotAtTail'
        /\ \A t \in AllTasks : Answered(t) => Answered(t)'
    BY ZenonT(40), <1>1, <2>1, MoveKeeps DEF RingInv, ThreadTypes, Inside, Storing
  <2>3. MutexHeld'
    BY <1>1, <2>1 DEF RingInv, ThreadTypes, MutexHeld, Inside, Storing
  <2>4. RingShape'
    BY <1>1, <1>3, <1>4 DEF RingInv, RingShape
  <2>5. Answered(Current(p))'
    BY <1>1, <1>3, <2>1 DEF Answered, RingInv, ThreadTypes, Current
  <2>6. AnsweredOnly'
    BY <1>1, <1>4, <2>2, <2>5, AcceptedTasks DEF RingInv, AnsweredOnly, Current
  <2>7. Queue!Refuse(Current(p))
    <3>1. Len(accepted) = TASK_QUEUE_SIZE - 1
      BY <1>4, FullIndex, PoolAssumption DEF RingInv, RingShape, Indexes
    <3>2. Queue!Fresh(Current(p))
      BY <1>1, CurrentIsFresh
    <3>3. QED
      BY <1>1, <1>4, <3>1, <3>2 DEF Queue!Refuse
  <2>8. QED
    BY <1>3, <2>2, <2>3, <2>4, <2>6, <2>7 DEF RingInv, QueueStep, Queue!Next
<1>5. CASE /\ ~QUEUE_IS_FULL
           /\ At(p, "test", "func")
           /\ UNCHANGED refused
  <2>1. pc' = [pc EXCEPT ![p] = "func"] /\ tail + 1 \in Indexes
    BY <1>5, FullIndex DEF At, RingInv
  <2>2. /\ ThreadTypes' /\ UsedWhenReady' /\ SlotsFilled' /\ SlotAtTail'
        /\ \A t \in AllTasks : Answered(t) => Answered(t)'
    BY ZenonT(40), <1>1, <2>1, MoveKeeps DEF RingInv, ThreadTypes, Inside, Storing
  <2>3. MutexHeld'
    BY <1>1, <2>1 DEF RingInv, ThreadTypes, MutexHeld, Inside, Storing
  <2>4. RingShape'
    BY <1>1, <1>5 DEF RingInv, RingShape
  <2>5. AnsweredOnly'
    BY <1>1, <1>5, <2>2, AcceptedTasks DEF RingInv, AnsweredOnly
  <2>6. QED
    BY <1>1, <1>5, <2>2, <2>3, <2>4, <2>5 DEF RingInv, QueueStep
<1>6. QED
  BY <1>4, <1>5 DEF TestFull

\* Nobody else is storing while p is.
LEMMA OnlyOneStores ==
    ASSUME RingInv, NEW p \in Producers, pc[p] \in Inside,
           NEW q \in Producers, pc[q] \in Inside
    PROVE  q = p
BY DEF RingInv, MutexHeld

\* A step of the holder of the mutex that moves it on to another inner step.
LEMMA HolderMoves ==
    ASSUME RingInv, NEW p \in Producers, pc[p] \in Inside, NEW to \in Inside,
           pc' = [pc EXCEPT ![p] = to],
           UNCHANGED <<pool, lock, calls>>
    PROVE  ThreadTypes' /\ UsedWhenReady' /\ MutexHeld'
<1>1. pc[p] # "idle"
  BY DEF Inside, Storing
<1>2. ThreadTypes'
  BY <1>1 DEF RingInv, ThreadTypes
<1>3. UsedWhenReady'
  BY <1>1 DEF RingInv, UsedWhenReady
<1>4. MutexHeld'
  BY DEF RingInv, ThreadTypes, MutexHeld
<1>5. QED
  BY <1>2, <1>3, <1>4

\* Storing at tail touches no slot of an accepted task.
LEMMA StoreAtTail ==
    ASSUME RingInv, NEW v \in [func : Stored, arg : Stored],
           tasks' = [tasks EXCEPT ![tail] = v],
           UNCHANGED <<head, tail, accepted, refused>>
    PROVE  RingShape' /\ SlotsFilled' /\ tasks'[tail] = v
<1>1. tail \in Indexes /\ tail \in Nat
  BY DEF RingInv, RingShape, Indexes
<1>2. RingShape' /\ tasks'[tail] = v
  BY <1>1 DEF RingInv, RingShape
<1>3. SlotsFilled'
  BY <1>1 DEF RingInv, RingShape, SlotsFilled, Indexes
<1>4. QED
  BY <1>2, <1>3

\* Between test and unlock no answer is given.
LEMMA AnswersKept ==
    ASSUME RingInv, NEW p \in Producers, pc[p] \in {"func", "arg"},
           NEW to \in {"arg", "tail"}, pc' = [pc EXCEPT ![p] = to],
           UNCHANGED <<calls, accepted, refused>>
    PROVE  AnsweredOnly'
<1>1. ASSUME NEW t \in AllTasks, Answered(t)
      PROVE  Answered(t)'
  <2>1. t[1] \in Producers
    BY DEF AllTasks
  <2>2. QED
    BY <1>1, <2>1 DEF Answered, RingInv, ThreadTypes
<1>2. QED
  BY <1>1, AcceptedTasks DEF RingInv, AnsweredOnly

LEMMA StoreFuncStep ==
    ASSUME RingInv, NEW p \in Producers, StoreFunc(p)
    PROVE  RingInv' /\ QueueStep
<1>1. /\ pc[p] = "func" /\ pc' = [pc EXCEPT ![p] = "arg"]
      /\ tasks' = [tasks EXCEPT ![tail].func = Current(p)]
      /\ UNCHANGED <<pool, head, tail, lock, calls, accepted, refused>>
  BY DEF StoreFunc, At
<1>2. Current(p) \in AllTasks /\ tail \in Indexes /\ tail + 1 \in Indexes
  BY <1>1, CurrentTask DEF RingInv, RingShape, SlotAtTail, Storing
<1> DEFINE v == [tasks[tail] EXCEPT !.func = Current(p)]
<1>3. /\ v \in [func : Stored, arg : Stored]
      /\ v.func = Current(p)
      /\ tasks' = [tasks EXCEPT ![tail] = v]
  BY <1>1, <1>2 DEF RingInv, RingShape, Stored
<1> HIDE DEF v
<1>4. RingShape' /\ SlotsFilled' /\ tasks'[tail].func = Current(p)
  BY <1>1, <1>3, StoreAtTail
<1>5. ThreadTypes' /\ UsedWhenReady' /\ MutexHeld'
  BY <1>1, HolderMoves DEF Inside, Storing
<1>6. SlotAtTail'
  <2>1. ASSUME NEW q \in Producers, q # p
        PROVE  pc'[q] \notin Storing
    BY <1>1, <2>1, OnlyOneStores DEF RingInv, ThreadTypes, Inside, Storing
  <2>2. pc'[p] = "arg"
    BY <1>1 DEF RingInv, ThreadTypes
  <2>3. QED
    BY <1>1, <1>2, <1>4, <2>1, <2>2 DEF SlotAtTail, Storing, Current
<1>7. AnsweredOnly'
  BY <1>1, AnswersKept
<1>8. QED
  BY <1>1, <1>4, <1>5, <1>6, <1>7 DEF RingInv, QueueStep

LEMMA StoreArgStep ==
    ASSUME RingInv, NEW p \in Producers, StoreArg(p)
    PROVE  RingInv' /\ QueueStep
<1>1. /\ pc[p] = "arg" /\ pc' = [pc EXCEPT ![p] = "tail"]
      /\ tasks' = [tasks EXCEPT ![tail].arg = Current(p)]
      /\ UNCHANGED <<pool, head, tail, lock, calls, accepted, refused>>
  BY DEF StoreArg, At
<1>2. /\ Current(p) \in AllTasks /\ tail \in Indexes /\ tail + 1 \in Indexes
      /\ tasks[tail].func = Current(p)
  BY <1>1, CurrentTask DEF RingInv, RingShape, SlotAtTail, Storing
<1> DEFINE v == [tasks[tail] EXCEPT !.arg = Current(p)]
<1>3. /\ v \in [func : Stored, arg : Stored]
      /\ v.func = Current(p) /\ v.arg = Current(p)
      /\ tasks' = [tasks EXCEPT ![tail] = v]
  BY <1>1, <1>2 DEF RingInv, RingShape, Stored
<1> HIDE DEF v
<1>4. /\ RingShape' /\ SlotsFilled'
      /\ tasks'[tail].func = Current(p) /\ tasks'[tail].arg = Current(p)
  BY <1>1, <1>3, StoreAtTail
<1>5. ThreadTypes' /\ UsedWhenReady' /\ MutexHeld'
  BY <1>1, HolderMoves DEF Inside, Storing
<1>6. SlotAtTail'
  <2>1. ASSUME NEW q \in Producers, q # p
        PROVE  pc'[q] \notin Storing
    BY <1>1, <2>1, OnlyOneStores DEF RingInv, ThreadTypes, Inside, Storing
  <2>2. pc'[p] = "tail"
    BY <1>1 DEF RingInv, ThreadTypes
  <2>3. QED
    BY <1>1, <1>2, <1>4, <2>1, <2>2 DEF SlotAtTail, Storing, Current
<1>7. AnsweredOnly'
  BY <1>1, AnswersKept
<1>8. QED
  BY <1>1, <1>4, <1>5, <1>6, <1>7 DEF RingInv, QueueStep

\* The slot at tail holds the task of p, and tail moves past it.
LEMMA AddPosStep ==
    ASSUME RingInv, NEW p \in Producers, AddPos(p)
    PROVE  RingInv' /\ QueueStep
<1>0. PICK c : c = Current(p)
  OBVIOUS
<1>1. /\ pc[p] = "tail" /\ pc' = [pc EXCEPT ![p] = "unlock"]
      /\ tail' = (tail + 1) % TASK_QUEUE_SIZE
      /\ accepted' = Append(accepted, c)
      /\ UNCHANGED <<pool, tasks, head, lock, calls, refused>>
  BY <1>0 DEF AddPos, At
<1>2. /\ c \in AllTasks /\ c[1] = p /\ c[2] = calls[p]
      /\ tail \in Indexes /\ tail + 1 \in Indexes
      /\ tasks[tail].func = c /\ tasks[tail].arg = c
  BY <1>0, <1>1, CurrentTask DEF RingInv, RingShape, SlotAtTail, Storing
<1>3. tail' = tail + 1 /\ tail \in Nat /\ TASK_QUEUE_SIZE \in Nat
  BY <1>1, <1>2, Wrap, PoolAssumption DEF Indexes
<1>4. /\ accepted' \in Seq(AllTasks)
      /\ Len(accepted') = tail'
      /\ \A i \in 1 .. tail : accepted'[i] = accepted[i]
      /\ accepted'[tail + 1] = c
  BY <1>1, <1>2, <1>3, AppendProperties DEF RingInv, RingShape
<1>5. RingShape'
  BY <1>1, <1>2, <1>3, <1>4 DEF RingInv, RingShape
<1>6. SlotsFilled'
  <2>1. tasks[tail] = [func |-> c, arg |-> c]
    BY <1>2 DEF RingInv, RingShape
  <2>2. ASSUME NEW i \in 1 .. tail'
        PROVE  tasks'[i - 1] = [func |-> accepted'[i], arg |-> accepted'[i]]
    <3>1. CASE i \in 1 .. tail
      BY <1>1, <1>4, <3>1 DEF RingInv, SlotsFilled
    <3>2. CASE i = tail + 1
      BY <1>1, <1>3, <1>4, <2>1, <3>2
    <3>3. QED
      BY <1>3, <3>1, <3>2
  <2>3. QED
    BY <2>2 DEF SlotsFilled
<1>7. ThreadTypes' /\ UsedWhenReady' /\ MutexHeld'
  <2>1. /\ pc[p] # "idle" /\ pool = "ready"
        /\ pc[p] \in Inside /\ "unlock" \in Inside
    BY <1>1 DEF RingInv, UsedWhenReady, Inside, Storing
  <2>2. QED
    BY <1>1, <2>1, HolderMoves
<1>8. SlotAtTail'
  BY <1>1, OnlyOneStores DEF SlotAtTail, RingInv, ThreadTypes, Inside, Storing
<1>9. AnsweredOnly'
  <2>1. ASSUME NEW t \in AllTasks, Answered(t)
        PROVE  Answered(t)'
    <3>1. t[1] \in Producers
      BY DEF AllTasks
    <3>2. QED
      BY <1>1, <2>1, <3>1 DEF Answered, RingInv, ThreadTypes
  <2>2. Answered(c)'
    BY <1>1, <1>2 DEF Answered, RingInv, ThreadTypes
  <2>3. \A t \in refused' : Answered(t)'
    BY <1>1, <2>1, AcceptedTasks DEF RingInv, AnsweredOnly
  <2>4. ASSUME NEW i \in 1 .. Len(accepted'), NEW t, t = accepted'[i]
        PROVE  Answered(t)'
    <3>1. CASE i \in 1 .. tail
      BY <1>4, <2>1, <2>4, <3>1, AcceptedTasks DEF RingInv, RingShape, AnsweredOnly
    <3>2. CASE i = tail + 1
      BY <1>4, <2>2, <2>4, <3>2
    <3>3. QED
      BY <1>3, <1>4, <3>1, <3>2
  <2>5. QED
    BY <2>3, <2>4 DEF AnsweredOnly, Answered
<1>10. Queue!Accept(c)
  <2>1. Queue!Fresh(c)
    BY <1>0, <1>1, CurrentIsFresh
  <2>2. Len(accepted) < TASK_QUEUE_SIZE - 1
    BY <1>2, <1>3 DEF RingInv, RingShape, Indexes
  <2>3. QED
    BY <1>1, <2>1, <2>2 DEF Queue!Accept
<1>11. QED
  BY <1>2, <1>5, <1>6, <1>7, <1>8, <1>9, <1>10 DEF RingInv, QueueStep, Queue!Next

LEMMA RingStep ==
    ASSUME RingInv, [PoolNext]_poolVars
    PROVE  RingInv' /\ QueueStep
<1>1. CASE UNCHANGED poolVars
  BY <1>1
     DEF poolVars, ring, RingInv, ThreadTypes, UsedWhenReady, MutexHeld, RingShape,
         SlotsFilled, SlotAtTail, AnsweredOnly, Answered, Current, QueueStep
<1>2. CASE init_thread_pool
  BY <1>2, StartStep
<1>3. ASSUME NEW p \in Producers, Call(p) \/ thread_pool_add(p)
      PROVE  RingInv' /\ QueueStep
  BY <1>3, CallStep, LockStep, TestFullStep, StoreFuncStep, StoreArgStep, AddPosStep,
     UnlockStep DEF thread_pool_add
<1>4. QED
  BY <1>1, <1>2, <1>3 DEF PoolNext

-----------------------------------------------------------------------------
(* The theorems.                                                           *)

LEMMA RingInvariant == PoolSpec => []RingInv
<1>1. RingInv /\ [PoolNext]_poolVars => RingInv'
  BY RingStep
<1>2. QED
  BY InitRing, <1>1, PTL DEF PoolSpec

(* At any time the ring holds exactly the tasks that thread_pool_add has   *)
(* accepted, in that order, none with the function of one task and the     *)
(* argument of another.                                                    *)
THEOREM RingHoldsAccepted == PoolSpec => []RingIsAccepted
<1>1. RingInv => RingIsAccepted
  <2> SUFFICES ASSUME RingInv
               PROVE  RingIsAccepted
    OBVIOUS
  <2>1. /\ tail \in Indexes /\ head = 0 /\ Len(accepted) = tail
        /\ TASK_QUEUE_SIZE \in Nat
    BY PoolAssumption DEF RingInv, RingShape
  <2>2. Length = tail
    BY <2>1, Wrap DEF Length
  <2>3. ASSUME NEW i \in 1 .. Length
        PROVE  Slot(i) = [func |-> accepted[i], arg |-> accepted[i]]
    <3>1. i - 1 \in Indexes /\ head + i - 1 = i - 1 /\ i \in 1 .. tail
      BY <2>1, <2>2 DEF Indexes
    <3>2. Slot(i) = tasks[i - 1]
      BY <3>1, Wrap DEF Slot
    <3>3. QED
      BY <3>1, <3>2 DEF RingInv, SlotsFilled
  <2>4. QED
    BY <2>1, <2>2, <2>3 DEF RingIsAccepted
<1>2. QED
  BY RingInvariant, <1>1, PTL

(* thread_pool_add implements the bounded queue: it refuses a task only    *)
(* when TASK_QUEUE_SIZE - 1 others wait, and answers each task once, for   *)
(* any number of producers and any order in which they get the mutex.      *)
THEOREM PoolImplementsQueue == PoolSpec => QueueSpec
<1>1. PoolInit => Queue!Init
  BY DEF PoolInit, Queue!Init
<1>2. RingInv /\ [PoolNext]_poolVars => [Queue!Next]_<<accepted, refused>>
  BY RingStep DEF QueueStep
<1>3. QED
  BY RingInvariant, <1>1, <1>2, PTL DEF PoolSpec, QueueSpec, Queue!Spec
=============================================================================
