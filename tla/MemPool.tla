------------------------------ MODULE MemPool ------------------------------
(***************************************************************************)
(* The memory pool: src/lib/mem_pool/mem_pool.c, one pool and the calls a  *)
(* correct caller may make (it frees only what it holds).                  *)
(*                                                                         *)
(* A pool is a list of blocks.  A block has elem_num elements, a table     *)
(* that chains the free ones (table[i] is the index after i), and the head *)
(* and tail of that chain; head = tail means that the block is full.       *)
(*                                                                         *)
(* Addresses are numbers.  Where malloc puts the data of a block is        *)
(* arbitrary, so a later block may lie below an earlier one.               *)
(*                                                                         *)
(* The table is allocated with elem_num + 1 bytes for elem_num + 1 ints:   *)
(* it stays within its memory only if it fits the smallest chunk that      *)
(* malloc returns (six ints: pools of up to five elements).  Once the code *)
(* has used memory that is not its own anything may happen, and the model  *)
(* stops (wild).                                                           *)
(***************************************************************************)
EXTENDS Integers, Sequences, FiniteSets

CONSTANTS ElemSize,   \* elem_size of the pool
          ElemNums,   \* the elem_num that a caller may ask for
          Addresses,  \* where malloc may put the data of a block
          MaxBlocks,  \* bound: blocks of the pool
          MaxFaults   \* bound: block allocations that fail

ASSUME SizesAssumption == /\ ElemSize \in Nat \ {0}
                          /\ ElemNums \subseteq Nat \ {0}
                          /\ Addresses \subseteq Nat
                          /\ MaxBlocks \in Nat
                          /\ MaxFaults \in Nat

ALLOCATED == -1
ENDOFMEM  == -2

VARIABLES
    pool,        \* "none", "ready" or "destroyed"
    elem_num,    \* pool->elem_num
    blocks,      \* the block list, from pool->head to pool->tail
    elem_total,  \* pool->elem_total
    held,        \* the addresses that the caller holds
    calls,       \* mallocs that returned an element, less frees
    wild,        \* the code has used memory outside its own
    faults       \* block allocations that have failed

vars == <<pool, elem_num, blocks, elem_total, held, calls, wild, faults>>

Element(blk, i) == blk.data + i * ElemSize

\* The data of a block has room for one element more than the block offers.
DataSize(num) == ElemSize * (num + 1)

Disjoint(data, num, blk) == \/ data + DataSize(num) <= blk.data
                            \/ blk.data + DataSize(blk.elem_num) <= data

\* C division truncates towards zero.
Quotient(a, b) == IF a >= 0 THEN a \div b ELSE -((-a) \div b)

Init == /\ pool = "none"
        /\ elem_num = 0
        /\ blocks = <<>>
        /\ elem_total = 0
        /\ held = {}
        /\ calls = 0
        /\ wild = FALSE
        /\ faults = 0

-----------------------------------------------------------------------------
(* Operators named Bug_... are faulty versions of the definition that      *)
(* follows them; no specification uses them.                               *)

Bug_ChainNotEnded(num, data) ==
    [elem_num |-> num, data |-> data, head |-> 0, tail |-> num,
     table |-> [i \in 0 .. num |-> i + 1]]

Bug_TailPastEnd(num, data) ==
    [elem_num |-> num, data |-> data, head |-> 0, tail |-> num + 1,
     table |-> [i \in 0 .. num |-> IF i = num THEN ENDOFMEM ELSE i + 1]]

\* A fresh block: every element free, in order.
NewBlock(num, data) ==
    [elem_num |-> num, data |-> data, head |-> 0, tail |-> num,
     table |-> [i \in 0 .. num |-> IF i = num THEN ENDOFMEM ELSE i + 1]]

\* The blocks that __mem_pool_alloc_block may return; {} if no room is left.
alloc_block(num) ==
    {NewBlock(num, data) : data \in
        {d \in Addresses :
            \A i \in 1 .. Len(blocks) : Disjoint(d, num, blocks[i])}}

\* Chunks of malloc (glibc, 64 bits) are of 24 bytes at least.
ChunkInts == 6
TableFits(num) == num + 1 <= ChunkInts

AllocFails == /\ faults < MaxFaults
              /\ faults' = faults + 1

\* A block that cannot be allocated leaves head and tail NULL, and the pool
\* is returned all the same.  If it is the data that cannot, the table has been
\* filled already.
mem_pool_create(num) ==
    /\ pool = "none"
    /\ pool' = "ready"
    /\ elem_num' = num
    /\ elem_total' = num
    /\ \/ /\ \E blk \in alloc_block(num) : blocks' = <<blk>>
          /\ wild' = ~TableFits(num)
          /\ UNCHANGED faults
       \/ /\ AllocFails
          /\ wild' \in {wild, ~TableFits(num)}
          /\ UNCHANGED blocks
    /\ UNCHANGED <<held, calls>>

mem_pool_destroy ==
    /\ pool = "ready"
    /\ ~wild
    /\ pool' = "destroyed"
    /\ blocks' = <<>>
    /\ held' = {}
    /\ calls' = 0
    /\ UNCHANGED <<elem_num, elem_total, wild, faults>>

-----------------------------------------------------------------------------
(* mem_pool_malloc.                                                        *)

Full(blk) == blk.head = blk.tail

Bug_HeadNotAdvanced(list, i) ==
    LET blk == list[i]
    IN  /\ held' = held \cup {Element(blk, blk.head)}
        /\ calls' = calls + 1
        /\ blocks' = [list EXCEPT ![i].table[blk.head] = ALLOCATED]
        /\ UNCHANGED wild

\* Takes the element at the head of block i of a list.  A head outside the
\* table is used all the same: that is memory of somebody else.
TakeHead(list, i) ==
    LET blk == list[i]
    IN  \/ /\ blk.head \in 0 .. blk.elem_num
           /\ held' = held \cup {Element(blk, blk.head)}
           /\ calls' = calls + 1
           /\ blocks' = [list EXCEPT ![i].table[blk.head] = ALLOCATED,
                                     ![i].head = blk.table[blk.head]]
           /\ UNCHANGED wild
        \/ /\ blk.head \notin 0 .. blk.elem_num
           /\ wild' = TRUE
           /\ UNCHANGED <<blocks, held, calls>>

\* The first block that is not full.
MallocFromBlock ==
    /\ \E i \in 1 .. Len(blocks) :
          /\ ~Full(blocks[i])
          /\ \A j \in 1 .. i - 1 : Full(blocks[j])
          /\ TakeHead(blocks, i)
    /\ UNCHANGED <<pool, elem_num, elem_total, faults>>

\* All blocks are full: a new one, a third of the first one's size, is
\* appended, and elem_total grows by all of elem_num.  With no block at all
\* pool->tail is NULL, and pool->tail->next is written.
MallocFromNewBlock ==
    /\ \A i \in 1 .. Len(blocks) : Full(blocks[i])
    /\ Len(blocks) < MaxBlocks
    /\ \E blk \in alloc_block(elem_num \div 3) :
          \/ /\ blocks # <<>>
             /\ elem_total' = elem_total + elem_num
             /\ TakeHead(Append(blocks, blk), Len(blocks) + 1)
          \/ /\ blocks = <<>>
             /\ wild' = TRUE
             /\ UNCHANGED <<blocks, elem_total, held, calls>>
    /\ UNCHANGED <<pool, elem_num, faults>>

\* No memory for a new block: NULL.
MallocFails ==
    /\ \A i \in 1 .. Len(blocks) : Full(blocks[i])
    /\ AllocFails
    /\ UNCHANGED <<pool, elem_num, blocks, elem_total, held, calls, wild>>

mem_pool_malloc ==
    /\ pool = "ready"
    /\ ~wild
    /\ \/ MallocFromBlock
       \/ MallocFromNewBlock
       \/ MallocFails

-----------------------------------------------------------------------------
(* mem_pool_free.                                                          *)

\* The index that mem_pool_free computes for p in a block.  It subtracts the
\* pointer from the start of the data, not the start from the pointer: in
\* its own block only element 0 has an index that is not negative.
Offset(blk, p) == Quotient(blk.data - p, ElemSize)

Matches(blk, p) == Offset(blk, p) \in 0 .. blk.elem_num - 1

Bug_TailAdvanced(i, p) ==
    blocks' = [blocks EXCEPT
                   ![i].table[blocks[i].tail] = Offset(blocks[i], p),
                   ![i].table[Offset(blocks[i], p)] = ENDOFMEM,
                   ![i].tail = Offset(blocks[i], p)]

\* The index is chained after tail, but tail stays where it is: the chain
\* ends before the element again.
PutAtTail(i, p) ==
    blocks' = [blocks EXCEPT
                   ![i].table[blocks[i].tail] = Offset(blocks[i], p),
                   ![i].table[Offset(blocks[i], p)] = ENDOFMEM]

\* The first block that matches, or nothing at all.  The caller gives up p.
mem_pool_free(p) ==
    /\ pool = "ready"
    /\ ~wild
    /\ p \in held
    /\ held' = held \ {p}
    /\ calls' = calls - 1
    /\ \/ \E i \in 1 .. Len(blocks) :
             /\ Matches(blocks[i], p)
             /\ \A j \in 1 .. i - 1 : ~Matches(blocks[j], p)
             /\ PutAtTail(i, p)
       \/ /\ \A i \in 1 .. Len(blocks) : ~Matches(blocks[i], p)
          /\ UNCHANGED blocks
    /\ UNCHANGED <<pool, elem_num, elem_total, wild, faults>>

Next == \/ \E num \in ElemNums : mem_pool_create(num)
        \/ mem_pool_destroy
        \/ mem_pool_malloc
        \/ \E p \in held : mem_pool_free(p)

Spec == Init /\ [][Next]_vars

-----------------------------------------------------------------------------
(* Properties.                                                             *)

BlockIds == 1 .. Len(blocks)

(* Types, and the shape of the list: the first block has elem_num elements *)
(* and the others a third of that, no two of them overlap, and every table *)
(* entry is an index, ALLOCATED or ENDOFMEM.                               *)
TypeOK ==
    /\ pool \in {"none", "ready", "destroyed"}
    /\ elem_num \in ElemNums \cup {0}
    /\ wild \in BOOLEAN
    /\ elem_total \in Nat
    /\ calls \in Nat
    /\ faults \in 0 .. MaxFaults
    /\ held \in SUBSET Nat
    /\ \A i \in BlockIds :
          /\ blocks[i].elem_num = (IF i = 1 THEN elem_num ELSE elem_num \div 3)
          /\ blocks[i].data \in Addresses
          /\ blocks[i].table \in [0 .. blocks[i].elem_num ->
                                     {ALLOCATED, ENDOFMEM} \cup 0 .. blocks[i].elem_num]
          /\ \A j \in BlockIds \ {i} :
                Disjoint(blocks[i].data, blocks[i].elem_num, blocks[j])

(* The free chain of every block that has elements is intact: it leads     *)
(* from head to tail, upwards and so without a cycle, through elements     *)
(* that nobody holds.  mem_pool_free must neither cut it nor extend it by  *)
(* an index that it computed for a foreign pointer.                        *)
FreeChainIntact ==
    ~wild => \A i \in BlockIds :
        LET blk == blocks[i]
        IN  blk.elem_num > 0 =>
               \E chain \in SUBSET (0 .. blk.elem_num) :
                  /\ {blk.head, blk.tail} \subseteq chain
                  /\ \A k \in chain \ {blk.tail} : /\ blk.table[k] \in chain
                                                  /\ blk.table[k] > k
                                                  /\ Element(blk, k) \notin held

(* Memory that is not the pool's own is used in three ways and no other.   *)
(* A pool of more than five elements overruns the table of its first       *)
(* block, always.  A pool whose first block could not be allocated is      *)
(* returned all the same, and mem_pool_malloc follows pool->tail.  A pool  *)
(* of one or two elements grows, once, by a block of none, which hands out *)
(* its spare element and is never full from then on, with ENDOFMEM for its *)
(* head.                                                                   *)
ForeignMemoryCauses ==
    /\ blocks # <<>> /\ ~TableFits(elem_num) => wild
    /\ wild => \/ blocks # <<>> /\ ~TableFits(elem_num)
               \/ blocks = <<>> /\ faults > 0
               \/ /\ elem_num < 3
                  /\ Len(blocks) = 2
                  /\ blocks[2].head = ENDOFMEM

(* The pool is an allocator: it hands out elements of its blocks that      *)
(* nobody holds, and takes back what is held (mem_pool_malloc, _free).     *)
(* In particular no element is handed out to two callers at once.          *)
Indexes == UNION {0 .. num : num \in ElemNums}
ElementAddresses == {a + i * ElemSize : a \in Addresses, i \in Indexes}

Alloc == INSTANCE Allocator WITH Cells <- ElementAddresses,
                                 live <- held,
                                 count <- calls,
                                 open <- pool = "ready" /\ ~wild
AllocatorSpec == Alloc!Spec

-----------------------------------------------------------------------------
(* What the comments say of the program and the program does not do.       *)

(* The demonstration at the end of mem_pool.c takes twenty elements from a *)
(* pool of ten: a pool works in its own memory.                            *)
OwnMemoryOnly == ~wild

(* mem_pool_free, "belongs to this block": an element that is freed is     *)
(* found in the block it belongs to.                                       *)
FreeFindsBlock ==
    [][\A p \in held \ held' :
           pool' = "ready" =>
               \E i \in BlockIds : /\ Matches(blocks[i], p)
                                   /\ \E e \in 0 .. blocks[i].elem_num :
                                         p = Element(blocks[i], e)]_vars
=============================================================================
