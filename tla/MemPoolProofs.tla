--------------------------- MODULE MemPoolProofs ---------------------------
(***************************************************************************)
(* Theorems about MemPool, for any number of elements in a pool, any size  *)
(* of them, any number of blocks and any placement of them.                *)
(*                                                                         *)
(* Why the pool works although mem_pool_free does not: only the last block *)
(* of the list may have free elements; its free elements are those from    *)
(* head on, in order; and what mem_pool_free writes into a block that is   *)
(* not full, if anything, is about an element below head.                  *)
(***************************************************************************)
EXTENDS MemPool, SequenceTheorems, FiniteSetTheorems, TLAPS

-----------------------------------------------------------------------------
(* Arithmetic of addresses.                                                *)

LEMMA ProductStep ==
    ASSUME NEW m \in Nat, NEW k \in Nat, m < k
    PROVE  m * ElemSize \in Nat /\ m * ElemSize + ElemSize <= k * ElemSize
<1>1. PICK d \in Nat : k = m + 1 + d
  <2>1. k - m - 1 \in Nat
    OBVIOUS
  <2>2. k = m + 1 + (k - m - 1)
    OBVIOUS
  <2>3. QED
    BY <2>1, <2>2
<1>2. ElemSize \in Nat
  BY SizesAssumption
<1>3. m * ElemSize \in Nat /\ d * ElemSize \in Nat
  BY <1>2
<1>4. k * ElemSize = m * ElemSize + ElemSize + d * ElemSize
  BY <1>1, <1>2
<1>5. QED
  BY <1>2, <1>3, <1>4

LEMMA AtLeastOne ==
    ASSUME NEW a \in Nat, ElemSize <= a
    PROVE  a \div ElemSize \in Nat /\ a \div ElemSize >= 1
<1>1. ElemSize \in Nat /\ ElemSize > 0
  BY SizesAssumption
<1>2. QED
  BY <1>1

LEMMA QuotientSign ==
    ASSUME NEW a \in Int
    PROVE  /\ a >= ElemSize => Quotient(a, ElemSize) >= 1
           /\ a = 0 => Quotient(a, ElemSize) = 0
           /\ a <= -ElemSize => Quotient(a, ElemSize) < 0
<1>1. ElemSize \in Nat /\ ElemSize > 0
  BY SizesAssumption
<1>2. CASE a >= ElemSize
  <2>1. a \in Nat /\ a > 0
    BY <1>1, <1>2
  <2>2. a \div ElemSize >= 1
    BY <1>2, <2>1, AtLeastOne
  <2>3. QED
    BY <1>1, <2>1, <2>2 DEF Quotient
<1>3. CASE a = 0
  BY <1>1, <1>3 DEF Quotient
<1>4. CASE a <= -ElemSize
  <2>1. -a \in Nat /\ ElemSize <= -a /\ ~(a >= 0)
    BY <1>1, <1>4
  <2>2. (-a) \div ElemSize \in Nat /\ (-a) \div ElemSize >= 1
    BY <2>1, AtLeastOne
  <2>3. Quotient(a, ElemSize) = -((-a) \div ElemSize)
    BY <2>1 DEF Quotient
  <2>4. QED
    BY <1>1, <1>4, <2>2, <2>3
<1>5. QED
  BY <1>2, <1>3, <1>4

LEMMA Distance ==
    ASSUME NEW a \in Nat, NEW b \in Nat, NEW offset \in Nat, NEW last \in Nat,
           NEW sizeA \in Nat, NEW sizeB \in Nat, NEW e \in Nat, NEW p,
           p = a + offset, offset + e <= last, last + e <= sizeA, e <= sizeB
    PROVE  /\ b - p \in Int
           /\ a + sizeA <= b => b - p >= e
           /\ b + sizeB <= a => b - p <= -e
OBVIOUS

LEMMA ElementsDistinct ==
    ASSUME NEW blk, blk.data \in Nat, NEW m \in Nat, NEW k \in Nat, m < k
    PROVE  Element(blk, m) < Element(blk, k)
<1>1. ElemSize \in Nat /\ ElemSize > 0
  BY SizesAssumption
<1>2. m * ElemSize + ElemSize <= k * ElemSize
  BY ProductStep
<1>3. m * ElemSize \in Nat /\ k * ElemSize \in Nat
  BY <1>1
<1>4. QED
  BY <1>1, <1>2, <1>3 DEF Element

-----------------------------------------------------------------------------
(* The inductive invariant, in terms of a list of blocks and the addresses *)
(* that are held.                                                          *)

Tables == UNION {[0 .. n -> Int] : n \in Nat}

Block == [elem_num : Nat, data : Nat, head : Int, tail : Nat, table : Tables]

\* From head on the table is what it was at first, and tail has never moved;
\* or the only entry of a block of no element has been handed out.
Ascending(blk) == /\ blk.head \in 0 .. blk.elem_num
                  /\ \A i \in blk.head .. blk.elem_num - 1 : blk.table[i] = i + 1

Exhausted(blk) == blk.elem_num = 0 /\ blk.head = ENDOFMEM

Sound(blk) ==
    /\ blk \in Block
    /\ blk.table \in [0 .. blk.elem_num ->
                          {ALLOCATED, ENDOFMEM} \cup 0 .. blk.elem_num]
    /\ blk.tail = blk.elem_num
    /\ Ascending(blk) \/ Exhausted(blk)

\* The indexes that have been handed out at some time.
Used(blk) == IF Exhausted(blk) THEN {0} ELSE 0 .. blk.head - 1

NumOf(num, i) == IF i = 1 THEN num ELSE num \div 3

Origin(list, p, i) == /\ i \in 1 .. Len(list)
                      /\ \E m \in Used(list[i]) : p = Element(list[i], m)

ListInv(num, list, holding) ==
    /\ list \in Seq(Block)
    /\ \A i \in 1 .. Len(list) : /\ Sound(list[i])
                                 /\ list[i].elem_num = NumOf(num, i)
                                 /\ list[i].data \in Addresses
    /\ \A i, j \in 1 .. Len(list) :
          i # j => Disjoint(list[i].data, list[i].elem_num, list[j])
    /\ \A i \in 1 .. Len(list) - 1 : Full(list[i])
    /\ \A p \in holding : \E i \in 1 .. Len(list) : Origin(list, p, i)

\* A later block of no element has handed out its spare one: it is never full
\* again, so that the pool does not grow any more.
SpareTaken(blk) == blk.elem_num = 0 => Exhausted(blk)

GrownBy(list) == \A i \in 2 .. Len(list) : SpareTaken(list[i])

Scalars == /\ pool \in {"none", "ready", "destroyed"}
           /\ elem_num \in ElemNums \cup {0}
           /\ pool # "none" => elem_num \in ElemNums
           /\ wild \in BOOLEAN
           /\ elem_total \in Nat
           /\ faults \in 0 .. MaxFaults

PoolInv ==
    /\ Scalars
    /\ ListInv(elem_num, blocks, held)
    /\ IsFiniteSet(held)
    /\ calls = Cardinality(held)
    /\ pool # "ready" => blocks = <<>>
    /\ pool = "ready" /\ blocks = <<>> => faults > 0
    /\ blocks # <<>> /\ ~wild => TableFits(elem_num)
    /\ GrownBy(blocks)
    /\ ForeignMemoryCauses

-----------------------------------------------------------------------------
(* Elements of one block and of two.                                       *)

LEMMA UsedIndexes ==
    ASSUME NEW blk, Sound(blk), NEW m \in Used(blk)
    PROVE  /\ m \in 0 .. blk.elem_num
           /\ Full(blk) => m < blk.elem_num
           /\ m # blk.head
BY DEF Sound, Used, Exhausted, Ascending, Full, Block, ENDOFMEM

\* No element of a block is an element of another one, spare entry included,
\* and the distance of their starts is as large as the lower block.
LEMMA ElementsApart ==
    ASSUME NEW a \in Block, NEW b \in Block, Disjoint(a.data, a.elem_num, b),
           NEW m \in 0 .. a.elem_num, NEW k \in 0 .. b.elem_num
    PROVE  Element(a, m) # Element(b, k)
<1>1. ElemSize \in Nat /\ ElemSize > 0
  BY SizesAssumption
<1>2. /\ a.data \in Nat /\ b.data \in Nat
      /\ a.elem_num \in Nat /\ b.elem_num \in Nat
      /\ m \in Nat /\ k \in Nat
  BY DEF Block
<1>3. /\ m * ElemSize \in Nat /\ k * ElemSize \in Nat
      /\ m * ElemSize + ElemSize <= (a.elem_num + 1) * ElemSize
      /\ k * ElemSize + ElemSize <= (b.elem_num + 1) * ElemSize
  BY <1>2, ProductStep
<1>4. /\ DataSize(a.elem_num) = (a.elem_num + 1) * ElemSize
      /\ DataSize(b.elem_num) = (b.elem_num + 1) * ElemSize
      /\ (a.elem_num + 1) * ElemSize \in Nat
      /\ (b.elem_num + 1) * ElemSize \in Nat
  BY <1>1, <1>2 DEF DataSize
<1>5. \/ a.data + (a.elem_num + 1) * ElemSize <= b.data
      \/ b.data + (b.elem_num + 1) * ElemSize <= a.data
  BY <1>4 DEF Disjoint
<1>6. QED
  BY <1>1, <1>2, <1>3, <1>4, <1>5 DEF Element

-----------------------------------------------------------------------------
(* What the operations make of the list.                                   *)

\* A block may be replaced by one with the same elements of which as many have
\* been handed out, or more.
LEMMA ReplaceKeeps ==
    ASSUME NEW num \in Nat, NEW list, NEW holding, ListInv(num, list, holding),
           NEW n \in 1 .. Len(list), NEW b, Sound(b),
           b.elem_num = list[n].elem_num, b.data = list[n].data,
           n < Len(list) => Full(b),
           Used(list[n]) \subseteq Used(b)
    PROVE  ListInv(num, [list EXCEPT ![n] = b], holding)
<1> DEFINE new == [list EXCEPT ![n] = b]
<1>1. list \in Seq(Block) /\ b \in Block
  BY DEF ListInv, Sound
<1>2. /\ new \in Seq(Block)
      /\ Len(new) = Len(list)
      /\ new[n] = b
      /\ \A i \in 1 .. Len(list) : i # n => new[i] = list[i]
  BY <1>1, ExceptSeq
<1> HIDE DEF new
<1>3. \A i \in 1 .. Len(new) : /\ new[i].elem_num = list[i].elem_num
                               /\ new[i].data = list[i].data
                               /\ Sound(new[i])
                               /\ Used(list[i]) \subseteq Used(new[i])
  BY <1>2 DEF ListInv
<1>4. \A i \in 1 .. Len(new) : /\ Sound(new[i])
                               /\ new[i].elem_num = NumOf(num, i)
                               /\ new[i].data \in Addresses
  BY <1>2, <1>3 DEF ListInv
<1>5. \A i, j \in 1 .. Len(new) :
         i # j => Disjoint(new[i].data, new[i].elem_num, new[j])
  BY <1>2, <1>3 DEF ListInv, Disjoint
<1>6. \A i \in 1 .. Len(new) - 1 : Full(new[i])
  <2>1. Len(list) \in Nat
    BY <1>1, LenProperties
  <2>2. QED
    BY <1>2, <2>1 DEF ListInv
<1>7. ASSUME NEW p \in holding
      PROVE  \E i \in 1 .. Len(new) : Origin(new, p, i)
  <2>1. PICK i \in 1 .. Len(list) : Origin(list, p, i)
    BY DEF ListInv
  <2>2. Origin(new, p, i)
    BY <1>2, <1>3, <2>1 DEF Origin, Element
  <2>3. QED
    BY <1>2, <2>2
<1>8. ListInv(num, new, holding)
  BY <1>2, <1>4, <1>5, <1>6, <1>7 DEF ListInv
<1>9. QED
  BY <1>8 DEF new

\* The element that the last block would hand out next is nobody's.
LEMMA HeadNotHeld ==
    ASSUME NEW num \in ElemNums, NEW list, NEW holding, ListInv(num, list, holding),
           NEW n \in 1 .. Len(list),
           list[n].head \in 0 .. list[n].elem_num
    PROVE  /\ Element(list[n], list[n].head) \in Nat
           /\ Element(list[n], list[n].head) \in ElementAddresses
           /\ Element(list[n], list[n].head) \notin holding
<1> DEFINE h == list[n].head
<1>1. ElemSize \in Nat /\ Addresses \subseteq Nat /\ num \in Nat
  BY SizesAssumption
<1>2. /\ Sound(list[n]) /\ list[n] \in Block
      /\ list[n].elem_num = NumOf(num, n)
      /\ list[n].data \in Addresses /\ list[n].data \in Nat
  BY <1>1 DEF ListInv, Sound
<1>3. h \in Nat /\ NumOf(num, n) \in Nat /\ NumOf(num, n) <= num
  BY <1>1, <1>2 DEF NumOf
<1>4. Element(list[n], h) \in Nat
  <2>1. h * ElemSize \in Nat
    BY <1>1, <1>3
  <2>2. QED
    BY <1>2, <2>1 DEF Element
<1>5. Element(list[n], h) \in ElementAddresses
  <2>1. h \in Indexes
    <3>1. h \in 0 .. num
      BY <1>1, <1>2, <1>3
    <3>2. QED
      BY <3>1 DEF Indexes
  <2>2. \E a \in Addresses, i \in Indexes :
           list[n].data + h * ElemSize = a + i * ElemSize
    BY <1>2, <2>1
  <2>3. QED
    BY <2>2 DEF Element, ElementAddresses
<1>6. ASSUME NEW p \in holding, p = Element(list[n], h)
      PROVE  FALSE
  <2>1. PICK i \in 1 .. Len(list) : Origin(list, p, i)
    BY DEF ListInv
  <2>2. PICK m \in Used(list[i]) : p = Element(list[i], m)
    BY <2>1 DEF Origin
  <2>3. Sound(list[i]) /\ list[i] \in Block
    BY DEF ListInv, Sound
  <2>4. m \in 0 .. list[i].elem_num /\ m \in Nat
    BY <2>3, UsedIndexes
  <2>5. CASE i = n
    <3>1. m # h
      BY <1>2, <2>5, UsedIndexes
    <3>2. m < h \/ h < m
      BY <1>3, <2>4, <3>1
    <3>3. Element(list[n], m) \in Nat
      <4>1. m * ElemSize \in Nat
        BY <1>1, <2>4
      <4>2. QED
        BY <1>2, <4>1 DEF Element
    <3>4. Element(list[n], m) # Element(list[n], h)
      BY <1>2, <1>3, <1>4, <2>4, <3>2, <3>3, ElementsDistinct
    <3>5. QED
      BY <1>6, <2>2, <2>5, <3>4
  <2>6. CASE i # n
    <3>1. Disjoint(list[i].data, list[i].elem_num, list[n])
      BY <2>6 DEF ListInv
    <3>2. Element(list[i], m) # Element(list[n], h)
      BY <1>2, <2>3, <2>4, <3>1, ElementsApart
    <3>3. QED
      BY <1>6, <2>2, <3>2
  <2>7. QED
    BY <2>5, <2>6
<1>7. QED
  BY <1>4, <1>5, <1>6

\* More may be held, as long as it comes from the list.
LEMMA HoldingKeeps ==
    ASSUME NEW num \in Nat, NEW list, NEW holding, ListInv(num, list, holding),
           NEW taken,
           \A p \in taken : p \in holding \/ \E i \in 1 .. Len(list) : Origin(list, p, i)
    PROVE  ListInv(num, list, taken)
BY DEF ListInv

\* The block after its head has been handed out.
Taken(blk) == [blk EXCEPT !.table[blk.head] = ALLOCATED,
                          !.head = blk.table[blk.head]]

\* The last block can hand out its head: it is not full, or it has no element
\* and its only entry ends the chain.
CanTake(blk) == \/ ~Exhausted(blk) /\ ~Full(blk)
                \/ blk.elem_num = 0 /\ blk.head = 0 /\ blk.table[0] = ENDOFMEM

LEMMA TakenSound ==
    ASSUME NEW blk, Sound(blk), CanTake(blk)
    PROVE  /\ blk.head \in 0 .. blk.elem_num
           /\ Sound(Taken(blk))
           /\ Taken(blk).elem_num = blk.elem_num
           /\ Taken(blk).data = blk.data
           /\ Used(blk) \subseteq Used(Taken(blk))
           /\ blk.head \in Used(Taken(blk))
<1> DEFINE h == blk.head
           n == blk.elem_num
           t == [blk.table EXCEPT ![h] = ALLOCATED]
<1>1. /\ blk \in Block /\ n \in Nat /\ h \in 0 .. n
      /\ blk.table \in [0 .. n -> {ALLOCATED, ENDOFMEM} \cup 0 .. n]
      /\ blk.tail = n
      /\ ~Exhausted(blk)
      /\ \A i \in h .. n - 1 : blk.table[i] = i + 1
  BY DEF Sound, CanTake, Ascending, Exhausted, Full, Block, ENDOFMEM
<1>2. /\ Taken(blk).elem_num = n
      /\ Taken(blk).data = blk.data
      /\ Taken(blk).head = blk.table[h]
      /\ Taken(blk).tail = blk.tail
      /\ Taken(blk).table = t
  BY <1>1 DEF Taken, Block
<1>3. t \in [0 .. n -> {ALLOCATED, ENDOFMEM} \cup 0 .. n]
  BY <1>1
<1>4. t \in Tables /\ blk.table[h] \in Int
  <2>1. t \in [0 .. n -> Int] /\ blk.table \in [0 .. n -> Int]
    BY <1>1, <1>3 DEF ALLOCATED, ENDOFMEM
  <2>2. QED
    BY <1>1, <2>1 DEF Tables
<1>5. Taken(blk) \in Block
  BY <1>1, <1>4 DEF Taken, Block
<1>6. CASE ~Full(blk)
  <2>1. h \in 0 .. n - 1 /\ blk.table[h] = h + 1
    BY <1>1, <1>6 DEF Full
  <2>2. \A i \in h + 1 .. n - 1 : t[i] = i + 1
    BY <1>1, <2>1
  <2>3. Ascending(Taken(blk)) /\ Taken(blk).head = h + 1 /\ ~Exhausted(Taken(blk))
    BY <1>1, <1>2, <2>1, <2>2 DEF Ascending, Exhausted, ENDOFMEM
  <2>4. Used(blk) = 0 .. h - 1 /\ Used(Taken(blk)) = 0 .. h
    BY <1>1, <2>3 DEF Used
  <2>5. QED
    <3>1. Sound(Taken(blk))
      BY <1>1, <1>2, <1>3, <1>5, <2>3 DEF Sound
    <3>2. Used(blk) \subseteq Used(Taken(blk)) /\ h \in Used(Taken(blk))
      BY <1>1, <2>4
    <3>3. QED
      BY <1>1, <1>2, <3>1, <3>2
<1>7. CASE n = 0 /\ h = 0 /\ blk.table[0] = ENDOFMEM
  <2>1. Exhausted(Taken(blk))
    BY <1>2, <1>7 DEF Exhausted
  <2>2. Used(blk) = {} /\ Used(Taken(blk)) = {0}
    BY <1>1, <1>7, <2>1 DEF Used
  <2>3. QED
    BY <1>1, <1>2, <1>3, <1>5, <1>7, <2>1, <2>2 DEF Sound
<1>8. QED
  BY <1>6, <1>7 DEF CanTake

LEMMA TakenSpare ==
    ASSUME NEW blk, Sound(blk), CanTake(blk)
    PROVE  SpareTaken(Taken(blk))
<1> SUFFICES ASSUME Taken(blk).elem_num = 0
             PROVE  Exhausted(Taken(blk))
  BY DEF SpareTaken
<1>1. /\ blk \in Block /\ blk.elem_num = 0 /\ blk.tail = 0
      /\ Ascending(blk) \/ Exhausted(blk)
  BY DEF Sound, Taken, Block
<1>2. blk.head = 0 /\ blk.table[0] = ENDOFMEM
  BY <1>1 DEF CanTake, Ascending, Full
<1>3. QED
  BY <1>1, <1>2 DEF Taken, Exhausted, Block

\* TakeHead on the last block.
LEMMA TakeHeadKeeps ==
    ASSUME NEW num \in Nat, NEW list, NEW holding, ListInv(num, list, holding),
           NEW n \in 1 .. Len(list), n = Len(list), CanTake(list[n])
    PROVE  ListInv(num, [list EXCEPT ![n] = Taken(list[n])],
                   holding \cup {Element(list[n], list[n].head)})
<1> DEFINE blk == list[n]
           new == [list EXCEPT ![n] = Taken(blk)]
<1>1. Sound(blk) /\ list \in Seq(Block)
  BY DEF ListInv
<1>2. /\ Sound(Taken(blk))
      /\ Taken(blk).elem_num = blk.elem_num
      /\ Taken(blk).data = blk.data
      /\ Used(blk) \subseteq Used(Taken(blk))
      /\ blk.head \in Used(Taken(blk))
  BY <1>1, TakenSound
<1>3. n < Len(list) => Full(Taken(blk))
  <2>1. Len(list) \in Nat
    BY <1>1, LenProperties
  <2>2. QED
    BY <2>1
<1>4. ListInv(num, new, holding)
  BY <1>2, <1>3, ReplaceKeeps
<1>5. Len(new) = Len(list) /\ new[n] = Taken(blk)
  <2>1. Taken(blk) \in Block
    BY <1>2 DEF Sound
  <2>2. QED
    BY <1>1, <2>1, ExceptSeq
<1>6. Origin(new, Element(blk, blk.head), n)
  BY <1>2, <1>5 DEF Origin, Element
<1>7. QED
  <2>1. \A p \in holding \cup {Element(blk, blk.head)} :
           p \in holding \/ \E i \in 1 .. Len(new) : Origin(new, p, i)
    BY <1>5, <1>6
  <2> HIDE DEF new, blk
  <2>2. ListInv(num, new, holding \cup {Element(blk, blk.head)})
    BY <1>4, <2>1, HoldingKeeps
  <2>3. QED
    BY <2>2 DEF new, blk

LEMMA NewBlockSound ==
    ASSUME NEW num \in Nat, NEW data \in Addresses
    PROVE  /\ Sound(NewBlock(num, data))
           /\ CanTake(NewBlock(num, data))
           /\ NewBlock(num, data).elem_num = num
           /\ NewBlock(num, data).data = data
<1> DEFINE t == [i \in 0 .. num |-> IF i = num THEN ENDOFMEM ELSE i + 1]
<1>1. t \in [0 .. num -> {ALLOCATED, ENDOFMEM} \cup 0 .. num]
  OBVIOUS
<1>2. t \in Tables
  <2>1. t \in [0 .. num -> Int]
    BY DEF ENDOFMEM
  <2>2. QED
    BY <2>1 DEF Tables
<1>3. data \in Nat
  BY SizesAssumption
<1>4. NewBlock(num, data) \in Block
  BY <1>2, <1>3 DEF NewBlock, Block
<1>5. Ascending(NewBlock(num, data))
  BY DEF NewBlock, Ascending
<1>6. CanTake(NewBlock(num, data))
  BY DEF NewBlock, CanTake, Exhausted, Full, ENDOFMEM
<1>7. QED
  BY <1>1, <1>4, <1>5, <1>6 DEF Sound, NewBlock

\* A block appended to a list of full blocks, apart from all of them.
LEMMA AppendKeeps ==
    ASSUME NEW num \in Nat, NEW list, NEW holding, ListInv(num, list, holding),
           \A i \in 1 .. Len(list) : Full(list[i]),
           NEW b, Sound(b), b.data \in Addresses, b.elem_num = NumOf(num, Len(list) + 1),
           \A i \in 1 .. Len(list) : Disjoint(b.data, b.elem_num, list[i])
    PROVE  /\ ListInv(num, Append(list, b), holding)
           /\ Len(Append(list, b)) = Len(list) + 1
           /\ Append(list, b)[Len(list) + 1] = b
<1> DEFINE new == Append(list, b)
<1>1. list \in Seq(Block) /\ b \in Block /\ Len(list) \in Nat
  BY LenProperties DEF ListInv, Sound
<1>2. /\ new \in Seq(Block)
      /\ Len(new) = Len(list) + 1
      /\ \A i \in 1 .. Len(list) : new[i] = list[i]
      /\ new[Len(list) + 1] = b
  BY <1>1, AppendProperties
<1> HIDE DEF new
<1>3. ASSUME NEW i \in 1 .. Len(new)
      PROVE  Sound(new[i]) /\ new[i].elem_num = NumOf(num, i) /\ new[i].data \in Addresses
  <2>1. i \in 1 .. Len(list) \/ i = Len(list) + 1
    BY <1>1, <1>2
  <2>2. QED
    BY <1>2, <2>1 DEF ListInv
<1>4. ASSUME NEW i \in 1 .. Len(new), NEW j \in 1 .. Len(new), i # j
      PROVE  Disjoint(new[i].data, new[i].elem_num, new[j])
  <2>1. /\ i \in 1 .. Len(list) \/ i = Len(list) + 1
        /\ j \in 1 .. Len(list) \/ j = Len(list) + 1
    BY <1>1, <1>2
  <2>2. CASE i \in 1 .. Len(list) /\ j \in 1 .. Len(list)
    BY <1>2, <1>4, <2>2 DEF ListInv
  <2>3. CASE i = Len(list) + 1
    BY <1>2, <1>4, <2>1, <2>3
  <2>4. CASE j = Len(list) + 1
    <3>1. i \in 1 .. Len(list)
      BY <1>4, <2>1, <2>4
    <3>2. Disjoint(b.data, b.elem_num, list[i])
      BY <3>1
    <3>3. QED
      BY <1>2, <2>4, <3>1, <3>2 DEF Disjoint
  <2>5. QED
    BY <2>1, <2>2, <2>3, <2>4
<1>5. \A i \in 1 .. Len(new) - 1 : Full(new[i])
  BY <1>1, <1>2
<1>6. ASSUME NEW p \in holding
      PROVE  \E i \in 1 .. Len(new) : Origin(new, p, i)
  <2>1. PICK i \in 1 .. Len(list) : Origin(list, p, i)
    BY DEF ListInv
  <2>2. i \in 1 .. Len(new)
    BY <1>1, <1>2
  <2>3. Origin(new, p, i)
    BY <1>2, <2>1, <2>2 DEF Origin
  <2>4. QED
    BY <2>2, <2>3
<1>7. ListInv(num, new, holding)
  BY <1>2, <1>3, <1>4, <1>5, <1>6 DEF ListInv
<1>8. QED
  BY <1>2, <1>7 DEF new

\* An element that is held and matches a block matches it at an index that has
\* been handed out, or the block is full.
LEMMA MatchIsHarmless ==
    ASSUME NEW num \in Nat, NEW list, NEW holding, ListInv(num, list, holding),
           TableFits(num),
           NEW p \in holding, NEW n \in 1 .. Len(list), Matches(list[n], p)
    PROVE  Full(list[n]) \/ Offset(list[n], p) < list[n].head
<1> DEFINE blk == list[n]
<1>1. ElemSize \in Nat /\ ElemSize > 0 /\ num \in Nat /\ Addresses \subseteq Nat
  BY SizesAssumption
<1>2. /\ Sound(blk) /\ blk \in Block /\ blk.data \in Nat
      /\ blk.elem_num \in Nat /\ blk.elem_num = NumOf(num, n)
      /\ list \in Seq(Block) /\ Len(list) \in Nat
  BY <1>1, LenProperties DEF ListInv, Sound, Block
<1>3. PICK i \in 1 .. Len(list) : Origin(list, p, i)
  BY DEF ListInv
<1>4. PICK m \in Used(list[i]) : p = Element(list[i], m)
  BY <1>3 DEF Origin
<1>5. /\ Sound(list[i]) /\ list[i] \in Block /\ list[i].data \in Nat
      /\ list[i].elem_num \in Nat /\ m \in 0 .. list[i].elem_num /\ m \in Nat
  <2>1. Sound(list[i]) /\ list[i] \in Block
    BY DEF ListInv, Sound
  <2>2. QED
    BY <2>1, UsedIndexes DEF Block
<1>6. m * ElemSize \in Nat /\ p \in Nat /\ p = list[i].data + m * ElemSize
  <2>1. m * ElemSize \in Nat
    BY <1>1, <1>5
  <2>2. QED
    BY <1>4, <1>5, <2>1 DEF Element
<1>7. CASE i = n
  <2>1. blk.data - p = -(m * ElemSize)
    BY <1>2, <1>6, <1>7
  <2>2. m = 0
    <3>1. SUFFICES ASSUME m > 0
                   PROVE  FALSE
      BY <1>5
    <3>2. ElemSize <= m * ElemSize
      <4>1. 0 * ElemSize + ElemSize <= m * ElemSize
        BY <1>5, <3>1, ProductStep
      <4>2. QED
        BY <1>1, <4>1
    <3>3. blk.data - p \in Int /\ blk.data - p <= -ElemSize
      BY <1>1, <1>6, <2>1, <3>2
    <3>4. Offset(blk, p) < 0
      BY <3>3, QuotientSign DEF Offset
    <3>5. QED
      BY <1>2, <3>4 DEF Matches
  <2>3. Offset(blk, p) = 0
    <3>1. m * ElemSize = 0
      BY <1>1, <2>2
    <3>2. blk.data - p = 0
      BY <2>1, <3>1
    <3>3. QED
      BY <3>2, QuotientSign DEF Offset
  <2>4. 0 < blk.head \/ Exhausted(blk)
    BY <1>2, <1>4, <1>7, <2>2 DEF Used, Sound, Ascending
  <2>5. ~Exhausted(blk)
    BY <1>2, <2>3 DEF Exhausted, Matches
  <2>6. QED
    BY <2>3, <2>4, <2>5
<1>8. CASE i # n /\ ~Full(blk)
  \* The block is the last one, with one element at most, and p too far away.
  <2>1. n = Len(list) /\ n # 1
    BY <1>2, <1>8 DEF ListInv
  <2>2. blk.elem_num <= 1
    BY <1>1, <1>2, <2>1 DEF NumOf, TableFits, ChunkInts
  <2>3. Full(list[i])
    BY <1>2, <1>8, <2>1 DEF ListInv
  <2>4. m < list[i].elem_num
    BY <1>4, <1>5, <2>3, UsedIndexes
  <2>5. Disjoint(list[i].data, list[i].elem_num, blk)
    BY <1>8 DEF ListInv
  <2>6. /\ m * ElemSize + ElemSize <= list[i].elem_num * ElemSize
        /\ list[i].elem_num * ElemSize + ElemSize <= DataSize(list[i].elem_num)
        /\ ElemSize <= DataSize(blk.elem_num)
        /\ DataSize(list[i].elem_num) \in Nat /\ DataSize(blk.elem_num) \in Nat
        /\ list[i].elem_num * ElemSize \in Nat
    <3>1. m * ElemSize + ElemSize <= list[i].elem_num * ElemSize
      BY <1>5, <2>4, ProductStep
    <3>2. /\ list[i].elem_num * ElemSize + ElemSize
                <= (list[i].elem_num + 1) * ElemSize
          /\ blk.elem_num * ElemSize + ElemSize <= (blk.elem_num + 1) * ElemSize
      BY <1>2, <1>5, ProductStep
    <3>3. /\ list[i].elem_num * ElemSize \in Nat
          /\ blk.elem_num * ElemSize \in Nat
          /\ (list[i].elem_num + 1) * ElemSize \in Nat
          /\ (blk.elem_num + 1) * ElemSize \in Nat
      <4>1. \A k \in Nat : k * ElemSize \in Nat
        BY <1>1
      <4>2. list[i].elem_num + 1 \in Nat /\ blk.elem_num + 1 \in Nat
        BY <1>2, <1>5
      <4> HIDE DEF blk
      <4>3. QED
        BY <1>2, <1>5, <4>1, <4>2
    <3>4. /\ DataSize(list[i].elem_num) = (list[i].elem_num + 1) * ElemSize
          /\ DataSize(blk.elem_num) = (blk.elem_num + 1) * ElemSize
      BY <1>1, <1>2, <1>5 DEF DataSize
    <3>5. QED
      BY <1>1, <3>1, <3>2, <3>3, <3>4
  <2>7. /\ blk.data - p \in Int
        /\ \/ blk.data - p >= ElemSize
           \/ blk.data - p <= -ElemSize
    <3> DEFINE offset == m * ElemSize
               last == list[i].elem_num * ElemSize
               a == list[i].data
               b == blk.data
               sizeA == DataSize(list[i].elem_num)
               sizeB == DataSize(blk.elem_num)
    <3>1. /\ a \in Nat /\ b \in Nat /\ offset \in Nat /\ last \in Nat
          /\ sizeA \in Nat /\ sizeB \in Nat /\ p = a + offset
          /\ offset + ElemSize <= last /\ last + ElemSize <= sizeA
          /\ ElemSize <= sizeB
      BY <1>2, <1>5, <1>6, <2>6
    <3>2. a + sizeA <= b \/ b + sizeB <= a
      BY <2>5 DEF Disjoint
    <3> HIDE DEF offset, last, a, b, sizeA, sizeB
    <3>3. b - p \in Int /\ (b - p >= ElemSize \/ b - p <= -ElemSize)
      BY <1>1, <3>1, <3>2, Distance
    <3>4. QED
      BY <3>3 DEF b
  <2>8. Offset(blk, p) >= 1 \/ Offset(blk, p) < 0
    BY <2>7, QuotientSign DEF Offset
  <2>9. QED
    BY <1>2, <2>2, <2>8 DEF Matches
<1>9. QED
  BY <1>7, <1>8

\* The block after index k has been chained at its tail.
Put(blk, k) == [blk EXCEPT !.table[blk.tail] = k, !.table[k] = ENDOFMEM]

LEMMA PutSound ==
    ASSUME NEW blk, Sound(blk), NEW k \in 0 .. blk.elem_num - 1,
           Full(blk) \/ k < blk.head
    PROVE  /\ Sound(Put(blk, k))
           /\ Put(blk, k).elem_num = blk.elem_num
           /\ Put(blk, k).data = blk.data
           /\ Full(blk) => Full(Put(blk, k))
           /\ Used(Put(blk, k)) = Used(blk)
<1> DEFINE n == blk.elem_num
           t == [blk.table EXCEPT ![n] = k, ![k] = ENDOFMEM]
<1>1. /\ blk \in Block /\ n \in Nat /\ blk.head \in 0 .. n
      /\ blk.table \in [0 .. n -> {ALLOCATED, ENDOFMEM} \cup 0 .. n]
      /\ blk.tail = n
      /\ \A i \in blk.head .. n - 1 : blk.table[i] = i + 1
  BY DEF Sound, Ascending, Exhausted, Block
<1>2. /\ Put(blk, k).elem_num = n
      /\ Put(blk, k).data = blk.data
      /\ Put(blk, k).head = blk.head
      /\ Put(blk, k).tail = n
      /\ Put(blk, k).table = t
  BY <1>1 DEF Put, Block
<1>3. t \in [0 .. n -> {ALLOCATED, ENDOFMEM} \cup 0 .. n]
  BY <1>1
<1>4. t \in Tables
  <2>1. t \in [0 .. n -> Int]
    BY <1>1, <1>3 DEF ALLOCATED, ENDOFMEM
  <2>2. QED
    BY <1>1, <2>1 DEF Tables
<1>5. Put(blk, k) \in Block
  BY <1>1, <1>4 DEF Put, Block
<1>6. \A i \in blk.head .. n - 1 : t[i] = i + 1
  BY <1>1 DEF Full
<1>7. Ascending(Put(blk, k))
  BY <1>1, <1>2, <1>6 DEF Ascending
<1>8. Sound(Put(blk, k))
  BY <1>1, <1>2, <1>3, <1>5, <1>7 DEF Sound
<1>9. Used(Put(blk, k)) = Used(blk)
  BY <1>2 DEF Used, Exhausted
<1>10. QED
  BY <1>1, <1>2, <1>8, <1>9 DEF Full

-----------------------------------------------------------------------------
(* The steps.                                                              *)

\* The part of a step that PoolInv says of the bookkeeping of the caller.
LEMMA OneMoreHeld ==
    ASSUME IsFiniteSet(held), calls = Cardinality(held), NEW e, e \notin held,
           held' = held \cup {e}, calls' = calls + 1
    PROVE  IsFiniteSet(held') /\ calls' = Cardinality(held')
BY FS_AddElement

LEMMA OneLessHeld ==
    ASSUME IsFiniteSet(held), calls = Cardinality(held), NEW e \in held,
           held' = held \ {e}, calls' = calls - 1
    PROVE  IsFiniteSet(held') /\ calls' = Cardinality(held')
BY FS_RemoveElement

AllocStep == Alloc!Next \/ UNCHANGED Alloc!vars

LEMMA InitPool == Init => PoolInv
<1> SUFFICES ASSUME Init
             PROVE  PoolInv
  OBVIOUS
<1>1. ListInv(elem_num, blocks, held)
  BY DEF Init, ListInv
<1>2. IsFiniteSet(held) /\ calls = Cardinality(held)
  BY FS_EmptySet DEF Init
<1>3. elem_total \in Nat /\ faults \in 0 .. MaxFaults
  BY SizesAssumption DEF Init
<1>4. GrownBy(blocks) /\ ForeignMemoryCauses
  BY DEF Init, GrownBy, ForeignMemoryCauses
<1>5. QED
  BY <1>1, <1>2, <1>3, <1>4 DEF Init, PoolInv, Scalars

LEMMA NothingHeldWithoutBlock ==
    ASSUME PoolInv, blocks = <<>>
    PROVE  held = {}
BY DEF PoolInv, ListInv

LEMMA NumType ==
    ASSUME PoolInv
    PROVE  /\ elem_num \in Nat
           /\ pool = "ready" => elem_num \in ElemNums
BY SizesAssumption DEF PoolInv, Scalars

LEMMA CreateStep ==
    ASSUME PoolInv, NEW num \in ElemNums, mem_pool_create(num)
    PROVE  PoolInv' /\ AllocStep
<1>1. /\ blocks = <<>> /\ held = {} /\ num \in Nat /\ MaxFaults \in Nat
      /\ elem_num' = num /\ held' = {}
  BY NothingHeldWithoutBlock, SizesAssumption DEF PoolInv, mem_pool_create
<1>2. CASE /\ \E blk \in alloc_block(num) : blocks' = <<blk>>
           /\ wild' = ~TableFits(num)
           /\ UNCHANGED faults
  <2>1. PICK data \in Addresses : blocks' = <<NewBlock(num, data)>>
    BY <1>2 DEF alloc_block
  <2>2. Sound(NewBlock(num, data)) /\ NewBlock(num, data).elem_num = num
                                   /\ NewBlock(num, data).data = data
    BY <1>1, NewBlockSound
  <2>3. ListInv(elem_num', blocks', held')
    <3>1. blocks' \in Seq(Block) /\ Len(blocks') = 1 /\ blocks'[1] = NewBlock(num, data)
      BY <2>1, <2>2 DEF Sound
    <3> HIDE DEF NewBlock
    <3>2. QED
      BY <1>1, <2>2, <3>1 DEF ListInv, NumOf
  <2>4. ForeignMemoryCauses' /\ blocks' # <<>>
    BY <1>1, <1>2, <2>1 DEF ForeignMemoryCauses, TableFits
  <2>5. GrownBy(blocks')
    BY <2>1 DEF GrownBy
  <2>6. PoolInv'
    BY <1>1, <1>2, <2>3, <2>4, <2>5 DEF PoolInv, Scalars, mem_pool_create, TableFits
  <2>7. AllocStep
    BY <1>1, <1>2 DEF AllocStep, mem_pool_create, TableFits, Alloc!Next, Alloc!Open, Alloc!vars
  <2>8. QED
    BY <2>6, <2>7
<1>3. CASE AllocFails /\ wild' \in {wild, ~TableFits(num)} /\ UNCHANGED blocks
  <2>1. ListInv(elem_num', blocks', held')
    BY <1>1, <1>3 DEF ListInv
  <2>2. faults' > 0 /\ faults' \in 0 .. MaxFaults
    BY <1>1, <1>3 DEF PoolInv, Scalars, AllocFails
  <2>3. ForeignMemoryCauses' /\ GrownBy(blocks')
    BY <1>1, <1>3, <2>2 DEF ForeignMemoryCauses, GrownBy
  <2>4. PoolInv'
    BY <1>1, <1>3, <2>1, <2>2, <2>3 DEF PoolInv, Scalars, mem_pool_create, TableFits
  <2>5. AllocStep
    BY <1>1, <1>3 DEF AllocStep, mem_pool_create, PoolInv, Scalars, TableFits,
                       Alloc!Next, Alloc!Open, Alloc!vars
  <2>6. QED
    BY <2>4, <2>5
<1>4. QED
  BY <1>2, <1>3 DEF mem_pool_create

LEMMA DestroyStep ==
    ASSUME PoolInv, mem_pool_destroy
    PROVE  PoolInv' /\ AllocStep
<1>1. ListInv(elem_num', blocks', held')
  BY DEF mem_pool_destroy, ListInv
<1>2. IsFiniteSet(held') /\ calls' = Cardinality(held')
  BY FS_EmptySet DEF mem_pool_destroy
<1>3. Scalars'
  BY DEF PoolInv, Scalars, mem_pool_destroy
<1>4. wild' = FALSE
  BY DEF PoolInv, Scalars, mem_pool_destroy
<1>5. PoolInv'
  BY <1>1, <1>2, <1>3, <1>4 DEF PoolInv, mem_pool_destroy, GrownBy, ForeignMemoryCauses
<1>6. AllocStep
  BY <1>4 DEF mem_pool_destroy, AllocStep, Alloc!Next, Alloc!Close
<1>7. QED
  BY <1>5, <1>6

\* Handing out the head of the last block of a list.
LEMMA Handout ==
    ASSUME PoolInv, pool = "ready", wild = FALSE, UNCHANGED <<pool, elem_num, faults>>,
           NEW list, ListInv(elem_num, list, held), NEW n \in 1 .. Len(list), n = Len(list),
           CanTake(list[n]), blocks # <<>>, TakeHead(list, n),
           \A i \in 2 .. Len(list) - 1 : SpareTaken(list[i]),
           elem_total' \in Nat
    PROVE  PoolInv' /\ AllocStep
<1> DEFINE e == Element(list[n], list[n].head)
<1>1. Sound(list[n]) /\ list \in Seq(Block)
  BY DEF ListInv
<1>2. list[n].head \in 0 .. list[n].elem_num
  BY <1>1, TakenSound
<1>3. /\ held' = held \cup {e}
      /\ calls' = calls + 1
      /\ blocks' = [list EXCEPT ![n] = Taken(list[n])]
      /\ wild' = FALSE
  <2>1. /\ held' = held \cup {e}
        /\ calls' = calls + 1
        /\ blocks' = [list EXCEPT ![n].table[list[n].head] = ALLOCATED,
                                  ![n].head = list[n].table[list[n].head]]
        /\ UNCHANGED wild
    BY <1>2 DEF TakeHead
  <2>2. QED
    BY <1>1, <2>1 DEF Taken
<1>4. e \notin held /\ e \in ElementAddresses
  BY <1>2, HeadNotHeld, NumType
<1>5. ListInv(elem_num', blocks', held')
  BY <1>3, TakeHeadKeeps, NumType
<1> HIDE DEF e
<1>6. IsFiniteSet(held') /\ calls' = Cardinality(held')
  BY <1>3, <1>4, OneMoreHeld DEF PoolInv
<1>7. TableFits(elem_num)
  BY DEF PoolInv
<1>8. pool' = "ready" /\ blocks' # <<>>
  <2>1. Len(blocks') = Len(list)
    BY <1>1, <1>3
  <2>2. blocks' # <<>>
    BY <1>1, <2>1
  <2>3. QED
    BY <2>2
<1>9. Scalars'
  BY <1>3 DEF PoolInv, Scalars
<1>10. GrownBy(blocks')
  <2>1. SpareTaken(Taken(list[n])) /\ Taken(list[n]) \in Block
    BY <1>1, TakenSpare, TakenSound DEF Sound
  <2>2. /\ Len(list) \in Nat /\ Len(blocks') = Len(list)
        /\ blocks'[n] = Taken(list[n])
        /\ \A i \in 1 .. Len(list) : i # n => blocks'[i] = list[i]
    BY <1>1, <1>3, <2>1, ExceptSeq, LenProperties
  <2>3. QED
    BY <2>1, <2>2 DEF GrownBy
<1>11. PoolInv'
  <2>1. ForeignMemoryCauses'
    BY <1>3, <1>7, <1>8 DEF ForeignMemoryCauses, TableFits
  <2>2. QED
    BY <1>3, <1>5, <1>6, <1>7, <1>8, <1>9, <1>10, <2>1 DEF PoolInv, TableFits
<1>12. Alloc!Alloc
  BY <1>3, <1>4, <1>8 DEF Alloc!Alloc
<1>13. QED
  BY <1>11, <1>12 DEF AllocStep, Alloc!Next

\* The code uses memory that is not its own: the model stops.
LEMMA GoesWild ==
    ASSUME PoolInv, pool = "ready", wild = FALSE, wild' = TRUE,
           UNCHANGED <<pool, elem_num, blocks, held, calls, faults>>,
           elem_total' \in Nat,
           \/ blocks = <<>>
           \/ elem_num < 3 /\ Len(blocks) = 2 /\ blocks[2].head = ENDOFMEM
    PROVE  PoolInv' /\ AllocStep
<1>1. Scalars'
  BY DEF PoolInv, Scalars
<1>2. ForeignMemoryCauses' /\ GrownBy(blocks')
  BY DEF PoolInv, ForeignMemoryCauses, GrownBy
<1>3. PoolInv'
  BY <1>1, <1>2 DEF PoolInv
<1>4. AllocStep
  BY DEF AllocStep, Alloc!Next, Alloc!Close
<1>5. QED
  BY <1>3, <1>4

LEMMA MallocFromBlockStep ==
    ASSUME PoolInv, pool = "ready", wild = FALSE, MallocFromBlock
    PROVE  PoolInv' /\ AllocStep
<1>1. PICK i \in 1 .. Len(blocks) : /\ ~Full(blocks[i])
                                    /\ TakeHead(blocks, i)
  BY DEF MallocFromBlock
<1>2. blocks \in Seq(Block) /\ Len(blocks) \in Nat /\ Sound(blocks[i])
  BY LenProperties DEF PoolInv, ListInv
<1>3. i = Len(blocks) /\ blocks # <<>>
  BY <1>1, <1>2 DEF PoolInv, ListInv
<1>4. UNCHANGED <<pool, elem_num, elem_total, faults>> /\ elem_total' \in Nat
  BY DEF MallocFromBlock, PoolInv, Scalars
<1>5. CASE Exhausted(blocks[i])
  <2>1. blocks[i].head \notin 0 .. blocks[i].elem_num
    BY <1>5 DEF Exhausted, ENDOFMEM
  <2>2. wild' = TRUE /\ UNCHANGED <<blocks, held, calls>>
    BY <1>1, <2>1 DEF TakeHead
  <2>3. elem_num < 3 /\ i # 1
    BY <1>5, NumType, SizesAssumption DEF Exhausted, PoolInv, ListInv, NumOf
  <2>4. ASSUME i # 2
        PROVE  FALSE
    <3>1. 2 \in 1 .. Len(blocks) - 1 /\ 2 \in 2 .. Len(blocks) /\ 2 \in 1 .. Len(blocks)
      BY <1>2, <1>3, <2>3, <2>4
    <3>2. Full(blocks[2]) /\ Sound(blocks[2]) /\ blocks[2].elem_num = elem_num \div 3
      BY <3>1 DEF PoolInv, ListInv, NumOf
    <3>3. blocks[2].elem_num = 0
      BY <2>3, <3>2, NumType
    <3>4. Exhausted(blocks[2])
      BY <3>1, <3>3 DEF PoolInv, GrownBy, SpareTaken
    <3>5. QED
      BY <3>2, <3>4 DEF Full, Exhausted, Sound, ENDOFMEM
  <2>5. Len(blocks) = 2 /\ blocks[2].head = ENDOFMEM
    BY <1>3, <1>5, <2>4 DEF Exhausted
  <2>6. QED
    BY <1>4, <2>2, <2>3, <2>5, GoesWild
<1>6. CASE ~Exhausted(blocks[i])
  <2>1. CanTake(blocks[i])
    BY <1>1, <1>6 DEF CanTake
  <2>2. \A j \in 2 .. Len(blocks) - 1 : SpareTaken(blocks[j])
    BY <1>2 DEF PoolInv, GrownBy
  <2>3. QED
    BY <1>1, <1>3, <1>4, <2>1, <2>2, Handout DEF PoolInv
<1>7. QED
  BY <1>5, <1>6

LEMMA MallocFromNewBlockStep ==
    ASSUME PoolInv, pool = "ready", wild = FALSE, MallocFromNewBlock
    PROVE  PoolInv' /\ AllocStep
<1>1. PICK data \in Addresses :
         /\ \A i \in 1 .. Len(blocks) : Disjoint(data, elem_num \div 3, blocks[i])
         /\ LET blk == NewBlock(elem_num \div 3, data)
            IN  \/ /\ blocks # <<>>
                   /\ elem_total' = elem_total + elem_num
                   /\ TakeHead(Append(blocks, blk), Len(blocks) + 1)
                \/ /\ blocks = <<>>
                   /\ wild' = TRUE
                   /\ UNCHANGED <<blocks, elem_total, held, calls>>
  BY DEF MallocFromNewBlock, alloc_block
<1> DEFINE blk == NewBlock(elem_num \div 3, data)
           list == Append(blocks, blk)
<1>2. elem_num \in Nat /\ elem_num \div 3 \in Nat
  BY NumType
<1>3. UNCHANGED <<pool, elem_num, faults>> /\ \A i \in 1 .. Len(blocks) : Full(blocks[i])
  BY DEF MallocFromNewBlock
<1>4. CASE blocks # <<>>
  <2>1. /\ Sound(blk) /\ CanTake(blk)
        /\ blk.elem_num = elem_num \div 3 /\ blk.data = data
    BY <1>2, NewBlockSound
  <2>2. /\ elem_total' = elem_total + elem_num
        /\ TakeHead(list, Len(blocks) + 1)
    BY <1>1, <1>4
  <2>3. elem_total' \in Nat
    BY <1>2, <2>2 DEF PoolInv, Scalars
  <2>4. blocks \in Seq(Block) /\ Len(blocks) \in Nat /\ Len(blocks) # 0
    BY <1>4, LenProperties, EmptySeq DEF PoolInv, ListInv
  <2>5. NumOf(elem_num, Len(blocks) + 1) = elem_num \div 3
    BY <2>4 DEF NumOf
  <2> HIDE DEF blk
  <2>6. /\ ListInv(elem_num, list, held)
        /\ Len(list) = Len(blocks) + 1
        /\ list[Len(blocks) + 1] = blk
    BY <1>1, <1>2, <1>3, <2>1, <2>5, AppendKeeps DEF PoolInv
  <2>7. \A j \in 2 .. Len(list) - 1 : SpareTaken(list[j])
    <3>1. \A j \in 1 .. Len(blocks) : list[j] = blocks[j]
      BY <2>1, <2>4, AppendProperties DEF Sound
    <3> HIDE DEF list
    <3>2. QED
      BY <2>4, <2>6, <3>1 DEF PoolInv, GrownBy
  <2> HIDE DEF list
  <2>8. Len(blocks) + 1 \in 1 .. Len(list)
    BY <2>4, <2>6
  <2>9. QED
    BY <1>3, <1>4, <2>1, <2>2, <2>3, <2>6, <2>7, <2>8, Handout
<1>5. CASE blocks = <<>>
  <2>1. wild' = TRUE /\ UNCHANGED <<blocks, elem_total, held, calls>>
    BY <1>1, <1>5
  <2>2. elem_total' \in Nat
    BY <2>1 DEF PoolInv, Scalars
  <2>3. QED
    BY <1>3, <1>5, <2>1, <2>2, GoesWild
<1>6. QED
  BY <1>4, <1>5

LEMMA MallocFailsStep ==
    ASSUME PoolInv, pool = "ready", wild = FALSE, MallocFails
    PROVE  PoolInv' /\ AllocStep
<1>1. UNCHANGED <<pool, elem_num, blocks, elem_total, held, calls, wild>>
  BY DEF MallocFails
<1>2. faults' \in 0 .. MaxFaults /\ faults' > 0
  BY SizesAssumption DEF MallocFails, AllocFails, PoolInv, Scalars
<1>3. Scalars'
  BY <1>1, <1>2 DEF PoolInv, Scalars
<1>4. ForeignMemoryCauses' /\ GrownBy(blocks')
  BY <1>1 DEF PoolInv, ForeignMemoryCauses, GrownBy
<1>5. PoolInv'
  BY <1>1, <1>2, <1>3, <1>4 DEF PoolInv, ListInv, Origin, TableFits
<1>6. AllocStep
  BY <1>1 DEF AllocStep, Alloc!vars
<1>7. QED
  BY <1>5, <1>6

LEMMA MallocStep ==
    ASSUME PoolInv, mem_pool_malloc
    PROVE  PoolInv' /\ AllocStep
<1>1. pool = "ready" /\ wild = FALSE
  BY DEF mem_pool_malloc, PoolInv, Scalars
<1>2. QED
  BY <1>1, MallocFromBlockStep, MallocFromNewBlockStep, MallocFailsStep
     DEF mem_pool_malloc

LEMMA FreeStep ==
    ASSUME PoolInv, NEW p \in held, mem_pool_free(p)
    PROVE  PoolInv' /\ AllocStep
<1>1. /\ pool = "ready" /\ wild = FALSE
      /\ held' = held \ {p} /\ calls' = calls - 1
      /\ UNCHANGED <<pool, elem_num, elem_total, wild, faults>>
  BY DEF mem_pool_free, PoolInv, Scalars
<1>2. blocks \in Seq(Block) /\ Len(blocks) \in Nat /\ ListInv(elem_num, blocks, held)
  BY LenProperties DEF PoolInv, ListInv
<1>3. ListInv(elem_num, blocks', held) /\ Len(blocks') = Len(blocks) /\ GrownBy(blocks')
  <2>1. ASSUME NEW i \in 1 .. Len(blocks), Matches(blocks[i], p), PutAtTail(i, p)
        PROVE  ListInv(elem_num, blocks', held) /\ Len(blocks') = Len(blocks) /\ GrownBy(blocks')
    <3> DEFINE k == Offset(blocks[i], p)
               b == Put(blocks[i], k)
    <3>1. Sound(blocks[i]) /\ k \in 0 .. blocks[i].elem_num - 1
      BY <1>2, <2>1 DEF ListInv, Matches
    <3>2. TableFits(elem_num)
      <4>1. blocks # <<>>
        BY <1>2, <2>1
      <4>2. QED
        BY <1>1, <4>1 DEF PoolInv
    <3>3. Full(blocks[i]) \/ k < blocks[i].head
      BY <1>2, <2>1, <3>2, NumType, MatchIsHarmless
    <3> HIDE DEF k
    <3>4. /\ Sound(b) /\ b.elem_num = blocks[i].elem_num
          /\ b.data = blocks[i].data
          /\ Full(blocks[i]) => Full(b)
          /\ Used(b) = Used(blocks[i])
      BY <3>1, <3>3, PutSound
    <3>5. blocks' = [blocks EXCEPT ![i] = b]
      BY <1>2, <2>1 DEF PutAtTail, Put, k
    <3>6. i < Len(blocks) => Full(b)
      BY <1>2, <3>4 DEF ListInv
    <3> HIDE DEF b
    <3>7. ListInv(elem_num, [blocks EXCEPT ![i] = b], held)
      BY <1>2, <3>4, <3>6, NumType, ReplaceKeeps
    <3>8. Len(blocks') = Len(blocks)
      BY <1>2, <3>5
    <3>9. GrownBy(blocks')
      <4>1. \A j \in 1 .. Len(blocks) : blocks'[j] = IF j = i THEN b ELSE blocks[j]
        BY <1>2, <3>5
      <4>2. SpareTaken(b)
        BY <1>2, <3>1, <3>4 DEF SpareTaken, ListInv, Sound, Block
      <4>3. QED
        BY <1>2, <3>8, <4>1, <4>2 DEF PoolInv, GrownBy
    <3>10. QED
      BY <3>5, <3>7, <3>8, <3>9
  <2>2. CASE UNCHANGED blocks
    BY <1>2, <2>2 DEF PoolInv
  <2>3. QED
    BY <2>1, <2>2 DEF mem_pool_free
<1>4. ListInv(elem_num', blocks', held')
  BY <1>1, <1>3, NumType, HoldingKeeps
<1>5. IsFiniteSet(held') /\ calls' = Cardinality(held')
  BY <1>1, OneLessHeld DEF PoolInv
<1>6. blocks # <<>> /\ blocks' # <<>>
  <2>1. blocks # <<>>
    BY NothingHeldWithoutBlock
  <2>2. blocks' \in Seq(Block)
    BY <1>3 DEF ListInv
  <2>3. QED
    BY <1>2, <1>3, <2>1, <2>2, EmptySeq
<1>7. Scalars'
  BY <1>1 DEF PoolInv, Scalars
<1>8. PoolInv'
  <2>1. ForeignMemoryCauses'
    BY <1>1, <1>6 DEF PoolInv, ForeignMemoryCauses, TableFits
  <2>2. QED
    BY <1>1, <1>3, <1>4, <1>5, <1>6, <1>7, <2>1 DEF PoolInv, TableFits
<1>9. Alloc!Free
  BY <1>1 DEF Alloc!Free
<1>10. QED
  BY <1>8, <1>9 DEF AllocStep, Alloc!Next

LEMMA PoolStep ==
    ASSUME PoolInv, [Next]_vars
    PROVE  PoolInv' /\ AllocStep
<1>1. CASE UNCHANGED vars
  <2>1. Scalars' /\ ForeignMemoryCauses' /\ GrownBy(blocks')
    BY <1>1 DEF vars, PoolInv, Scalars, ForeignMemoryCauses, GrownBy
  <2>2. PoolInv'
    BY <1>1, <2>1 DEF vars, PoolInv, ListInv, Origin, TableFits
  <2>3. QED
    BY <1>1, <2>2 DEF vars, AllocStep, Alloc!vars
<1>2. QED
  BY <1>1, CreateStep, DestroyStep, MallocStep, FreeStep DEF Next

-----------------------------------------------------------------------------
(* What the invariant says of the pool.                                    *)

LEMMA InvTypes == PoolInv => TypeOK
<1> SUFFICES ASSUME PoolInv
             PROVE  TypeOK
  OBVIOUS
<1>1. calls \in Nat
  BY FS_CardinalityType DEF PoolInv
<1>2. held \in SUBSET Nat
  <2>1. ASSUME NEW p \in held
        PROVE  p \in Nat
    <3>1. PICK i \in 1 .. Len(blocks) : Origin(blocks, p, i)
      BY DEF PoolInv, ListInv
    <3>2. PICK m \in Used(blocks[i]) : p = Element(blocks[i], m)
      BY <3>1 DEF Origin
    <3>3. Sound(blocks[i]) /\ blocks[i].data \in Nat /\ blocks[i].elem_num \in Nat
      BY DEF PoolInv, ListInv, Sound, Block
    <3>4. m \in Nat /\ ElemSize \in Nat
      BY <3>3, UsedIndexes, SizesAssumption
    <3>5. m * ElemSize \in Nat
      BY <3>4
    <3>6. QED
      BY <3>2, <3>3, <3>5 DEF Element
  <2>2. QED
    BY <2>1
<1>3. ASSUME NEW i \in BlockIds
      PROVE  /\ blocks[i].elem_num = (IF i = 1 THEN elem_num ELSE elem_num \div 3)
             /\ blocks[i].data \in Addresses
             /\ blocks[i].table \in
                   [0 .. blocks[i].elem_num ->
                       {ALLOCATED, ENDOFMEM} \cup 0 .. blocks[i].elem_num]
             /\ \A j \in BlockIds \ {i} :
                   Disjoint(blocks[i].data, blocks[i].elem_num, blocks[j])
  BY DEF PoolInv, ListInv, Sound, BlockIds, NumOf
<1>4. QED
  BY <1>1, <1>2, <1>3 DEF TypeOK, PoolInv, Scalars

\* The chain of a block: the elements from head on.
LEMMA InvChains == PoolInv => FreeChainIntact
<1> SUFFICES ASSUME PoolInv, NEW i \in BlockIds, blocks[i].elem_num > 0
             PROVE  LET blk == blocks[i]
                    IN  \E chain \in SUBSET (0 .. blk.elem_num) :
                           /\ {blk.head, blk.tail} \subseteq chain
                           /\ \A k \in chain \ {blk.tail} :
                                 /\ blk.table[k] \in chain
                                 /\ blk.table[k] > k
                                 /\ Element(blk, k) \notin held
  BY DEF FreeChainIntact
<1> DEFINE blk == blocks[i]
           n == blk.elem_num
           chain == blk.head .. n
<1>1. elem_num \in Nat /\ ElemSize \in Nat /\ Addresses \subseteq Nat
  BY NumType, SizesAssumption
<1>2. /\ Sound(blk) /\ n \in Nat /\ n = NumOf(elem_num, i) /\ i \in 1 .. Len(blocks)
      /\ blk.data \in Nat /\ blk \in Block
  BY DEF PoolInv, ListInv, Sound, Block, BlockIds
<1>3. n > 0
  OBVIOUS
<1>4. /\ blk.head \in 0 .. n /\ blk.tail = n
      /\ \A k \in blk.head .. n - 1 : blk.table[k] = k + 1
      /\ Used(blk) = 0 .. blk.head - 1
  BY <1>2, <1>3 DEF Sound, Ascending, Exhausted, Used
<1>5. chain \in SUBSET (0 .. n) /\ {blk.head, blk.tail} \subseteq chain
  BY <1>2, <1>4
<1>6. ASSUME NEW k \in chain \ {blk.tail}
      PROVE  blk.table[k] \in chain /\ blk.table[k] > k
  BY <1>2, <1>4, <1>6
<1>7. ASSUME NEW k \in chain \ {blk.tail}, Element(blk, k) \in held
      PROVE  FALSE
  <2>1. PICK j \in 1 .. Len(blocks) : Origin(blocks, Element(blk, k), j)
    BY <1>7 DEF PoolInv, ListInv
  <2>2. PICK m \in Used(blocks[j]) : Element(blk, k) = Element(blocks[j], m)
    BY <2>1 DEF Origin
  <2>3. /\ Sound(blocks[j]) /\ blocks[j] \in Block
        /\ m \in 0 .. blocks[j].elem_num /\ m \in Nat
    <3>1. Sound(blocks[j]) /\ blocks[j] \in Block /\ blocks[j].elem_num \in Nat
      BY DEF PoolInv, ListInv, Sound, Block
    <3>2. QED
      BY <3>1, UsedIndexes
  <2>4. k \in Nat /\ k \in 0 .. n /\ blk.head <= k
    BY <1>2, <1>4, <1>7
  <2>5. Element(blk, k) \in Nat
    <3>1. k * ElemSize \in Nat
      BY <1>1, <2>4
    <3>2. QED
      BY <1>2, <3>1 DEF Element
  <2>6. CASE j = i
    <3>1. m < k
      BY <1>4, <2>2, <2>4, <2>6
    <3>2. Element(blk, m) < Element(blk, k)
      BY <1>2, <2>3, <2>4, <3>1, ElementsDistinct
    <3>3. QED
      BY <2>2, <2>5, <2>6, <3>2
  <2>7. CASE j # i
    <3>1. Disjoint(blocks[j].data, blocks[j].elem_num, blk)
      BY <1>2, <2>7 DEF PoolInv, ListInv
    <3>2. Element(blocks[j], m) # Element(blk, k)
      BY <1>2, <2>3, <2>4, <3>1, ElementsApart
    <3>3. QED
      BY <2>2, <3>2
  <2>8. QED
    BY <2>6, <2>7
<1>8. QED
  <2>1. \A k \in chain \ {blk.tail} : /\ blk.table[k] \in chain
                                      /\ blk.table[k] > k
                                      /\ Element(blk, k) \notin held
    BY <1>6, <1>7
  <2>2. QED
    BY <1>5, <2>1

-----------------------------------------------------------------------------
(* The theorems.                                                           *)

LEMMA PoolInvariant == Spec => []PoolInv
<1>1. PoolInv /\ [Next]_vars => PoolInv'
  BY PoolStep
<1>2. QED
  BY InitPool, <1>1, PTL DEF Spec

(* Whatever is allocated, freed and refused: the list keeps its shape, its *)
(* blocks never overlap and the tables hold indexes and the two markers    *)
(* only (mem_pool_create, mem_pool_malloc, mem_pool_free).                 *)
THEOREM PoolTypes == Spec => []TypeOK
BY PoolInvariant, InvTypes, PTL

(* In every pool that stays within its own memory, which is one of up to   *)
(* five elements, of any size, wherever its blocks lie: what mem_pool_free *)
(* writes at the index that it computed the wrong way never cuts the free  *)
(* chain of a block, nor leads it to a held element.                       *)
THEOREM FreeChains == Spec => []FreeChainIntact
BY PoolInvariant, InvChains, PTL

(* For any number of elements: a pool uses foreign memory when its table   *)
(* overruns its chunk, and it does so whenever it has a block; else when   *)
(* its first block could not be allocated, or when a pool of one or two    *)
(* elements has grown and has handed out the spare element of its second   *)
(* block.  A pool of three to five elements with a first block never does. *)
THEOREM NoForeignMemory == Spec => []ForeignMemoryCauses
<1>1. PoolInv => ForeignMemoryCauses
  BY DEF PoolInv
<1>2. QED
  BY PoolInvariant, <1>1, PTL

(* The pool implements the allocator: mem_pool_malloc never returns an     *)
(* element that somebody holds, for any size of pool and of elements and   *)
(* wherever malloc puts the blocks.                                        *)
THEOREM PoolImplementsAllocator == Spec => AllocatorSpec
<1>1. Init => Alloc!Init
  BY DEF Init, Alloc!Init
<1>2. PoolInv /\ [Next]_vars => [Alloc!Next]_Alloc!vars
  BY PoolStep DEF AllocStep
<1>3. QED
  BY PoolInvariant, <1>1, <1>2, PTL DEF Spec, AllocatorSpec, Alloc!Spec
=============================================================================
