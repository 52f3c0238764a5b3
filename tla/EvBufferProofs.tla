--------------------------- MODULE EvBufferProofs ---------------------------
(***************************************************************************)
(* Theorems about EvBuffer, for any sizes of chains, reads and packets:    *)
(* what an evbuffer keeps aside is true of its chains, and however the     *)
(* bytes lie in chains they are two streams.                               *)
(*                                                                         *)
(* The operators of EvBuffer go through the chains one by one; here they   *)
(* are compared chain by chain, by induction over the places, with what    *)
(* they make of the streams of bytes.                                      *)
(***************************************************************************)
EXTENDS EvBuffer, SequenceTheorems, FiniteSetTheorems, WellFoundedInduction,
        TLAPS

-----------------------------------------------------------------------------
(* Numbers, and induction over an interval of them.                        *)

\* Every set of numbers has a least one.
LEMMA LeastNumber ==
    ASSUME NEW T, T \subseteq Nat, T # {}
    PROVE  Least(T) \in T /\ \A j \in T : Least(T) <= j
<1> DEFINE R == OpToRel(<, Nat)
<1>1. IsWellFoundedOn(R, Nat)
  BY NatLessThanWellFounded
<1>2. PICK x \in T : \A y \in T : ~(<<y, x>> \in R)
  <2> HIDE DEF R
  <2>1. QED
    BY <1>1, WFMin
<1>3. \A y \in T : <<y, x>> \in R <=> y < x
  BY DEF OpToRel
<1>4. \A y \in T : x <= y
  <2>1. \A y \in T : y \in Nat /\ x \in Nat /\ ~(y < x)
    BY <1>2, <1>3
  <2>2. QED
    BY <2>1
<1>5. QED
  BY <1>4 DEF Least

LEMMA LeastOfTwo ==
    ASSUME NEW a \in Int, NEW b \in Int
    PROVE  Least({a, b}) = IF a <= b THEN a ELSE b
<1> DEFINE x == IF a <= b THEN a ELSE b
<1>1. x \in {a, b} /\ \A y \in {a, b} : x <= y
  OBVIOUS
<1>2. \A z \in {a, b} : (\A y \in {a, b} : z <= y) => z = x
  OBVIOUS
<1> HIDE DEF x
<1>3. /\ Least({a, b}) \in {a, b}
      /\ \A y \in {a, b} : Least({a, b}) <= y
  BY <1>1 DEF Least
<1>4. QED
  BY <1>2, <1>3 DEF x

\* What holds at zero and moves from each number to the next holds up to N.
LEMMA Induct ==
    ASSUME NEW N \in Nat, NEW P, 0 \in P,
           \A i \in 1 .. N : i - 1 \in P => i \in P
    PROVE  \A i \in 0 .. N : i \in P
<1> DEFINE T == {i \in 0 .. N : i \notin P}
<1>1. SUFFICES ASSUME T # {}
               PROVE  FALSE
  OBVIOUS
<1>2. PICK k \in T : \A j \in T : k <= j
  <2>1. T \subseteq Nat
    OBVIOUS
  <2> HIDE DEF T
  <2>2. QED
    BY <1>1, <2>1, LeastNumber
<1>3. k \in 1 .. N /\ k - 1 \in 0 .. N
  BY <1>2
<1>4. k - 1 \in P
  BY <1>2, <1>3
<1>5. QED
  BY <1>2, <1>3, <1>4

\* A step repeated from a start defines a function of the number of steps.
Iterates(f, N, start, step) ==
    /\ f[0] = start
    /\ \A i \in 1 .. N : f[i] = step[<<i, f[i - 1]>>]

LEMMA Iterated ==
    ASSUME NEW N \in Nat, NEW D, NEW start \in D,
           NEW step \in [(1 .. N) \X D -> D]
    PROVE  \E f \in [0 .. N -> D] : Iterates(f, N, start, step)
<1> DEFINE P == {k \in 0 .. N : \E f \in [0 .. k -> D] : Iterates(f, k, start, step)}
<1>1. 0 \in P
  <2>1. [i \in 0 .. 0 |-> start] \in [0 .. 0 -> D]
    OBVIOUS
  <2>2. Iterates([i \in 0 .. 0 |-> start], 0, start, step)
    BY DEF Iterates
  <2>3. QED
    BY <2>1, <2>2
<1>2. ASSUME NEW k \in 1 .. N, k - 1 \in P
      PROVE  k \in P
  <2>1. PICK f \in [0 .. k - 1 -> D] : Iterates(f, k - 1, start, step)
    BY <1>2
  <2> DEFINE x == step[<<k, f[k - 1]>>]
             g == [i \in 0 .. k |-> IF i = k THEN x ELSE f[i]]
  <2>2. f[k - 1] \in D
    OBVIOUS
  <2>3. <<k, f[k - 1]>> \in (1 .. N) \X D
    BY <2>2
  <2>4. x \in D
    BY <2>3
  <2> HIDE DEF x
  <2>5. g \in [0 .. k -> D]
    BY <2>4
  <2>6. g[0] = start
    BY <2>1 DEF Iterates
  <2>7. ASSUME NEW i \in 1 .. k
        PROVE  g[i] = step[<<i, g[i - 1]>>]
    <3>1. i - 1 \in 0 .. k /\ i - 1 # k /\ g[i - 1] = f[i - 1]
      OBVIOUS
    <3>2. CASE i = k
      BY <3>1, <3>2 DEF x
    <3>3. CASE i # k
      <4>1. i \in 1 .. k - 1 /\ g[i] = f[i]
        BY <3>3
      <4>2. QED
        BY <2>1, <3>1, <4>1 DEF Iterates
    <3>4. QED
      BY <3>2, <3>3
  <2>8. Iterates(g, k, start, step)
    <3> HIDE DEF g
    <3>1. QED
      BY <2>6, <2>7 DEF Iterates
  <2>9. QED
    <3> HIDE DEF g
    <3>1. QED
      BY <2>5, <2>8
<1>3. \A k \in 0 .. N : k \in P
  <2> HIDE DEF P
  <2>1. QED
    BY <1>1, <1>2, Induct
<1>4. QED
  BY <1>3

-----------------------------------------------------------------------------
(* Chains, and what the recursive functions of EvBuffer are.               *)

\* A chain holds no more than its memory, and an empty one has room.
Chain == {c \in [buffer_len : Nat, misalign : Nat, data : Seq(Nat)] :
             /\ CHAIN_SPACE_LEN(c) >= 0
             /\ c.data = <<>> => CHAIN_SPACE_LEN(c) > 0}

LEMMA ChainAt ==
    ASSUME NEW cs \in Seq(Chain), NEW i \in 1 .. Len(cs)
    PROVE  /\ cs[i] \in Chain
           /\ cs[i].buffer_len \in Nat /\ cs[i].misalign \in Nat
           /\ cs[i].data \in Seq(Nat)
           /\ CHAIN_SPACE_LEN(cs[i]) \in Nat
           /\ cs[i].data = <<>> => CHAIN_SPACE_LEN(cs[i]) > 0
<1>1. cs[i] \in Chain
  BY ElementOfSeq
<1>2. PICK c \in Chain : c = cs[i]
  BY <1>1
<1>3. /\ c.buffer_len \in Nat /\ c.misalign \in Nat /\ c.data \in Seq(Nat)
      /\ CHAIN_SPACE_LEN(c) >= 0
      /\ c.data = <<>> => CHAIN_SPACE_LEN(c) > 0
  BY DEF Chain
<1>4. Len(c.data) \in Nat
  BY <1>3, LenProperties
<1>5. CHAIN_SPACE_LEN(c) \in Nat
  BY <1>3, <1>4 DEF CHAIN_SPACE_LEN
<1>6. QED
  BY <1>1, <1>2, <1>3, <1>5

\* The bytes of the first chains, one chain after the other.
LEMMA UptoDef ==
    ASSUME NEW cs \in Seq(Chain)
    PROVE  /\ Upto(cs)[0] = <<>>
           /\ \A i \in 1 .. Len(cs) : Upto(cs)[i] = Upto(cs)[i - 1] \o cs[i].data
           /\ \A i \in 0 .. Len(cs) : Upto(cs)[i] \in Seq(Nat)
<1> DEFINE N == Len(cs)
           D == Seq(Nat)
           step == [a \in (1 .. N) \X D |-> a[2] \o cs[a[1]].data]
           Again(f) == [i \in 0 .. N |-> IF i = 0 THEN <<>> ELSE f[i - 1] \o cs[i].data]
           F == CHOOSE f : f = Again(f)
<1>1. N \in Nat
  BY LenProperties
<1>2. \A i \in 1 .. N : cs[i].data \in D
  BY ChainAt
<1>3. \A s, t \in D : s \o t \in D
  BY ConcatProperties
<1>4. <<>> \in D
  OBVIOUS
<1>5. Upto(cs) = F
  BY Zenon DEF Upto
<1> HIDE DEF D
<1>6. step \in [(1 .. N) \X D -> D]
  BY <1>1, <1>2, <1>3
<1>7. PICK g \in [0 .. N -> D] : Iterates(g, N, <<>>, step)
  <2> HIDE DEF step, N
  <2>1. QED
    BY <1>1, <1>4, <1>6, Iterated
<1>8. g = Again(g)
  <2>1. g[0] = <<>>
    BY <1>7 DEF Iterates
  <2>2. ASSUME NEW i \in 1 .. N
        PROVE  g[i] = g[i - 1] \o cs[i].data
    <3>1. g[i - 1] \in D /\ g[i] = step[<<i, g[i - 1]>>]
      <4> HIDE DEF step
      <4>1. i - 1 \in 0 .. N
        BY <1>1
      <4>2. QED
        BY <1>7, <4>1 DEF Iterates
    <3>2. <<i, g[i - 1]>> \in (1 .. N) \X D
      BY <3>1
    <3>3. QED
      BY <3>1, <3>2
  <2>3. QED
    BY <1>1, <2>1, <2>2
<1>9. F = Again(F)
  <2> HIDE DEF Again
  <2>1. QED
    BY <1>8
<1> HIDE DEF F
<1>10. F[0] = <<>> /\ \A i \in 1 .. N : F[i] = F[i - 1] \o cs[i].data
  BY <1>1, <1>9
<1>11. \A i \in 0 .. N : F[i] \in D
  <2> DEFINE P == {i \in 0 .. N : F[i] \in D}
  <2>1. 0 \in P
    BY <1>1, <1>4, <1>10
  <2>2. \A i \in 1 .. N : i - 1 \in P => i \in P
    BY <1>1, <1>2, <1>3, <1>10
  <2>3. \A i \in 0 .. N : i \in P
    <3> HIDE DEF P, N
    <3>1. QED
      BY <1>1, <2>1, <2>2, Induct
  <2>4. QED
    BY <2>3
<1>12. QED
  BY <1>5, <1>10, <1>11 DEF D

\* The room in the chains behind the data, which only grows with the chains.
LEMMA RoomDef ==
    ASSUME NEW buf, buf.chains \in Seq(Chain), buf.last_with_data \in Nat \ {0},
           buf.last_with_data <= Len(buf.chains) + 1
    PROVE  /\ \A i \in 0 .. Len(buf.chains) :
                 /\ Room(buf)[i] \in Nat
                 /\ i < buf.last_with_data => Room(buf)[i] = 0
                 /\ i >= buf.last_with_data =>
                       Room(buf)[i] = Room(buf)[i - 1] + CHAIN_SPACE_LEN(buf.chains[i])
           /\ \A i, j \in 0 .. Len(buf.chains) : i <= j => Room(buf)[i] <= Room(buf)[j]
<1> DEFINE N == Len(buf.chains)
           lwd == buf.last_with_data
           space(i) == CHAIN_SPACE_LEN(buf.chains[i])
           step == [a \in (1 .. N) \X Nat |-> IF a[1] < lwd THEN 0 ELSE a[2] + space(a[1])]
           Again(f) == [i \in 0 .. N |-> IF i < lwd THEN 0 ELSE f[i - 1] + space(i)]
           F == CHOOSE f : f = Again(f)
<1>1. N \in Nat /\ lwd \in Nat \ {0}
  BY LenProperties
<1>2. \A i \in 1 .. N : space(i) \in Nat
  BY ChainAt
<1>3. Room(buf) = F
  BY Zenon DEF Room
<1> HIDE DEF space
<1>4. step \in [(1 .. N) \X Nat -> Nat]
  BY <1>1, <1>2
<1>5. PICK g \in [0 .. N -> Nat] : Iterates(g, N, 0, step)
  <2> HIDE DEF step, N
  <2>1. QED
    BY <1>1, <1>4, Iterated
<1>6. g = Again(g)
  <2>1. g[0] = 0
    BY <1>5 DEF Iterates
  <2>2. ASSUME NEW i \in 1 .. N
        PROVE  g[i] = IF i < lwd THEN 0 ELSE g[i - 1] + space(i)
    <3>1. g[i - 1] \in Nat /\ g[i] = step[<<i, g[i - 1]>>]
      <4> HIDE DEF step
      <4>1. i - 1 \in 0 .. N
        BY <1>1
      <4>2. QED
        BY <1>5, <4>1 DEF Iterates
    <3>2. <<i, g[i - 1]>> \in (1 .. N) \X Nat
      BY <3>1
    <3>3. QED
      BY <3>1, <3>2
  <2>3. QED
    BY <1>1, <2>1, <2>2
<1>7. F = Again(F)
  <2> HIDE DEF Again
  <2>1. QED
    BY <1>6
<1> HIDE DEF F
<1>8. \A i \in 0 .. N : F[i] = IF i < lwd THEN 0 ELSE F[i - 1] + space(i)
  BY <1>1, <1>7
<1>9. \A i \in 0 .. N : F[i] \in Nat
  <2> DEFINE P == {i \in 0 .. N : F[i] \in Nat}
  <2>1. 0 \in P
    BY <1>1, <1>8
  <2>2. \A i \in 1 .. N : i - 1 \in P => i \in P
    BY <1>1, <1>2, <1>8
  <2>3. \A i \in 0 .. N : i \in P
    <3> HIDE DEF P, N
    <3>1. QED
      BY <1>1, <2>1, <2>2, Induct
  <2>4. QED
    BY <2>3
<1>10. ASSUME NEW i \in 0 .. N
       PROVE  \A j \in 0 .. N : i <= j => F[i] <= F[j]
  <2> DEFINE P == {j \in 0 .. N : i <= j => F[i] <= F[j]}
  <2>1. 0 \in P
    BY <1>1, <1>9
  <2>2. ASSUME NEW j \in 1 .. N, j - 1 \in P
        PROVE  j \in P
    <3>1. F[j - 1] \in Nat /\ F[j] \in Nat /\ F[i] \in Nat /\ space(j) \in Nat
      BY <1>1, <1>2, <1>9
    <3>2. F[j - 1] <= F[j] \/ j < lwd
      BY <1>1, <1>8, <3>1
    <3>3. j < lwd /\ i <= j => F[i] = 0
      BY <1>1, <1>8
    <3>4. i < j => F[i] <= F[j - 1]
      BY <2>2
    <3>5. QED
      BY <1>1, <3>1, <3>2, <3>3, <3>4
  <2>3. \A j \in 0 .. N : j \in P
    <3> HIDE DEF P, N
    <3>1. QED
      BY <1>1, <2>1, <2>2, Induct
  <2>4. QED
    BY <2>3
<1>11. QED
  BY <1>1, <1>3, <1>8, <1>9, <1>10 DEF space

-----------------------------------------------------------------------------
(* Sequences of bytes.                                                     *)

LEMMA NoBytes ==
    \A s \in Seq(Nat) : Len(s) = 0 => s = <<>>
OBVIOUS

LEMMA Joining ==
    \A s, t, u \in Seq(Nat) : (s \o t) \o u = s \o (t \o u)
<1>1. TAKE s, t, u \in Seq(Nat)
<1>2. QED
  BY ConcatAssociative, SMTT(40)

-----------------------------------------------------------------------------
(* The bytes of lists of chains that have chains in common.                *)

\* Chains n1 + 1, n1 + 2, ... of one list have the data of the first n2 of
\* another: their bytes follow those of the n1 chains before them.
LEMMA UptoShift ==
    ASSUME NEW cs \in Seq(Chain), NEW ds \in Seq(Chain), NEW n1 \in Nat, NEW n2 \in Nat,
           n1 + n2 <= Len(cs), n2 <= Len(ds),
           \A i \in 1 .. n2 : cs[n1 + i].data = ds[i].data
    PROVE  \A i \in 0 .. n2 : Upto(cs)[n1 + i] = Upto(cs)[n1] \o Upto(ds)[i]
<1> DEFINE P == {i \in 0 .. n2 : Upto(cs)[n1 + i] = Upto(cs)[n1] \o Upto(ds)[i]}
<1>1. Len(cs) \in Nat /\ Len(ds) \in Nat
  BY LenProperties
<1>2. /\ \A i \in 0 .. Len(cs) : Upto(cs)[i] \in Seq(Nat)
      /\ \A i \in 0 .. Len(ds) : Upto(ds)[i] \in Seq(Nat)
  BY UptoDef
<1>3. 0 \in P
  <2>1. n1 \in 0 .. Len(cs) /\ n1 + 0 = n1 /\ 0 \in 0 .. n2
    BY <1>1
  <2>2. Upto(cs)[n1] \in Seq(Nat)
    BY <1>2, <2>1
  <2>3. Upto(ds)[0] = <<>>
    BY UptoDef
  <2>4. Upto(cs)[n1] = Upto(cs)[n1] \o <<>>
    BY <2>2, ConcatEmptySeq
  <2>5. QED
    BY <2>1, <2>3, <2>4
<1>4. ASSUME NEW i \in 1 .. n2, i - 1 \in P
      PROVE  i \in P
  <2>0. n1 + (i - 1) = (n1 + i) - 1
    OBVIOUS
  <2>1. Upto(cs)[(n1 + i) - 1] = Upto(cs)[n1] \o Upto(ds)[i - 1]
    <3>1. Upto(cs)[n1 + (i - 1)] = Upto(cs)[n1] \o Upto(ds)[i - 1]
      BY Zenon, <1>4
    <3>2. QED
      BY <2>0, <3>1, Zenon
  <2>2. n1 + i \in 1 .. Len(cs) /\ i \in 1 .. Len(ds) /\ i - 1 \in 0 .. Len(ds)
    BY <1>1
  <2>3. Upto(cs)[n1 + i] = Upto(cs)[(n1 + i) - 1] \o cs[n1 + i].data
    BY <2>2, UptoDef
  <2>4. Upto(cs)[n1 + i] = (Upto(cs)[n1] \o Upto(ds)[i - 1]) \o ds[i].data
    BY <2>1, <2>3
  <2>5. /\ Upto(cs)[n1] \in Seq(Nat) /\ Upto(ds)[i - 1] \in Seq(Nat)
        /\ ds[i].data \in Seq(Nat)
    BY <1>1, <1>2, <2>2, ChainAt
  <2>6. Upto(cs)[n1 + i] = Upto(cs)[n1] \o (Upto(ds)[i - 1] \o ds[i].data)
    BY Zenon, <2>4, <2>5, Joining
  <2>7. Upto(ds)[i] = Upto(ds)[i - 1] \o ds[i].data
    BY <2>2, UptoDef
  <2>8. Upto(cs)[n1 + i] = Upto(cs)[n1] \o Upto(ds)[i]
    BY Zenon, <2>6, <2>7
  <2>9. i \in 0 .. n2
    OBVIOUS
  <2>10. QED
    BY Zenon, <2>8, <2>9
<1>5. \A i \in 0 .. n2 : i \in P
  <2> HIDE DEF P
  <2>1. QED
    BY <1>3, <1>4, Induct
<1>6. QED
  BY <1>5

\* Two lists whose first n chains have the same data.
LEMMA UptoSame ==
    ASSUME NEW cs \in Seq(Chain), NEW ds \in Seq(Chain), NEW n \in Nat,
           n <= Len(cs), n <= Len(ds),
           \A i \in 1 .. n : cs[i].data = ds[i].data
    PROVE  \A i \in 0 .. n : Upto(cs)[i] = Upto(ds)[i]
<1>1. Len(cs) \in Nat /\ Len(ds) \in Nat
  BY LenProperties
<1>2. \A i \in 0 .. n : Upto(cs)[0 + i] = Upto(cs)[0] \o Upto(ds)[i]
  <2>1. /\ 0 \in Nat /\ 0 + n <= Len(cs)
        /\ \A i \in 1 .. n : 0 + i = i
    BY <1>1
  <2>2. \A i \in 1 .. n : cs[0 + i].data = ds[i].data
    BY Zenon, <2>1
  <2>3. QED
    BY Zenon, <2>1, <2>2, UptoShift
<1>3. ASSUME NEW i \in 0 .. n
      PROVE  Upto(cs)[i] = Upto(ds)[i]
  <2>1. i \in 0 .. Len(ds) /\ 0 + i = i
    BY <1>1
  <2>2. Upto(ds)[i] \in Seq(Nat) /\ Upto(cs)[0] = <<>>
    BY Zenon, <2>1, UptoDef
  <2>3. <<>> \o Upto(ds)[i] = Upto(ds)[i]
    BY <2>2, ConcatEmptySeq
  <2>4. Upto(cs)[0 + i] = Upto(cs)[0] \o Upto(ds)[i]
    BY Zenon, <1>2
  <2>5. QED
    BY Zenon, <2>1, <2>2, <2>3, <2>4
<1>4. QED
  BY <1>3

\* Chains without data add no bytes.
LEMMA UptoEmpty ==
    ASSUME NEW cs \in Seq(Chain), NEW m \in 0 .. Len(cs),
           \A i \in 1 .. Len(cs) : i > m => cs[i].data = <<>>
    PROVE  \A i \in 0 .. Len(cs) : i >= m => Upto(cs)[i] = Upto(cs)[m]
<1> DEFINE P == {i \in 0 .. Len(cs) : i >= m => Upto(cs)[i] = Upto(cs)[m]}
<1>1. Len(cs) \in Nat
  BY LenProperties
<1>2. 0 \in P
  BY <1>1
<1>3. ASSUME NEW i \in 1 .. Len(cs), i - 1 \in P
      PROVE  i \in P
  <2>1. Upto(cs)[i] = Upto(cs)[i - 1] \o cs[i].data /\ Upto(cs)[i - 1] \in Seq(Nat)
    <3>1. i - 1 \in 0 .. Len(cs)
      BY <1>1
    <3>2. QED
      BY Zenon, <3>1, UptoDef
  <2>2. CASE i > m
    <3>1. Upto(cs)[i - 1] = Upto(cs)[m] /\ cs[i].data = <<>>
      BY <1>1, <1>3, <2>2
    <3>2. Upto(cs)[i] = Upto(cs)[i - 1]
      BY <2>1, <3>1, ConcatEmptySeq
    <3>3. QED
      BY <1>1, <3>1, <3>2
  <2>3. CASE i <= m
    BY <1>1, <2>3
  <2>4. QED
    BY <1>1, <2>2, <2>3
<1>4. \A i \in 0 .. Len(cs) : i \in P
  <2> DEFINE N == Len(cs)
  <2>1. N \in Nat /\ \A i \in 1 .. N : i - 1 \in P => i \in P
    BY <1>1, <1>3
  <2> HIDE DEF P, N
  <2>2. \A i \in 0 .. N : i \in P
    BY <1>2, <2>1, Induct
  <2>3. QED
    BY <2>2 DEF N
<1>5. QED
  BY <1>4

LEMMA BytesType ==
    ASSUME NEW cs \in Seq(Chain)
    PROVE  Bytes(cs) \in Seq(Nat) /\ Len(Bytes(cs)) \in Nat
<1>1. Len(cs) \in 0 .. Len(cs)
  BY LenProperties
<1>2. Bytes(cs) \in Seq(Nat)
  BY Zenon, <1>1, UptoDef DEF Bytes
<1>3. QED
  BY <1>2, LenProperties

LEMMA BytesOfNone == Bytes(<<>>) = <<>>
<1>1. <<>> \in Seq(Chain) /\ Len(<<>>) = 0
  OBVIOUS
<1>2. QED
  BY <1>1, UptoDef DEF Bytes

LEMMA BytesConcat ==
    ASSUME NEW cs \in Seq(Chain), NEW ds \in Seq(Chain)
    PROVE  Bytes(cs \o ds) = Bytes(cs) \o Bytes(ds)
<1> DEFINE es == cs \o ds
           n1 == Len(cs)
           n2 == Len(ds)
<1>1. /\ es \in Seq(Chain) /\ Len(es) = n1 + n2
      /\ \A i \in 1 .. n1 + n2 : es[i] = IF i <= n1 THEN cs[i] ELSE ds[i - n1]
  BY ConcatProperties
<1>2. n1 \in Nat /\ n2 \in Nat
  BY LenProperties
<1> HIDE DEF es
<1>3. Upto(es)[n1] = Upto(cs)[n1]
  <2>1. n1 <= Len(es) /\ n1 <= Len(cs) /\ \A i \in 1 .. n1 : es[i].data = cs[i].data
    BY <1>1, <1>2
  <2>2. \A i \in 0 .. n1 : Upto(es)[i] = Upto(cs)[i]
    BY Zenon, <1>1, <1>2, <2>1, UptoSame
  <2>3. QED
    BY <1>2, <2>2
<1>4. Upto(es)[n1 + n2] = Upto(es)[n1] \o Upto(ds)[n2]
  <2>1. \A i \in 1 .. n2 : es[n1 + i].data = ds[i].data
    <3>1. \A i \in 1 .. n2 : n1 + i \in 1 .. n1 + n2 /\ ~(n1 + i <= n1) /\ (n1 + i) - n1 = i
      BY <1>2
    <3>2. QED
      BY <1>1, <3>1
  <2>2. n1 + n2 <= Len(es) /\ n2 <= Len(ds) /\ n2 \in 0 .. n2
    BY <1>1, <1>2
  <2>3. \A i \in 0 .. n2 : Upto(es)[n1 + i] = Upto(es)[n1] \o Upto(ds)[i]
    BY Zenon, <1>1, <1>2, <2>1, <2>2, UptoShift
  <2>4. QED
    BY Zenon, <2>2, <2>3
<1>5. QED
  BY <1>1, <1>3, <1>4 DEF Bytes, es

-----------------------------------------------------------------------------
(* What an evbuffer keeps aside, and its streams of bytes.                 *)

\* last_with_datap and the chains, for an evbuffer with or without data.
LastWithData(cs, lwd) ==
    /\ lwd # 1 => lwd <= Len(cs) /\ cs[lwd].data # <<>>
    /\ \A i \in 1 .. Len(cs) : i > lwd => cs[i].data = <<>>

Sound(buf) ==
    /\ buf \in [chains : Seq(Chain), last_with_data : Nat \ {0}, total_len : Nat]
    /\ LastWithData(buf.chains, buf.last_with_data)
    /\ buf.total_len = Len(Bytes(buf.chains))

LEMMA SoundFacts ==
    ASSUME NEW buf, Sound(buf)
    PROVE  /\ buf.chains \in Seq(Chain) /\ Len(buf.chains) \in Nat
           /\ buf.last_with_data \in Nat \ {0}
           /\ buf.last_with_data <= Len(buf.chains) + 1
           /\ buf.total_len = Len(Bytes(buf.chains)) /\ buf.total_len \in Nat
           /\ \A i \in 0 .. Len(buf.chains) :
                 i >= buf.last_with_data => Upto(buf.chains)[i] = Bytes(buf.chains)
<1>1. /\ buf.chains \in Seq(Chain)
      /\ buf.last_with_data \in Nat \ {0} /\ buf.total_len \in Nat
      /\ buf.total_len = Len(Bytes(buf.chains))
  BY DEF Sound
<1>2. Len(buf.chains) \in Nat
  BY <1>1, LenProperties
<1>3. LastWithData(buf.chains, buf.last_with_data)
  BY DEF Sound
<1>4. buf.last_with_data <= Len(buf.chains) + 1
  BY <1>1, <1>2, <1>3 DEF LastWithData
<1>5. ASSUME NEW i \in 0 .. Len(buf.chains), i >= buf.last_with_data
      PROVE  Upto(buf.chains)[i] = Bytes(buf.chains)
  <2> DEFINE m == buf.last_with_data
             cs == buf.chains
  <2>1. m \in 0 .. Len(cs) /\ Len(cs) \in 0 .. Len(cs) /\ Len(cs) >= m
    BY <1>1, <1>2, <1>5
  <2>2. \A j \in 1 .. Len(cs) : j > m => cs[j].data = <<>>
    BY <1>3 DEF LastWithData
  <2> HIDE DEF m
  <2>3. \A j \in 0 .. Len(cs) : j >= m => Upto(cs)[j] = Upto(cs)[m]
    BY <1>1, <2>1, <2>2, UptoEmpty
  <2>4. Upto(cs)[i] = Upto(cs)[m] /\ Upto(cs)[Len(cs)] = Upto(cs)[m]
    BY <1>5, <2>1, <2>3 DEF m
  <2>5. QED
    BY <2>4 DEF Bytes
<1>6. QED
  BY <1>1, <1>2, <1>4, <1>5

\* With data, last_with_datap is at a chain that has some.
LEMMA SoundWithData ==
    ASSUME NEW buf, Sound(buf), buf.total_len > 0
    PROVE  /\ buf.last_with_data \in 1 .. Len(buf.chains)
           /\ buf.chains[buf.last_with_data].data # <<>>
<1> DEFINE cs == buf.chains
           lwd == buf.last_with_data
<1>1. /\ cs \in Seq(Chain) /\ Len(cs) \in Nat /\ lwd \in Nat \ {0}
      /\ buf.total_len = Len(Bytes(cs))
  BY SoundFacts
<1>2. LastWithData(cs, lwd)
  BY DEF Sound
<1> HIDE DEF cs, lwd
<1>3. CASE lwd # 1
  BY <1>1, <1>2, <1>3 DEF LastWithData, cs, lwd
<1>4. CASE lwd = 1 /\ \A i \in 1 .. Len(cs) : i > 0 => cs[i].data = <<>>
  <2>1. 0 \in 0 .. Len(cs) /\ Len(cs) \in 0 .. Len(cs) /\ Len(cs) >= 0
    BY <1>1
  <2>2. Upto(cs)[Len(cs)] = Upto(cs)[0]
    <3>1. \A i \in 0 .. Len(cs) : i >= 0 => Upto(cs)[i] = Upto(cs)[0]
      BY <1>1, <1>4, <2>1, UptoEmpty
    <3>2. QED
      BY <2>1, <3>1
  <2>3. Bytes(cs) = <<>>
    BY <1>1, <2>2, UptoDef DEF Bytes
  <2>4. buf.total_len = 0
    BY <1>1, <2>3
  <2>5. QED
    BY <2>4
<1>5. CASE lwd = 1 /\ \E i \in 1 .. Len(cs) : cs[i].data # <<>>
  <2>1. PICK i \in 1 .. Len(cs) : cs[i].data # <<>>
    BY <1>5
  <2>2. i = 1
    BY <1>1, <1>2, <1>5, <2>1 DEF LastWithData
  <2>3. QED
    BY <1>1, <1>5, <2>1, <2>2 DEF cs, lwd
<1>6. QED
  BY <1>3, <1>4, <1>5

\* How soundness is shown: the chains, last_with_datap and the number of bytes.
LEMMA SoundBy ==
    ASSUME NEW cs \in Seq(Chain), NEW lwd \in Nat \ {0}, NEW total,
           LastWithData(cs, lwd), total = Len(Bytes(cs))
    PROVE  Sound([chains |-> cs, last_with_data |-> lwd, total_len |-> total])
<1>1. total \in Nat
  BY BytesType
<1>2. QED
  BY <1>1 DEF Sound

LEMMA EmptySound == Sound(Empty) /\ Bytes(Empty.chains) = <<>>
<1>1. <<>> \in Seq(Chain) /\ Len(<<>>) = 0 /\ LastWithData(<<>>, 1)
  BY DEF LastWithData
<1>2. 0 = Len(Bytes(<<>>)) /\ 1 \in Nat \ {0}
  BY BytesOfNone
<1>3. Sound([chains |-> <<>>, last_with_data |-> 1, total_len |-> 0])
  BY <1>1, <1>2, SoundBy
<1>4. QED
  BY <1>3, BytesOfNone DEF Empty

-----------------------------------------------------------------------------
(* Parts of sequences of bytes.                                            *)

LEMMA Part ==
    ASSUME NEW s \in Seq(Nat), NEW m \in 0 .. Len(s), NEW n \in m .. Len(s)
    PROVE  /\ SubSeq(s, m + 1, n) \in Seq(Nat)
           /\ Len(SubSeq(s, m + 1, n)) = n - m
           /\ \A i \in 1 .. n - m : SubSeq(s, m + 1, n)[i] = s[m + i]
           /\ SubSeq(s, 1, m) \o SubSeq(s, m + 1, n) = SubSeq(s, 1, n)
<1>1. Len(s) \in Nat
  BY LenProperties
<1>2. \A i \in m + 1 .. n : s[i] \in Nat
  BY <1>1, ElementOfSeq
<1>3. /\ SubSeq(s, m + 1, n) \in Seq(Nat)
      /\ Len(SubSeq(s, m + 1, n)) = IF m + 1 <= n THEN n - (m + 1) + 1 ELSE 0
      /\ \A i \in 1 .. n - (m + 1) + 1 : SubSeq(s, m + 1, n)[i] = s[(m + 1) + i - 1]
  <2> DEFINE m1 == m + 1
  <2>1. m1 \in Int /\ n \in Int
    BY <1>1
  <2>2. \A i \in m1 .. n : s[i] \in Nat
    BY <1>2
  <2> HIDE DEF m1
  <2>3. /\ SubSeq(s, m1, n) \in Seq(Nat)
        /\ Len(SubSeq(s, m1, n)) = IF m1 <= n THEN n - m1 + 1 ELSE 0
        /\ \A i \in 1 .. n - m1 + 1 : SubSeq(s, m1, n)[i] = s[m1 + i - 1]
    BY <2>1, <2>2, SubSeqProperties
  <2>4. QED
    BY <2>3 DEF m1
<1>4. \A i \in 1 .. n - m : SubSeq(s, m + 1, n)[i] = s[m + i]
  <2>1. TAKE i \in 1 .. n - m
  <2>2. i \in 1 .. n - (m + 1) + 1 /\ (m + 1) + i - 1 = m + i
    BY <1>1
  <2>3. SubSeq(s, m + 1, n)[i] = s[(m + 1) + i - 1]
    BY Zenon, <1>3, <2>2
  <2>4. QED
    BY <2>2, <2>3
<1>5. SubSeq(s, 1, m) \o SubSeq(s, m + 1, n) = SubSeq(s, 1, n)
  <2>1. 1 \in 1 .. Len(s) + 1 /\ m \in 1 - 1 .. Len(s)
    BY <1>1
  <2>2. QED
    BY <2>1, ConcatAdjacentSubSeq
<1>6. QED
  BY <1>1, <1>3, <1>4, <1>5

\* What is left of two sequences in a row without their first bytes.
Rest(s, k) == SubSeq(s, k + 1, Len(s))

LEMMA RestOfFirst ==
    ASSUME NEW s \in Seq(Nat), NEW t \in Seq(Nat), NEW k \in 0 .. Len(s)
    PROVE  Rest(s \o t, k) = Rest(s, k) \o t
<1>1. Len(s) \in Nat /\ Len(t) \in Nat
  BY LenProperties
<1>2. /\ s \o t \in Seq(Nat) /\ Len(s \o t) = Len(s) + Len(t)
      /\ \A i \in 1 .. Len(s) + Len(t) :
            (s \o t)[i] = IF i <= Len(s) THEN s[i] ELSE t[i - Len(s)]
  BY ConcatProperties
<1> DEFINE u == s \o t
           a == Rest(u, k)
           b == Rest(s, k)
<1>3. k \in 0 .. Len(u) /\ Len(u) \in k .. Len(u) /\ Len(s) \in k .. Len(s)
  BY <1>1, <1>2
<1>4. /\ a \in Seq(Nat) /\ Len(a) = Len(u) - k
      /\ \A i \in 1 .. Len(u) - k : a[i] = u[k + i]
  BY <1>2, <1>3, Part DEF Rest
<1>5. /\ b \in Seq(Nat) /\ Len(b) = Len(s) - k
      /\ \A i \in 1 .. Len(s) - k : b[i] = s[k + i]
  BY <1>3, Part DEF Rest
<1> HIDE DEF a, b, u
<1>6. /\ b \o t \in Seq(Nat) /\ Len(b \o t) = Len(b) + Len(t)
      /\ \A i \in 1 .. Len(b) + Len(t) : (b \o t)[i] = IF i <= Len(b) THEN b[i] ELSE t[i - Len(b)]
  BY <1>5, ConcatProperties
<1>7. Len(a) = Len(b \o t)
  BY <1>1, <1>2, <1>4, <1>5, <1>6 DEF u
<1>8. ASSUME NEW i \in 1 .. Len(a)
      PROVE  a[i] = (b \o t)[i]
  <2>1. /\ i \in 1 .. Len(u) - k /\ k + i \in 1 .. Len(s) + Len(t)
        /\ i \in 1 .. Len(b) + Len(t)
    BY <1>1, <1>2, <1>4, <1>5 DEF u
  <2>2. a[i] = IF k + i <= Len(s) THEN s[k + i] ELSE t[(k + i) - Len(s)]
    BY <1>2, <1>4, <2>1 DEF u
  <2>3. (b \o t)[i] = IF i <= Len(b) THEN b[i] ELSE t[i - Len(b)]
    BY Zenon, <1>6, <2>1
  <2>4. (k + i) - Len(s) = i - Len(b) /\ (k + i <= Len(s) <=> i <= Len(b))
    BY <1>1, <1>5
  <2>5. i <= Len(b) => b[i] = s[k + i]
    BY <1>1, <1>5
  <2>6. QED
    BY <2>2, <2>3, <2>4, <2>5
<1>9. a = b \o t
  BY <1>4, <1>6, <1>7, <1>8, SeqEqual
<1>10. QED
  BY <1>9 DEF a, b, u

LEMMA RestOfSecond ==
    ASSUME NEW s \in Seq(Nat), NEW t \in Seq(Nat), NEW k \in Nat,
           k >= Len(s), k <= Len(s) + Len(t)
    PROVE  Rest(s \o t, k) = Rest(t, k - Len(s))
<1>1. Len(s) \in Nat /\ Len(t) \in Nat
  BY LenProperties
<1>2. /\ s \o t \in Seq(Nat) /\ Len(s \o t) = Len(s) + Len(t)
      /\ \A i \in 1 .. Len(s) + Len(t) :
            (s \o t)[i] = IF i <= Len(s) THEN s[i] ELSE t[i - Len(s)]
  BY ConcatProperties
<1> DEFINE u == s \o t
           d == k - Len(s)
           a == Rest(u, k)
           b == Rest(t, d)
<1>3. /\ k \in 0 .. Len(u) /\ Len(u) \in k .. Len(u)
      /\ d \in 0 .. Len(t) /\ Len(t) \in d .. Len(t)
  BY <1>1, <1>2
<1>4. /\ a \in Seq(Nat) /\ Len(a) = Len(u) - k
      /\ \A i \in 1 .. Len(u) - k : a[i] = u[k + i]
  BY <1>2, <1>3, Part DEF Rest
<1>5. /\ b \in Seq(Nat) /\ Len(b) = Len(t) - d
      /\ \A i \in 1 .. Len(t) - d : b[i] = t[d + i]
  <2> HIDE DEF d
  <2>1. QED
    BY <1>3, Part DEF Rest
<1> HIDE DEF a, b, u
<1>6. Len(a) = Len(b)
  BY <1>1, <1>2, <1>4, <1>5 DEF u
<1>7. ASSUME NEW i \in 1 .. Len(a)
      PROVE  a[i] = b[i]
  <2>1. /\ i \in 1 .. Len(u) - k /\ k + i \in 1 .. Len(s) + Len(t)
        /\ i \in 1 .. Len(t) - d /\ ~(k + i <= Len(s)) /\ (k + i) - Len(s) = d + i
    BY <1>1, <1>2, <1>4, <1>5 DEF u
  <2>2. QED
    BY <1>2, <1>4, <1>5, <2>1 DEF u
<1>8. a = b
  BY <1>4, <1>5, <1>6, <1>7, SeqEqual
<1>9. QED
  BY <1>8 DEF a, b, u, d

-----------------------------------------------------------------------------
(* A read puts its bytes behind the others.                                *)

LEMMA ChainFilled ==
    ASSUME NEW c \in Chain, NEW p \in Seq(Nat), Len(p) <= CHAIN_SPACE_LEN(c)
    PROVE  /\ [c EXCEPT !.data = @ \o p] \in Chain
           /\ [c EXCEPT !.data = @ \o p].data = c.data \o p
<1>1. /\ c \in [buffer_len : Nat, misalign : Nat, data : Seq(Nat)]
      /\ c.data = <<>> => CHAIN_SPACE_LEN(c) > 0
  BY DEF Chain
<1>2. PICK d \in Seq(Nat) : d = c.data
  BY <1>1
<1>3. /\ d \o p \in Seq(Nat) /\ Len(d \o p) = Len(d) + Len(p)
      /\ Len(d) \in Nat /\ Len(p) \in Nat
      /\ d \o p = <<>> => d = <<>> /\ p = <<>>
  BY ConcatProperties, LenProperties, ConcatEqualIffEmpty
<1> DEFINE e == [c EXCEPT !.data = @ \o p]
<1>4. /\ e = [c EXCEPT !.data = d \o p]
      /\ e.buffer_len = c.buffer_len /\ e.misalign = c.misalign /\ e.data = d \o p
      /\ e \in [buffer_len : Nat, misalign : Nat, data : Seq(Nat)]
  BY <1>1, <1>2, <1>3
<1> HIDE DEF e
<1>5. PICK l \in Nat, m \in Nat : l = c.buffer_len /\ m = c.misalign
  BY <1>1
<1>6. CHAIN_SPACE_LEN(e) = l - (m + Len(d \o p)) /\ CHAIN_SPACE_LEN(c) = l - (m + Len(d))
  BY <1>2, <1>4, <1>5 DEF CHAIN_SPACE_LEN
<1>7. CHAIN_SPACE_LEN(e) >= 0
  BY <1>3, <1>5, <1>6, SMTT(40)
<1>8. e.data = <<>> => CHAIN_SPACE_LEN(e) > 0
  <2>1. SUFFICES ASSUME d \o p = <<>>
                 PROVE  CHAIN_SPACE_LEN(e) > 0
    BY <1>4
  <2>2. d = <<>> /\ p = <<>> /\ Len(d \o p) = 0 /\ Len(d) = 0
    BY <1>3, <2>1
  <2>3. CHAIN_SPACE_LEN(c) > 0
    BY <1>1, <1>2, <2>2
  <2>4. QED
    BY <1>6, <2>2, <2>3
<1>9. QED
  BY <1>2, <1>4, <1>7, <1>8 DEF Chain, e

\* How many of k bytes are in the first i chains, when they are put where there
\* is room.
Taken(buf, k, i) == Least({k, Room(buf)[i]})

LEMMA TakenFacts ==
    ASSUME NEW buf, Sound(buf), NEW k \in Nat
    PROVE  /\ \A i \in 0 .. Len(buf.chains) :
                 /\ Taken(buf, k, i) \in 0 .. k
                 /\ i < buf.last_with_data => Taken(buf, k, i) = 0
                 /\ Taken(buf, k, i) = IF k <= Room(buf)[i] THEN k ELSE Room(buf)[i]
           /\ \A i \in 1 .. Len(buf.chains) :
                 /\ Taken(buf, k, i - 1) <= Taken(buf, k, i)
                 /\ Taken(buf, k, i) - Taken(buf, k, i - 1) <= CHAIN_SPACE_LEN(buf.chains[i])
<1> DEFINE N == Len(buf.chains)
           R == Room(buf)
           lwd == buf.last_with_data
           space(i) == CHAIN_SPACE_LEN(buf.chains[i])
           t(i) == Taken(buf, k, i)
<1>1. N \in Nat /\ lwd \in Nat \ {0}
  BY SoundFacts
<1>2. \A i \in 0 .. N : /\ R[i] \in Nat
                        /\ i < lwd => R[i] = 0
                        /\ i >= lwd => R[i] = R[i - 1] + space(i)
  BY SoundFacts, RoomDef
<1>3. \A i \in 1 .. N : space(i) \in Nat
  BY SoundFacts, ChainAt
<1>4. ASSUME NEW i \in 0 .. N
      PROVE  t(i) = IF k <= R[i] THEN k ELSE R[i]
  <2>1. R[i] \in Nat
    BY <1>2
  <2> HIDE DEF R
  <2>2. QED
    BY <2>1, LeastOfTwo DEF Taken, R
<1> HIDE DEF N, R, lwd, space, t
<1>5. \A i \in 0 .. N : t(i) \in 0 .. k /\ (i < lwd => t(i) = 0)
  BY <1>1, <1>2, <1>4
<1>6. ASSUME NEW i \in 1 .. N
      PROVE  t(i - 1) <= t(i) /\ t(i) - t(i - 1) <= space(i)
  <2>1. i \in 0 .. N /\ i - 1 \in 0 .. N
    BY <1>1
  <2>2. /\ t(i) = IF k <= R[i] THEN k ELSE R[i]
        /\ t(i - 1) = IF k <= R[i - 1] THEN k ELSE R[i - 1]
        /\ R[i] \in Nat /\ R[i - 1] \in Nat /\ space(i) \in Nat
    BY <1>2, <1>3, <1>4, <2>1
  <2>3. CASE i < lwd
    <3>1. i - 1 < lwd
      BY <1>1, <2>3
    <3>2. t(i) = 0 /\ t(i - 1) = 0
      BY <1>5, <2>1, <2>3, <3>1
    <3>3. QED
      BY <2>2, <3>2
  <2>4. CASE i >= lwd
    <3>1. R[i] = R[i - 1] + space(i)
      BY <1>2, <2>1, <2>4
    <3>2. QED
      BY <2>2, <3>1
  <2>5. QED
    BY <1>1, <2>3, <2>4
<1>7. QED
  BY <1>4, <1>5, <1>6 DEF N, R, lwd, space, t

\* The part of the bytes that goes into the i-th chain.
Share(buf, bytes, i) ==
    SubSeq(bytes, Taken(buf, Len(bytes), i - 1) + 1, Taken(buf, Len(bytes), i))

FilledChains(buf, bytes) ==
    [i \in DOMAIN buf.chains |->
        IF i \in buf.last_with_data .. Len(buf.chains)
        THEN [buf.chains[i] EXCEPT !.data = @ \o Share(buf, bytes, i)]
        ELSE buf.chains[i]]

\* The first chains hold the bytes that they held and the first ones of the new.
LEMMA FilledUpto ==
    ASSUME NEW buf, Sound(buf), NEW bytes \in Seq(Nat)
    PROVE  LET ds == FilledChains(buf, bytes)
           IN  /\ ds \in Seq(Chain) /\ Len(ds) = Len(buf.chains)
               /\ \A i \in 1 .. Len(buf.chains) :
                     ds[i].data = buf.chains[i].data \o Share(buf, bytes, i)
               /\ \A i \in 0 .. Len(buf.chains) :
                     Upto(ds)[i] = Upto(buf.chains)[i]
                                     \o SubSeq(bytes, 1, Taken(buf, Len(bytes), i))
<1> DEFINE cs == buf.chains
           N == Len(cs)
           lwd == buf.last_with_data
           k == Len(bytes)
           t(i) == Taken(buf, k, i)
           part(i) == Share(buf, bytes, i)
           ds == FilledChains(buf, bytes)
<1>1. /\ cs \in Seq(Chain) /\ N \in Nat /\ lwd \in Nat \ {0} /\ k \in Nat
      /\ DOMAIN cs = 1 .. N
  BY SoundFacts, LenProperties
<1>2. /\ \A i \in 0 .. N : t(i) \in 0 .. k /\ (i < lwd => t(i) = 0)
      /\ \A i \in 1 .. N : /\ t(i - 1) <= t(i)
                           /\ t(i) - t(i - 1) <= CHAIN_SPACE_LEN(cs[i])
  <2> HIDE DEF k
  <2>1. QED
    BY <1>1, TakenFacts
<1> HIDE DEF t
<1>3. ASSUME NEW i \in 1 .. N
      PROVE  /\ part(i) \in Seq(Nat) /\ Len(part(i)) = t(i) - t(i - 1)
             /\ SubSeq(bytes, 1, t(i - 1)) \o part(i) = SubSeq(bytes, 1, t(i))
             /\ i < lwd => part(i) = <<>>
  <2>1. /\ i \in 0 .. N /\ i - 1 \in 0 .. N
    BY <1>1
  <2>2. t(i - 1) \in 0 .. k /\ t(i) \in t(i - 1) .. k
    <3> HIDE DEF k, N
    <3>1. t(i - 1) \in 0 .. k /\ t(i) \in 0 .. k /\ t(i - 1) <= t(i)
      BY <1>2, <2>1
    <3>2. t(i) \in t(i - 1) .. k
      <4>1. \A a, b \in 0 .. k : a <= b => b \in a .. k
        BY <1>1
      <4>2. QED
        BY <3>1, <4>1
    <3>3. QED
      BY <3>1, <3>2
  <2>3. part(i) = SubSeq(bytes, t(i - 1) + 1, t(i))
    BY DEF Share, t
  <2>4. i < lwd => t(i - 1) = 0 /\ t(i) = 0
    <3> HIDE DEF k, N, lwd
    <3>1. i < lwd => i - 1 < lwd
      BY <1>1, <2>1
    <3>2. QED
      BY <1>2, <2>1, <3>1
  <2> HIDE DEF part
  <2>5. /\ part(i) \in Seq(Nat) /\ Len(part(i)) = t(i) - t(i - 1)
        /\ SubSeq(bytes, 1, t(i - 1)) \o part(i) = SubSeq(bytes, 1, t(i))
    <3> DEFINE a == t(i - 1)
               b == t(i)
    <3> HIDE DEF a, b
    <3>1. a \in 0 .. Len(bytes) /\ b \in a .. Len(bytes)
      BY <2>2 DEF a, b
    <3>2. /\ SubSeq(bytes, a + 1, b) \in Seq(Nat)
          /\ Len(SubSeq(bytes, a + 1, b)) = b - a
          /\ SubSeq(bytes, 1, a) \o SubSeq(bytes, a + 1, b) = SubSeq(bytes, 1, b)
      BY <3>1, Part
    <3>3. QED
      BY Zenon, <2>3, <3>2 DEF a, b
  <2>6. ASSUME i < lwd
        PROVE  part(i) = <<>>
    <3>1. Len(part(i)) = 0
      BY <2>4, <2>5, <2>6
    <3>2. QED
      BY <2>5, <3>1, EmptySeq
  <2>7. QED
    BY <2>5, <2>6
<1>4. ds = [i \in 1 .. N |-> IF i \in lwd .. N
                              THEN [cs[i] EXCEPT !.data = @ \o part(i)]
                              ELSE cs[i]]
  BY <1>1 DEF FilledChains
<1> HIDE DEF part, ds, lwd, cs, k
<1>5. ASSUME NEW i \in 1 .. N
      PROVE  ds[i] \in Chain /\ ds[i].data = cs[i].data \o part(i)
  <2>1. /\ cs[i] \in Chain /\ cs[i].data \in Seq(Nat)
    BY <1>1, ChainAt
  <2>2. CASE i \in lwd .. N
    <3>1. ds[i] = [cs[i] EXCEPT !.data = @ \o part(i)]
      BY <1>4, <2>2
    <3>2. part(i) \in Seq(Nat) /\ Len(part(i)) <= CHAIN_SPACE_LEN(cs[i])
      BY <1>2, <1>3
    <3>3. QED
      BY <2>1, <3>1, <3>2, ChainFilled
  <2>3. CASE i \notin lwd .. N
    <3>1. ds[i] = cs[i] /\ part(i) = <<>>
      BY <1>1, <1>3, <1>4, <2>3
    <3>2. cs[i].data \o <<>> = cs[i].data
      BY <2>1, ConcatEmptySeq
    <3>3. QED
      BY <2>1, <3>1, <3>2
  <2>4. QED
    BY <2>2, <2>3
<1>6. ds \in Seq(Chain) /\ Len(ds) = N
  <2>1. ds \in [1 .. N -> Chain]
    <3>1. ds = [i \in 1 .. N |-> ds[i]]
      BY <1>4
    <3>2. QED
      BY <1>5, <3>1
  <2>2. QED
    BY <1>1, <2>1
<1> DEFINE P == {i \in 0 .. N : Upto(ds)[i] = Upto(cs)[i] \o SubSeq(bytes, 1, t(i))}
<1>7. 0 \in P
  <2>1. t(0) = 0
    BY <1>1, <1>2
  <2>2. SubSeq(bytes, 1, 0) = <<>>
    BY SubSeqEmpty
  <2>3. Upto(ds)[0] = <<>> /\ Upto(cs)[0] = <<>>
    BY <1>1, <1>6, UptoDef
  <2>4. <<>> \o <<>> = <<>>
    OBVIOUS
  <2>5. Upto(ds)[0] = Upto(cs)[0] \o SubSeq(bytes, 1, t(0))
    BY Zenon, <2>1, <2>2, <2>3, <2>4
  <2>6. 0 \in 0 .. N
    BY <1>1
  <2>7. QED
    BY Zenon, <2>5, <2>6
<1>8. ASSUME NEW i \in 1 .. N, i - 1 \in P
      PROVE  i \in P
  <2> DEFINE u == Upto(cs)[i - 1]
             a == SubSeq(bytes, 1, t(i - 1))
             d == cs[i].data
             p == part(i)
  <2>1. i \in 0 .. N /\ i - 1 \in 0 .. N
    BY <1>1
  <2>2. Upto(ds)[i - 1] = u \o a
    BY Zenon, <1>8
  <2>3. Upto(ds)[i] = Upto(ds)[i - 1] \o ds[i].data
    BY Zenon, <1>6, UptoDef
  <2>4. ds[i].data = d \o p
    BY Zenon, <1>5
  <2>5. Upto(cs)[i] = u \o d
    BY Zenon, <1>1, UptoDef
  <2>6. u \in Seq(Nat) /\ d \in Seq(Nat) /\ p \in Seq(Nat)
    BY Zenon, <1>1, <1>3, <2>1, UptoDef, ChainAt
  <2>7. a \in Seq(Nat) /\ a \o p = SubSeq(bytes, 1, t(i))
    <3>1. 0 \in 0 .. Len(bytes) /\ t(i - 1) \in 0 .. Len(bytes) /\ 0 + 1 = 1
      BY <1>1, <1>2, <2>1 DEF k
    <3>2. SubSeq(bytes, 0 + 1, t(i - 1)) \in Seq(Nat)
      BY <3>1, Part
    <3>3. QED
      BY Zenon, <1>3, <3>1, <3>2
  <2>8. a = <<>> \/ d = <<>>
    <3>1. CASE i <= lwd
      <4>1. t(i - 1) = 0
        BY <1>1, <1>2, <2>1, <3>1
      <4>2. a = <<>>
        BY <4>1, SubSeqEmpty
      <4>3. QED
        BY <4>2
    <3>2. CASE i > lwd
      BY <3>2 DEF Sound, LastWithData, lwd, cs
    <3>3. QED
      BY <1>1, <3>1, <3>2
  <2> HIDE DEF u, a, d, p
  <2>9. (u \o a) \o (d \o p) = (u \o d) \o (a \o p)
    <3>1. CASE a = <<>>
      <4>1. u \o a = u /\ a \o p = p
        BY <2>6, <3>1, ConcatEmptySeq
      <4>2. (u \o d) \o p = u \o (d \o p)
        BY Zenon, <2>6, Joining
      <4>3. QED
        BY Zenon, <4>1, <4>2
    <3>2. CASE d = <<>>
      <4>1. u \o d = u /\ d \o p = p
        BY <2>6, <3>2, ConcatEmptySeq
      <4>2. (u \o a) \o p = u \o (a \o p)
        BY ZenonT(40), <2>6, <2>7, Joining
      <4>3. QED
        BY Zenon, <4>1, <4>2
    <3>3. QED
      BY <2>8, <3>1, <3>2
  <2>10. Upto(ds)[i] = Upto(cs)[i] \o SubSeq(bytes, 1, t(i))
    BY Zenon, <2>2, <2>3, <2>4, <2>5, <2>7, <2>9
  <2>11. QED
    BY Zenon, <2>1, <2>10
<1>9. \A i \in 0 .. N : i \in P
  <2> HIDE DEF P, N
  <2>1. QED
    BY <1>1, <1>7, <1>8, Induct
<1>10. QED
  BY <1>5, <1>6, <1>9 DEF t, part, ds, cs, k

\* There is room for the bytes: they come behind the others, and
\* last_with_datap is at the chain with the last of them.
LEMMA FilledSound ==
    ASSUME NEW buf, Sound(buf), NEW bytes \in Seq(Nat), Len(bytes) > 0,
           Len(bytes) <= Room(buf)[Len(buf.chains)]
    PROVE  LET filled == Filled(buf, bytes)
           IN  /\ Sound(filled)
               /\ Bytes(filled.chains) = Bytes(buf.chains) \o bytes
               /\ Len(filled.chains) = Len(buf.chains)
               /\ filled.last_with_data >= buf.last_with_data
<1> DEFINE cs == buf.chains
           N == Len(cs)
           R == Room(buf)
           lwd == buf.last_with_data
           k == Len(bytes)
           t(i) == Taken(buf, k, i)
           ds == FilledChains(buf, bytes)
           reached == {i \in lwd .. N : R[i] >= k}
           last == Least(reached)
           total == buf.total_len + k
<1>1. /\ cs \in Seq(Chain) /\ N \in Nat /\ lwd \in Nat \ {0} /\ k \in Nat
      /\ lwd <= N + 1
      /\ buf.total_len = Len(Bytes(cs))
      /\ \A i \in 0 .. N : i >= lwd => Upto(cs)[i] = Bytes(cs)
  BY SoundFacts, LenProperties
<1>0. /\ N \in Nat /\ N \in 0 .. N /\ k \in Nat /\ k > 0 /\ lwd \in Nat \ {0}
      /\ R[N] >= k
  BY <1>1
<1>2. Filled(buf, bytes) = [chains |-> ds, last_with_data |-> last, total_len |-> total]
  BY DEF Filled, FilledChains, Share, Taken
<1>3. /\ ds \in Seq(Chain) /\ Len(ds) = N
      /\ \A i \in 1 .. N : ds[i].data = cs[i].data \o Share(buf, bytes, i)
      /\ \A i \in 0 .. N : Upto(ds)[i] = Upto(cs)[i] \o SubSeq(bytes, 1, t(i))
  BY FilledUpto
<1>4. /\ \A i \in 0 .. N : /\ R[i] \in Nat
                           /\ i < lwd => R[i] = 0
      /\ \A i, j \in 0 .. N : i <= j => R[i] <= R[j]
  BY <1>1, RoomDef
<1>5. \A i \in 0 .. N : /\ t(i) \in 0 .. k
                        /\ k <= R[i] => t(i) = k
                        /\ ~(k <= R[i]) => t(i) = R[i]
  <2> HIDE DEF k, t
  <2>1. \A i \in 0 .. N : Taken(buf, k, i) \in 0 .. k
                          /\ Taken(buf, k, i) = IF k <= R[i] THEN k ELSE R[i]
    BY <1>1, TakenFacts
  <2>2. QED
    BY <2>1 DEF t
<1>6. N \in reached
  <2>1. N >= lwd
    <3>1. N \in 0 .. N /\ R[N] >= k /\ k > 0
      BY <1>1
    <3>2. R[N] # 0 /\ R[N] \in Nat
      BY <1>1, <1>4, <3>1
    <3>3. QED
      BY <1>1, <1>4, <3>1, <3>2
  <2>2. QED
    BY <1>1, <2>1
<1>7. last \in reached /\ \A i \in reached : last <= i
  <2>1. reached \subseteq Nat /\ reached # {}
    BY <1>1, <1>6
  <2> HIDE DEF reached
  <2>2. QED
    BY <2>1, LeastNumber
<1> HIDE DEF ds, last, t, R, k
<1>8. /\ last \in 1 .. N /\ last >= lwd /\ last - 1 \in 0 .. N
      /\ R[last] >= k /\ R[last - 1] < k
  <2>1. last \in lwd .. N /\ R[last] >= k
    BY <1>7
  <2>2. last \in 1 .. N /\ last >= lwd /\ last - 1 \in 0 .. N
    BY <1>1, <2>1
  <2>3. R[last - 1] < k
    <3>1. CASE last = lwd
      <4>1. last - 1 < lwd
        BY <1>0, <3>1
      <4>2. R[last - 1] = 0
        BY <1>4, <2>2, <4>1
      <4>3. QED
        BY <1>0, <4>2
    <3>2. CASE last # lwd
      <4>1. last - 1 \in lwd .. N /\ ~(last <= last - 1)
        BY <1>1, <2>2, <3>2
      <4>2. ~(R[last - 1] >= k)
        BY <1>7, <4>1
      <4>3. QED
        BY <1>1, <1>4, <2>2, <4>2, SMTT(40)
    <3>3. QED
      BY <3>1, <3>2
  <2>4. QED
    BY <2>1, <2>2, <2>3
<1> HIDE DEF reached
<1>9. Bytes(ds) = Bytes(cs) \o bytes
  <2>1. N \in 0 .. N /\ t(N) = k
    BY <1>0, <1>5
  <2>2. SubSeq(bytes, 1, k) = bytes
    BY SubSeqFull DEF k
  <2>3. Upto(ds)[N] = Upto(cs)[N] \o SubSeq(bytes, 1, t(N))
    BY Zenon, <1>3, <2>1
  <2>4. Upto(ds)[N] = Upto(cs)[N] \o bytes
    BY Zenon, <2>1, <2>2, <2>3
  <2>5. QED
    BY <1>3, <2>4 DEF Bytes
<1>10. total = Len(Bytes(ds))
  <2>1. Bytes(cs) \in Seq(Nat)
    BY <1>1, BytesType
  <2>2. Len(Bytes(cs) \o bytes) = Len(Bytes(cs)) + k
    BY <2>1, ConcatProperties DEF k
  <2>3. QED
    BY <1>1, <1>9, <2>2
<1>11. ASSUME NEW i \in 1 .. N
       PROVE  /\ t(i - 1) \in 0 .. k /\ t(i) \in 0 .. k
              /\ t(i - 1) <= t(i) => Len(Share(buf, bytes, i)) = t(i) - t(i - 1)
              /\ Share(buf, bytes, i) \in Seq(Nat)
  <2>1. i - 1 \in 0 .. N /\ i \in 0 .. N
    BY <1>1
  <2>2. t(i - 1) \in 0 .. k /\ t(i) \in 0 .. k
    BY <1>5, <2>1
  <2>3. t(i - 1) <= t(i)
    <3>1. R[i - 1] \in Nat /\ R[i] \in Nat /\ R[i - 1] <= R[i]
      BY <1>1, <1>4, <2>1
    <3>2. CASE k <= R[i]
      BY <1>0, <1>5, <2>1, <2>2, <3>2
    <3>3. CASE ~(k <= R[i])
      <4>1. ~(k <= R[i - 1])
        BY <1>0, <3>1, <3>3
      <4>2. t(i - 1) = R[i - 1] /\ t(i) = R[i]
        BY <1>5, <2>1, <3>3, <4>1
      <4>3. QED
        BY <3>1, <4>2
    <3>4. QED
      BY <3>2, <3>3
  <2>4. t(i - 1) \in 0 .. Len(bytes) /\ t(i) \in t(i - 1) .. Len(bytes)
    BY <1>0, <2>2, <2>3 DEF k
  <2>5. Share(buf, bytes, i) = SubSeq(bytes, t(i - 1) + 1, t(i))
    BY DEF Share, t, k
  <2>6. QED
    BY <2>2, <2>4, <2>5, Part
<1>12. ds[last].data # <<>>
  <2>1. t(last) = k /\ t(last - 1) < k
    <3>1. last \in 0 .. N /\ last - 1 \in 0 .. N /\ R[last - 1] \in Nat /\ R[last] \in Nat
      BY <1>0, <1>4, <1>8
    <3>2. k <= R[last] /\ ~(k <= R[last - 1])
      BY <1>0, <1>8, <3>1
    <3>3. t(last) = k /\ t(last - 1) = R[last - 1]
      BY <1>5, <3>1, <3>2
    <3>4. QED
      BY <1>8, <3>3
  <2>2. Share(buf, bytes, last) \in Seq(Nat) /\ Len(Share(buf, bytes, last)) > 0
    <3>1. /\ t(last - 1) \in 0 .. k /\ t(last) \in 0 .. k
          /\ t(last - 1) <= t(last) => Len(Share(buf, bytes, last)) = t(last) - t(last - 1)
          /\ Share(buf, bytes, last) \in Seq(Nat)
      BY <1>8, <1>11
    <3>2. QED
      BY <1>1, <2>1, <3>1
  <2>3. Share(buf, bytes, last) # <<>>
    BY <2>2
  <2>4. cs[last].data \in Seq(Nat)
    BY <1>1, <1>8, ChainAt
  <2>5. ds[last].data = cs[last].data \o Share(buf, bytes, last)
    BY <1>3, <1>8
  <2> DEFINE s == Share(buf, bytes, last)
  <2> HIDE DEF s
  <2>6. s \in Seq(Nat) /\ s # <<>> => cs[last].data \o s # <<>>
    BY <2>4, ConcatEqualIffEmpty
  <2>7. QED
    BY <2>2, <2>3, <2>5, <2>6 DEF s
<1>13. ASSUME NEW i \in 1 .. N, i > last
       PROVE  ds[i].data = <<>>
  <2>1. cs[i].data = <<>>
    <3>1. i > lwd
      BY <1>1, <1>8, <1>13
    <3>2. QED
      BY <3>1 DEF Sound, LastWithData
  <2>2. t(i - 1) = k /\ t(i) = k
    <3>1. i \in 0 .. N /\ i - 1 \in 0 .. N /\ last \in 0 .. N /\ last <= i - 1 /\ last <= i
      BY <1>1, <1>8, <1>13
    <3>2. /\ R[last] <= R[i - 1] /\ R[last] <= R[i]
          /\ R[last] \in Nat /\ R[i - 1] \in Nat /\ R[i] \in Nat
      BY <1>4, <3>1
    <3>3. k <= R[i - 1] /\ k <= R[i]
      BY <1>0, <1>8, <3>2
    <3>4. QED
      BY <1>5, <3>1, <3>3
  <2>3. Share(buf, bytes, i) \in Seq(Nat) /\ Len(Share(buf, bytes, i)) = 0
    BY <1>1, <1>11, <2>2
  <2>4. Share(buf, bytes, i) = <<>>
    BY <2>3
  <2>5. QED
    BY <1>3, <2>1, <2>4
<1>14. Sound([chains |-> ds, last_with_data |-> last, total_len |-> total])
  <2>1. LastWithData(ds, last)
    BY <1>3, <1>8, <1>12, <1>13 DEF LastWithData
  <2>2. last \in Nat \ {0}
    BY <1>1, <1>8
  <2> HIDE DEF total
  <2>3. QED
    BY <1>3, <1>10, <2>1, <2>2, SoundBy
<1>15. QED
  BY <1>2, <1>3, <1>8, <1>9, <1>14

-----------------------------------------------------------------------------
(* Making room leaves the bytes as they are.                               *)

\* An allocation is as large as it is asked to be, and not empty.
LEMMA BufferLenEnough ==
    ASSUME NEW size \in Nat
    PROVE  BufferLen(size) \in Nat /\ BufferLen(size) >= size /\ BufferLen(size) > 0
<1> DEFINE min == MIN_BUFFER_SIZE
           step == [a \in (1 .. size) \X Nat |-> 2 * a[2]]
           Again(f) == [i \in 0 .. size |-> IF i = 0 THEN min ELSE 2 * f[i - 1]]
           F == CHOOSE f : f = Again(f)
           fits == {i \in 0 .. size : F[i] >= size + ChainSize}
<1>1. /\ min \in Nat /\ ChainSize \in Nat /\ ChainSize > 0 /\ min > ChainSize
  BY EvBufferAssumption
<1>2. BufferLen(size) = F[Least(fits)] - ChainSize
  BY Zenon DEF BufferLen
<1> HIDE DEF min
<1>3. step \in [(1 .. size) \X Nat -> Nat]
  OBVIOUS
<1>4. PICK g \in [0 .. size -> Nat] : Iterates(g, size, min, step)
  <2> HIDE DEF step
  <2>1. QED
    BY <1>1, <1>3, Iterated
<1>5. g = Again(g)
  <2>1. g[0] = min
    BY <1>4 DEF Iterates
  <2>2. ASSUME NEW i \in 1 .. size
        PROVE  g[i] = 2 * g[i - 1]
    <3>1. i - 1 \in 0 .. size /\ g[i - 1] \in Nat
      OBVIOUS
    <3>2. g[i] = step[<<i, g[i - 1]>>]
      <4> HIDE DEF step
      <4>1. QED
        BY <1>4 DEF Iterates
    <3>3. <<i, g[i - 1]>> \in (1 .. size) \X Nat
      BY <3>1
    <3>4. QED
      BY <3>2, <3>3
  <2>3. QED
    BY <2>1, <2>2
<1>6. F = Again(F)
  <2> HIDE DEF Again
  <2>1. QED
    BY <1>5
<1> HIDE DEF F
<1>7. F[0] = min /\ \A i \in 1 .. size : F[i] = 2 * F[i - 1]
  BY <1>6
\* Doubled i times it has grown by i at least.
<1> DEFINE P == {i \in 0 .. size : F[i] \in Nat /\ F[i] >= min + i}
<1>8. 0 \in P
  BY <1>1, <1>7
<1>9. ASSUME NEW i \in 1 .. size, i - 1 \in P
      PROVE  i \in P
  <2>1. F[i - 1] \in Nat /\ F[i - 1] >= min + (i - 1) /\ F[i] = 2 * F[i - 1]
    BY <1>7, <1>9
  <2>2. F[i] \in Nat /\ F[i] >= min + i
    BY <1>1, <2>1
  <2>3. QED
    BY <2>2
<1>10. \A i \in 0 .. size : i \in P
  <2> HIDE DEF P
  <2>1. QED
    BY <1>8, <1>9, Induct
<1>11. Least(fits) \in fits
  <2>1. fits \subseteq Nat
    OBVIOUS
  <2>2. F[size] \in Nat /\ F[size] >= min + size
    BY <1>10
  <2>3. size \in fits
    BY <1>1, <2>2
  <2> HIDE DEF fits
  <2>4. QED
    BY <2>1, <2>3, LeastNumber
<1>12. PICK i \in 0 .. size : i = Least(fits) /\ F[i] >= size + ChainSize
  <2> DEFINE l == Least(fits)
  <2>1. l \in fits
    BY <1>11
  <2> HIDE DEF l
  <2>2. l \in 0 .. size /\ F[l] >= size + ChainSize
    BY <2>1
  <2>3. QED
    BY <2>2 DEF l
<1>13. F[i] \in Nat /\ F[i] >= min + i
  BY <1>10
<1>14. BufferLen(size) = F[i] - ChainSize
  BY Zenon, <1>2, <1>12
<1>15. QED
  BY <1>1, <1>12, <1>13, <1>14

LEMMA NewChain ==
    ASSUME NEW size \in Nat
    PROVE  LET chain == evbuffer_chain_new(size)
           IN  /\ chain \in Chain /\ chain.data = <<>>
               /\ CHAIN_SPACE_LEN(chain) \in Nat /\ CHAIN_SPACE_LEN(chain) >= size
<1> DEFINE chain == evbuffer_chain_new(size)
<1>1. PICK b \in Nat : b = BufferLen(size) /\ b >= size /\ b > 0
  BY BufferLenEnough
<1>2. chain = [buffer_len |-> b, misalign |-> 0, data |-> <<>>]
  BY <1>1 DEF evbuffer_chain_new
<1>3. chain \in [buffer_len : Nat, misalign : Nat, data : Seq(Nat)]
  BY <1>2
<1>4. CHAIN_SPACE_LEN(chain) = b
  BY <1>2 DEF CHAIN_SPACE_LEN
<1>5. QED
  BY <1>1, <1>2, <1>3, <1>4 DEF Chain

\* A new chain at the end holds no bytes and adds its space to the room.
LEMMA Appended ==
    ASSUME NEW buf, Sound(buf), NEW chain \in Chain, chain.data = <<>>
    PROVE  LET longer == [buf EXCEPT !.chains = Append(@, chain)]
           IN  /\ Sound(longer)
               /\ Bytes(longer.chains) = Bytes(buf.chains)
               /\ Len(longer.chains) = Len(buf.chains) + 1
               /\ longer.last_with_data = buf.last_with_data
               /\ Room(longer)[Len(longer.chains)]
                    = Room(buf)[Len(buf.chains)] + CHAIN_SPACE_LEN(chain)
<1> DEFINE cs == buf.chains
           N == Len(cs)
           lwd == buf.last_with_data
           ds == Append(cs, chain)
           longer == [buf EXCEPT !.chains = Append(@, chain)]
<1>1. /\ cs \in Seq(Chain) /\ N \in Nat /\ lwd \in Nat \ {0}
      /\ lwd <= N + 1
      /\ buf.total_len = Len(Bytes(cs))
  BY SoundFacts
<1>2. /\ ds \in Seq(Chain) /\ Len(ds) = N + 1
      /\ \A i \in 1 .. N : ds[i] = cs[i]
      /\ ds[N + 1] = chain
  BY <1>1, AppendProperties
<1>3. longer = [chains |-> ds, last_with_data |-> lwd, total_len |-> buf.total_len]
  <2>1. buf \in [chains : Seq(Chain), last_with_data : Nat \ {0}, total_len : Nat]
    BY DEF Sound
  <2>2. \A S, T, U : buf \in [chains : S, last_with_data : T, total_len : U] =>
           longer = [chains |-> Append(buf.chains, chain),
                     last_with_data |-> buf.last_with_data, total_len |-> buf.total_len]
    OBVIOUS
  <2>3. QED
    BY Zenon, <2>1, <2>2
<1>4. LastWithData(cs, lwd)
  BY DEF Sound
<1> HIDE DEF ds
<1>5. LastWithData(ds, lwd)
  <2>1. ASSUME lwd # 1
        PROVE  lwd <= Len(ds) /\ ds[lwd].data # <<>>
    <3>1. lwd \in 1 .. N /\ cs[lwd].data # <<>>
      BY <1>1, <1>4, <2>1 DEF LastWithData
    <3>2. QED
      BY <1>1, <1>2, <3>1
  <2>2. ASSUME NEW i \in 1 .. Len(ds), i > lwd
        PROVE  ds[i].data = <<>>
    <3>1. i \in 1 .. N \/ i = N + 1
      BY <1>1, <1>2
    <3>2. i \in 1 .. N => cs[i].data = <<>>
      BY <1>4, <2>2 DEF LastWithData
    <3>3. QED
      BY <1>2, <3>1, <3>2
  <2>3. QED
    BY <2>1, <2>2 DEF LastWithData
<1>6. Bytes(ds) = Bytes(cs)
  <2>1. \A i \in 0 .. N : Upto(ds)[i] = Upto(cs)[i]
    <3>1. N <= Len(ds) /\ N <= Len(cs) /\ \A i \in 1 .. N : ds[i].data = cs[i].data
      BY <1>1, <1>2
    <3>2. QED
      BY Zenon, <1>1, <1>2, <3>1, UptoSame
  <2>2. N \in 0 .. N /\ N + 1 \in 1 .. Len(ds) /\ (N + 1) - 1 = N
    BY <1>1, <1>2
  <2>3. Upto(ds)[N] = Upto(cs)[N]
    BY Zenon, <2>1, <2>2
  <2>4. Upto(ds)[N + 1] = Upto(ds)[(N + 1) - 1] \o ds[N + 1].data
    BY Zenon, <1>2, <2>2, UptoDef
  <2>5. Upto(ds)[N + 1] = Upto(cs)[N] \o <<>>
    BY <1>2, <2>2, <2>3, <2>4
  <2>6. Upto(cs)[N] \in Seq(Nat)
    BY Zenon, <1>1, <2>2, UptoDef
  <2>7. Upto(cs)[N] \o <<>> = Upto(cs)[N]
    BY <2>6, ConcatEmptySeq
  <2>8. QED
    BY <1>2, <2>5, <2>7 DEF Bytes
<1>7. Sound(longer)
  <2>1. buf.total_len = Len(Bytes(ds))
    BY <1>1, <1>6
  <2> HIDE DEF longer
  <2>2. QED
    BY <1>1, <1>2, <1>3, <1>5, <2>1, SoundBy
<1> HIDE DEF longer
<1>8. /\ longer.chains = ds /\ longer.last_with_data = lwd
  BY <1>3
<1>9. /\ \A i \in 0 .. N + 1 :
            /\ i < lwd => Room(longer)[i] = 0
            /\ i >= lwd => Room(longer)[i] = Room(longer)[i - 1] + CHAIN_SPACE_LEN(ds[i])
      /\ \A i \in 0 .. N :
            /\ i < lwd => Room(buf)[i] = 0
            /\ i >= lwd => Room(buf)[i] = Room(buf)[i - 1] + CHAIN_SPACE_LEN(cs[i])
  <2>1. lwd <= Len(ds) + 1
    BY <1>1, <1>2
  <2>2. \A i \in 0 .. Len(longer.chains) :
            /\ i < longer.last_with_data => Room(longer)[i] = 0
            /\ i >= longer.last_with_data =>
                 Room(longer)[i] = Room(longer)[i - 1] + CHAIN_SPACE_LEN(longer.chains[i])
    BY <1>1, <1>2, <1>8, <2>1, RoomDef
  <2>3. QED
    BY <1>1, <1>2, <1>8, <2>2, RoomDef
<1>10. Room(longer)[N] = Room(buf)[N]
  <2> DEFINE P == {i \in 0 .. N : Room(longer)[i] = Room(buf)[i]}
  <2>1. 0 \in P
    BY <1>1, <1>9
  <2>2. ASSUME NEW i \in 1 .. N, i - 1 \in P
        PROVE  i \in P
    <3>1. i \in 0 .. N /\ i \in 0 .. N + 1
      BY <1>1
    <3>2. i < lwd \/ i >= lwd
      BY <1>1
    <3>3. ds[i] = cs[i] /\ Room(longer)[i - 1] = Room(buf)[i - 1]
      BY <1>2, <2>2
    <3>4. QED
      BY <1>9, <3>1, <3>2, <3>3
  <2>3. \A i \in 0 .. N : i \in P
    <3> HIDE DEF P, N
    <3>1. QED
      BY <1>1, <2>1, <2>2, Induct
  <2>4. QED
    BY <1>1, <2>3
<1>11. Room(longer)[N + 1] = Room(buf)[N] + CHAIN_SPACE_LEN(chain)
  <2>1. N + 1 \in 0 .. N + 1 /\ N + 1 >= lwd /\ (N + 1) - 1 = N
    BY <1>1
  <2>2. QED
    BY <1>2, <1>9, <1>10, <2>1
<1>12. QED
  BY <1>2, <1>6, <1>7, <1>8, <1>11 DEF longer

\* The chains behind the data can go: all of them when last_with_datap is at a
\* chain that has data, and that one as well when there is no data.
LEMMA Cut ==
    ASSUME NEW buf, Sound(buf), buf.last_with_data \in 1 .. Len(buf.chains)
    PROVE  LET lwd == buf.last_with_data
               shorter(cs) == [buf EXCEPT !.chains = cs]
               front == SubSeq(buf.chains, 1, lwd)
           IN  /\ buf.chains[lwd].data # <<>> =>
                     /\ Sound(shorter(front))
                     /\ Bytes(front) = Bytes(buf.chains)
                     /\ Len(front) = lwd
                     /\ Room(shorter(front))[lwd] = Room(buf)[lwd]
               /\ buf.chains[lwd].data = <<>> =>
                     /\ Sound(shorter(<<>>))
                     /\ Bytes(<<>>) = Bytes(buf.chains)
                     /\ Room(shorter(<<>>))[0] = 0
<1> DEFINE cs == buf.chains
           N == Len(cs)
           lwd == buf.last_with_data
           front == SubSeq(cs, 1, lwd)
           shorter(ds) == [buf EXCEPT !.chains = ds]
<1>1. /\ cs \in Seq(Chain) /\ N \in Nat /\ lwd \in 1 .. N /\ lwd \in Nat \ {0}
      /\ lwd <= N + 1
      /\ buf.total_len = Len(Bytes(cs))
      /\ \A i \in 0 .. N : i >= lwd => Upto(cs)[i] = Bytes(cs)
  BY SoundFacts
<1>2. ASSUME NEW ds
      PROVE  shorter(ds) = [chains |-> ds, last_with_data |-> lwd, total_len |-> buf.total_len]
  <2>1. buf \in [chains : Seq(Chain), last_with_data : Nat \ {0}, total_len : Nat]
    BY DEF Sound
  <2>2. \A S, T, U : buf \in [chains : S, last_with_data : T, total_len : U] =>
           shorter(ds) = [chains |-> ds,
                          last_with_data |-> buf.last_with_data, total_len |-> buf.total_len]
    OBVIOUS
  <2>3. QED
    BY Zenon, <2>1, <2>2
<1>3. LastWithData(cs, lwd)
  BY DEF Sound
<1>4. ASSUME cs[lwd].data # <<>>
      PROVE  /\ Sound(shorter(front))
             /\ Bytes(front) = Bytes(cs)
             /\ Len(front) = lwd
             /\ Room(shorter(front))[lwd] = Room(buf)[lwd]
  <2>1. /\ front \in Seq(Chain) /\ Len(front) = lwd
        /\ \A i \in 1 .. lwd : front[i] = cs[i]
    <3>1. \A i \in 1 .. lwd : cs[i] \in Chain
      BY <1>1, ChainAt
    <3>2. /\ front \in Seq(Chain)
          /\ Len(front) = IF 1 <= lwd THEN lwd - 1 + 1 ELSE 0
          /\ \A i \in 1 .. lwd - 1 + 1 : front[i] = cs[1 + i - 1]
      <4> HIDE DEF cs, lwd
      <4>1. lwd \in Int
        BY <1>1
      <4>2. QED
        BY <3>1, <4>1, SubSeqProperties
    <3>3. \A i \in 1 .. lwd : i \in 1 .. lwd - 1 + 1 /\ 1 + i - 1 = i
      BY <1>1
    <3>4. QED
      BY <1>1, <3>2, <3>3
  <2> HIDE DEF front
  <2>2. Bytes(front) = Bytes(cs)
    <3>1. \A i \in 0 .. lwd : Upto(front)[i] = Upto(cs)[i]
      <4>1. lwd <= Len(front) /\ lwd <= Len(cs) /\ \A i \in 1 .. lwd : front[i].data = cs[i].data
        BY <1>1, <2>1
      <4> HIDE DEF cs, lwd
      <4>2. QED
        BY Zenon, <1>1, <2>1, <4>1, UptoSame
    <3>2. lwd \in 0 .. lwd /\ lwd \in 0 .. N /\ lwd >= lwd
      BY <1>1
    <3>3. QED
      BY <1>1, <2>1, <3>1, <3>2 DEF Bytes
  <2>3. LastWithData(front, lwd)
    BY <1>1, <1>4, <2>1 DEF LastWithData
  <2>4. Sound(shorter(front))
    <3>1. buf.total_len = Len(Bytes(front))
      BY <1>1, <2>2
    <3>2. Sound([chains |-> front, last_with_data |-> lwd, total_len |-> buf.total_len])
      <4> HIDE DEF lwd
      <4>1. QED
        BY <1>1, <2>1, <2>3, <3>1, SoundBy
    <3>3. QED
      BY Zenon, <1>2, <3>2
  <2>5. Room(shorter(front))[lwd] = Room(buf)[lwd]
    <3> DEFINE b == shorter(front)
    <3>1. b.chains = front /\ b.last_with_data = lwd
      BY <1>2
    <3>2. lwd \in 0 .. lwd /\ lwd \in 0 .. N /\ lwd - 1 \in 0 .. lwd /\ lwd - 1 \in 0 .. N
          /\ lwd - 1 < lwd /\ lwd >= lwd /\ lwd <= lwd + 1
      BY <1>1
    <3> HIDE DEF b
    <3>3. Room(b)[lwd - 1] = 0 /\ Room(b)[lwd] = Room(b)[lwd - 1] + CHAIN_SPACE_LEN(front[lwd])
      BY <1>1, <2>1, <3>1, <3>2, RoomDef
    <3>4. Room(buf)[lwd - 1] = 0 /\ Room(buf)[lwd] = Room(buf)[lwd - 1] + CHAIN_SPACE_LEN(cs[lwd])
      BY <1>1, <3>2, RoomDef
    <3>5. front[lwd] = cs[lwd]
      BY <1>1, <2>1
    <3>6. QED
      BY <3>3, <3>4, <3>5 DEF b
  <2>6. QED
    BY <2>1, <2>2, <2>4, <2>5
<1>5. ASSUME cs[lwd].data = <<>>
      PROVE  /\ Sound(shorter(<<>>))
             /\ Bytes(<<>>) = Bytes(cs)
             /\ Room(shorter(<<>>))[0] = 0
  <2>1. lwd = 1
    BY <1>3, <1>5 DEF LastWithData
  <2>2. buf.total_len = 0
    <3>1. ~(buf.total_len > 0)
      BY <1>5, SoundWithData
    <3>2. QED
      BY <3>1, SoundFacts
  <2>3. Bytes(cs) = <<>>
    <3>1. Bytes(cs) \in Seq(Nat)
      BY <1>1, BytesType
    <3>2. Len(Bytes(cs)) = 0
      BY <1>1, <2>2
    <3>3. QED
      BY Zenon, <3>1, <3>2, NoBytes
  <2>4. Sound(shorter(<<>>))
    BY <1>2, <2>1, <2>2, EmptySound DEF Empty
  <2>5. Room(shorter(<<>>))[0] = 0
    <3> DEFINE b == shorter(<<>>)
    <3>1. b.chains = <<>> /\ b.last_with_data = 1
      BY <1>2, <2>1
    <3> HIDE DEF b
    <3>2. <<>> \in Seq(Chain) /\ 1 \in Nat \ {0} /\ 1 <= Len(<<>>) + 1
          /\ 0 \in 0 .. Len(<<>>) /\ 0 < 1
      OBVIOUS
    <3>3. Room(b)[0] = 0
      BY <3>1, <3>2, RoomDef
    <3>4. QED
      BY <3>3 DEF b
  <2>6. QED
    BY <2>3, <2>4, <2>5, BytesOfNone
<1>6. QED
  BY <1>4, <1>5

LEMMA LastExaminedFacts ==
    ASSUME NEW buf, Sound(buf), NEW size \in Nat
    PROVE  LET last == LastExamined(buf, size)
               N == Len(buf.chains)
           IN  /\ last \in 0 .. N
               /\ \/ last = N
                  \/ last >= buf.last_with_data /\ Room(buf)[last] >= size
                  \/ last >= buf.last_with_data /\ Cardinality(Used(buf, last)) = ReadVecs
<1> DEFINE N == Len(buf.chains)
           lwd == buf.last_with_data
           stops == {i \in lwd .. N : Room(buf)[i] >= size \/ Cardinality(Used(buf, i)) = ReadVecs}
           last == LastExamined(buf, size)
<1>1. N \in Nat /\ lwd \in Nat \ {0}
  BY SoundFacts
<1>2. last = IF stops = {} THEN N ELSE Least(stops)
  BY DEF LastExamined
<1>3. CASE stops = {}
  BY <1>1, <1>2, <1>3
<1>4. CASE stops # {}
  <2>1. last \in stops
    <3>1. stops \subseteq Nat
      BY <1>1
    <3> HIDE DEF stops
    <3>2. QED
      BY <1>2, <1>4, <3>1, LeastNumber
  <2> HIDE DEF last
  <2>2. last \in lwd .. N /\ (Room(buf)[last] >= size \/ Cardinality(Used(buf, last)) = ReadVecs)
    BY <2>1
  <2>3. last \in 0 .. N /\ last >= lwd
    BY <1>1, <2>2
  <2>4. QED
    BY <2>2, <2>3 DEF last
<1>5. QED
  BY <1>3, <1>4

\* Without enough room: what is kept has the same bytes, less room than is
\* asked for, and fewer chains behind the data than one readv can use.
LEMMA KeptSound ==
    ASSUME NEW buf, Sound(buf), NEW size \in Nat \ {0}, ~HasRoom(buf, size)
    PROVE  LET kept == WithKept(buf, size)
           IN  /\ Sound(kept)
               /\ Bytes(kept.chains) = Bytes(buf.chains)
               /\ kept.last_with_data = buf.last_with_data
               /\ Room(kept)[Len(kept.chains)] < size
               /\ Len(kept.chains) - buf.last_with_data < ReadVecs
<1> DEFINE cs == buf.chains
           N == Len(cs)
           lwd == buf.last_with_data
           last == LastExamined(buf, size)
           used == Cardinality(Used(buf, last))
           R == Room(buf)
           shorter(ds) == [buf EXCEPT !.chains = ds]
<1>1. /\ cs \in Seq(Chain) /\ N \in Nat /\ lwd \in Nat \ {0} /\ lwd <= N + 1
      /\ ReadVecs \in Nat /\ ReadVecs >= 2
  BY SoundFacts, EvBufferAssumption
<1>2. /\ last \in 0 .. N
      /\ \/ last = N
         \/ last >= lwd /\ R[last] >= size
         \/ last >= lwd /\ used = ReadVecs
  BY LastExaminedFacts
<1>3. ~(R[last] >= size)
  BY DEF HasRoom
<1>4. /\ \A i \in 0 .. N : R[i] \in Nat
      /\ \A i, j \in 0 .. N : i <= j => R[i] <= R[j]
  BY <1>1, RoomDef
<1>5. R[last] < size
  BY <1>2, <1>3, <1>4
<1> HIDE DEF last, R
<1>6. ASSUME NEW ds
      PROVE  shorter(ds).chains = ds /\ shorter(ds).last_with_data = lwd
  <2>1. buf \in [chains : Seq(Chain), last_with_data : Nat \ {0}, total_len : Nat]
    BY DEF Sound
  <2>2. \A S, T, U : buf \in [chains : S, last_with_data : T, total_len : U] =>
           shorter(ds).chains = ds /\ shorter(ds).last_with_data = buf.last_with_data
    OBVIOUS
  <2>3. QED
    BY Zenon, <2>1, <2>2
<1>7. WithKept(buf, size) = shorter(Kept(buf, size))
  BY DEF WithKept
<1>8. IsFiniteSet(Used(buf, last)) /\ used \in Nat
  <2>1. IsFiniteSet(lwd .. last)
    BY <1>1, <1>2, FS_Interval
  <2>2. Used(buf, last) \in SUBSET (lwd .. last)
    BY DEF Used
  <2>3. IsFiniteSet(Used(buf, last))
    BY <2>1, <2>2, FS_Subset
  <2>4. QED
    BY <2>3, FS_CardinalityType
<1>9. CASE used < ReadVecs
  <2>1. last = N
    BY <1>1, <1>2, <1>3, <1>9
  <2>2. Kept(buf, size) = cs
    BY <1>9 DEF Kept, last
  <2>3. shorter(cs) = buf
    <3>1. buf \in [chains : Seq(Chain), last_with_data : Nat \ {0}, total_len : Nat]
      BY DEF Sound
    <3>2. \A S, T, U : buf \in [chains : S, last_with_data : T, total_len : U] =>
             [buf EXCEPT !.chains = buf.chains] = buf
      OBVIOUS
    <3>3. QED
      BY Zenon, <3>1, <3>2
  <2>4. WithKept(buf, size) = buf
    BY <1>7, <2>2, <2>3
  <2>5. N - lwd <= used
    <3>1. lwd + 1 .. N \in SUBSET Used(buf, last)
      <4>1. ASSUME NEW i \in lwd + 1 .. N
            PROVE  i \in Used(buf, last)
        <5>1. i \in 1 .. N /\ i > lwd /\ i \in lwd .. last
          BY <1>1, <2>1
        <5>2. cs[i].data = <<>>
          BY <5>1 DEF Sound, LastWithData
        <5>3. CHAIN_SPACE_LEN(cs[i]) > 0
          BY <1>1, <5>1, <5>2, ChainAt
        <5>4. QED
          BY <5>1, <5>3 DEF Used
      <4>2. QED
        BY <4>1
    <3>2. Cardinality(lwd + 1 .. N) <= used
      BY <1>8, <3>1, FS_Subset
    <3>3. Cardinality(lwd + 1 .. N) = IF lwd + 1 > N THEN 0 ELSE N - (lwd + 1) + 1
      <4> DEFINE a == lwd + 1
      <4>1. a \in Int /\ N \in Int
        BY <1>1
      <4> HIDE DEF a, N
      <4>2. Cardinality(a .. N) = IF a > N THEN 0 ELSE N - a + 1
        BY <4>1, FS_Interval
      <4>3. QED
        BY <4>2 DEF a
    <3> HIDE DEF used
    <3>4. QED
      BY <1>1, <1>8, <3>2, <3>3
  <2>6. QED
    BY <1>1, <1>5, <1>8, <1>9, <2>1, <2>4, <2>5 DEF R
<1>10. CASE ~(used < ReadVecs)
  <2>1. lwd \in 1 .. N /\ lwd \in 0 .. N /\ lwd <= last
    <3>1. lwd <= last
      <4>1. SUFFICES ASSUME lwd > last
                     PROVE  FALSE
        BY <1>1, <1>2
      <4>2. lwd .. last = {}
        BY <1>1, <1>2, <4>1
      <4>3. Used(buf, last) = {}
        BY <4>2 DEF Used
      <4>4. used = 0
        BY <4>3, FS_EmptySet
      <4>5. QED
        BY <1>1, <1>10, <4>4
    <3>2. QED
      BY <1>1, <1>2, <3>1
  <2>2. R[lwd] <= R[last] /\ R[lwd] \in Nat /\ R[last] \in Nat
    BY <1>2, <1>4, <2>1
  <2>3. CASE cs[lwd].data # <<>>
    <3> DEFINE front == SubSeq(cs, 1, lwd)
    <3>1. Kept(buf, size) = front
      BY <1>10, <2>3 DEF Kept, last
    <3>2. /\ Sound(shorter(front))
          /\ Bytes(front) = Bytes(cs)
          /\ Len(front) = lwd
          /\ Room(shorter(front))[lwd] = R[lwd]
      BY <2>1, <2>3, Cut DEF R
    <3> HIDE DEF front
    <3>3. shorter(front).chains = front /\ shorter(front).last_with_data = lwd
      BY <1>6
    <3>4. R[lwd] < size /\ lwd - lwd < ReadVecs
      BY <1>1, <1>5, <2>2
    <3> HIDE DEF shorter
    <3>5. QED
      BY <1>7, <3>1, <3>2, <3>3, <3>4
  <2>4. CASE cs[lwd].data = <<>>
    <3>1. Kept(buf, size) = <<>>
      BY <1>10, <2>4 DEF Kept, last
    <3>2. /\ Sound(shorter(<<>>))
          /\ Bytes(<<>>) = Bytes(cs)
          /\ Room(shorter(<<>>))[0] = 0
      BY <2>1, <2>4, Cut
    <3>3. shorter(<<>>).chains = <<>> /\ shorter(<<>>).last_with_data = lwd
      BY <1>6
    <3>4. 0 < size /\ 0 - lwd < ReadVecs /\ Len(<<>>) = 0
      BY <1>1
    <3> HIDE DEF shorter
    <3>5. QED
      BY <1>7, <3>1, <3>2, <3>3, <3>4
  <2>5. QED
    BY <2>3, <2>4
<1>11. QED
  BY <1>9, <1>10

\* Afterwards there is room, the bytes are the same, and no more chains are
\* behind the data than one readv can use.
LEMMA ExpandSound ==
    ASSUME NEW buf, Sound(buf), NEW size \in Nat \ {0}
    PROVE  LET expanded == _evbuffer_expand_fast(buf, size)
           IN  /\ Sound(expanded)
               /\ Bytes(expanded.chains) = Bytes(buf.chains)
               /\ expanded.last_with_data = buf.last_with_data
               /\ Room(expanded)[Len(expanded.chains)] >= size
               /\ \/ expanded = buf
                  \/ Len(expanded.chains) - expanded.last_with_data <= ReadVecs
<1> DEFINE kept == WithKept(buf, size)
           avail == Room(kept)[Len(kept.chains)]
           chain == evbuffer_chain_new(size - avail)
           longer == [kept EXCEPT !.chains = Append(@, chain)]
           last == LastExamined(buf, size)
<1>1. _evbuffer_expand_fast(buf, size) = IF HasRoom(buf, size) THEN buf ELSE longer
  BY DEF _evbuffer_expand_fast
<1>2. CASE HasRoom(buf, size)
  <2> DEFINE N == Len(buf.chains)
             R == Room(buf)
  <2>1. N \in Nat /\ last \in 0 .. N
    BY SoundFacts, LastExaminedFacts
  <2>2. R[last] >= size
    BY <1>2 DEF HasRoom
  <2>3. /\ \A i \in 0 .. N : R[i] \in Nat
        /\ \A i, j \in 0 .. N : i <= j => R[i] <= R[j]
    BY SoundFacts, RoomDef
  <2> HIDE DEF last, N, R
  <2>4. R[N] >= size
    <3>1. N \in 0 .. N /\ last <= N
      BY <2>1
    <3>2. R[N] \in Nat /\ R[last] \in Nat /\ R[last] <= R[N]
      BY <2>1, <2>3, <3>1
    <3>3. QED
      BY <2>2, <3>2
  <2>5. QED
    BY <1>1, <1>2, <2>4 DEF R, N
<1>3. CASE ~HasRoom(buf, size)
  <2>1. /\ Sound(kept)
        /\ Bytes(kept.chains) = Bytes(buf.chains)
        /\ kept.last_with_data = buf.last_with_data
        /\ avail < size
        /\ Len(kept.chains) - buf.last_with_data < ReadVecs
    BY <1>3, KeptSound
  <2>2. avail \in Nat /\ Len(kept.chains) \in Nat /\ buf.last_with_data \in Nat
    <3> HIDE DEF kept
    <3>1. /\ kept.chains \in Seq(Chain) /\ kept.last_with_data \in Nat \ {0}
          /\ kept.last_with_data <= Len(kept.chains) + 1
          /\ Len(kept.chains) \in Nat /\ Len(kept.chains) \in 0 .. Len(kept.chains)
      BY <2>1, SoundFacts
    <3>2. QED
      BY <2>1, <3>1, RoomDef
  <2> HIDE DEF kept, avail
  <2>3. size - avail \in Nat
    BY <2>1, <2>2
  <2>4. /\ chain \in Chain /\ chain.data = <<>>
        /\ CHAIN_SPACE_LEN(chain) \in Nat /\ CHAIN_SPACE_LEN(chain) >= size - avail
    BY <2>3, NewChain
  <2> HIDE DEF chain
  <2>5. /\ Sound(longer)
        /\ Bytes(longer.chains) = Bytes(kept.chains)
        /\ Len(longer.chains) = Len(kept.chains) + 1
        /\ longer.last_with_data = kept.last_with_data
        /\ Room(longer)[Len(longer.chains)] = avail + CHAIN_SPACE_LEN(chain)
    BY <2>1, <2>4, Appended DEF avail
  <2> HIDE DEF longer
  <2>6. avail + CHAIN_SPACE_LEN(chain) >= size
    BY <2>2, <2>4
  <2>7. (Len(kept.chains) + 1) - buf.last_with_data <= ReadVecs
    BY <2>1, <2>2, EvBufferAssumption
  <2>8. QED
    BY <1>1, <1>3, <2>1, <2>5, <2>6, <2>7
<1>4. QED
  BY <1>2, <1>3

-----------------------------------------------------------------------------
(* Moving one evbuffer behind another.                                     *)

LEMMA AppendSound ==
    ASSUME NEW dst, Sound(dst), NEW src, Sound(src), src.total_len > 0
    PROVE  /\ Sound(APPEND_CHAIN(dst, src))
           /\ Bytes(APPEND_CHAIN(dst, src).chains) = Bytes(dst.chains) \o Bytes(src.chains)
<1> DEFINE cs == dst.chains
           ds == src.chains
           es == cs \o ds
           n1 == Len(cs)
           n2 == Len(ds)
           m == src.last_with_data
           lwd == n1 + m
           total == dst.total_len + src.total_len
<1>1. /\ cs \in Seq(Chain) /\ ds \in Seq(Chain) /\ n1 \in Nat /\ n2 \in Nat
      /\ dst.total_len = Len(Bytes(cs)) /\ src.total_len = Len(Bytes(ds))
      /\ m \in Nat \ {0}
  BY SoundFacts
<1>2. m \in 1 .. n2 /\ ds[m].data # <<>>
  BY SoundWithData
<1>3. LastWithData(ds, m)
  BY DEF Sound
<1>4. APPEND_CHAIN(dst, src) = [chains |-> es, last_with_data |-> lwd, total_len |-> total]
  BY DEF APPEND_CHAIN
<1> HIDE DEF cs, ds, m
<1>5. /\ es \in Seq(Chain) /\ Len(es) = n1 + n2
      /\ \A i \in 1 .. n1 + n2 : es[i] = IF i <= n1 THEN cs[i] ELSE ds[i - n1]
  BY <1>1, ConcatProperties
<1>6. Bytes(es) = Bytes(cs) \o Bytes(ds)
  BY <1>1, BytesConcat
<1>7. total = Len(Bytes(es))
  <2>1. Bytes(cs) \in Seq(Nat) /\ Bytes(ds) \in Seq(Nat)
    BY <1>1, BytesType
  <2>2. Len(Bytes(cs) \o Bytes(ds)) = Len(Bytes(cs)) + Len(Bytes(ds))
    BY <2>1, ConcatProperties
  <2>3. QED
    BY <1>1, <1>6, <2>2
<1> HIDE DEF es, n1, n2
<1>8. LastWithData(es, lwd)
  <2>1. lwd \in 1 .. n1 + n2 /\ ~(lwd <= n1) /\ lwd - n1 = m
    BY <1>1, <1>2
  <2>2. es[lwd].data # <<>>
    BY <1>2, <1>5, <2>1
  <2>3. ASSUME NEW i \in 1 .. Len(es), i > lwd
        PROVE  es[i].data = <<>>
    <3>1. /\ i \in 1 .. n1 + n2 /\ ~(i <= n1)
          /\ i - n1 \in 1 .. n2 /\ i - n1 > m
      BY <1>1, <1>2, <1>5, <2>3
    <3>2. ds[i - n1].data = <<>>
      BY <1>3, <3>1 DEF LastWithData, n2
    <3>3. QED
      BY <1>5, <3>1, <3>2
  <2>4. lwd <= Len(es)
    BY <1>1, <1>5, <2>1
  <2> HIDE DEF lwd
  <2>5. QED
    BY <2>2, <2>3, <2>4 DEF LastWithData
<1>9. lwd \in Nat \ {0}
  BY <1>1
<1>10. Sound([chains |-> es, last_with_data |-> lwd, total_len |-> total])
  <2> HIDE DEF lwd, total
  <2>1. QED
    BY <1>5, <1>7, <1>8, <1>9, SoundBy
<1>11. QED
  BY <1>4, <1>6, <1>10 DEF es, cs, ds

-----------------------------------------------------------------------------
(* Draining takes the first bytes away.                                    *)

LEMMA ChainDrained ==
    ASSUME NEW c \in Chain, NEW k \in Nat, k < Len(c.data)
    PROVE  LET rest == [c EXCEPT !.misalign = @ + k, !.data = Rest(c.data, k)]
           IN  rest \in Chain /\ rest.data = Rest(c.data, k) /\ rest.data # <<>>
<1> DEFINE rest == [c EXCEPT !.misalign = @ + k, !.data = Rest(c.data, k)]
<1>1. /\ c \in [buffer_len : Nat, misalign : Nat, data : Seq(Nat)]
      /\ CHAIN_SPACE_LEN(c) >= 0
  BY DEF Chain
<1>2. PICK l \in Nat, m \in Nat, d \in Seq(Nat) :
         l = c.buffer_len /\ m = c.misalign /\ d = c.data
  BY <1>1
<1>3. Len(d) \in Nat /\ k < Len(d) /\ l - (m + Len(d)) >= 0
  BY <1>1, <1>2, LenProperties DEF CHAIN_SPACE_LEN
<1>4. Rest(d, k) \in Seq(Nat) /\ Len(Rest(d, k)) = Len(d) - k
  <2>1. k \in 0 .. Len(d) /\ Len(d) \in k .. Len(d)
    BY <1>3
  <2>2. QED
    BY <2>1, Part DEF Rest
<1>5. Rest(d, k) # <<>>
  <2>1. Len(Rest(d, k)) # 0
    BY <1>3, <1>4
  <2>2. QED
    BY <2>1
<1>6. /\ rest = [c EXCEPT !.misalign = m + k, !.data = Rest(d, k)]
      /\ rest.buffer_len = l /\ rest.misalign = m + k /\ rest.data = Rest(d, k)
      /\ rest \in [buffer_len : Nat, misalign : Nat, data : Seq(Nat)]
  <2> DEFINE r == Rest(d, k)
  <2>1. r \in Seq(Nat) /\ m + k \in Nat
    BY <1>4
  <2> HIDE DEF r
  <2>2. rest = [c EXCEPT !.misalign = m + k, !.data = r]
    BY <1>2 DEF r
  <2>3. /\ rest.buffer_len = l /\ rest.misalign = m + k /\ rest.data = r
        /\ rest \in [buffer_len : Nat, misalign : Nat, data : Seq(Nat)]
    BY <1>1, <1>2, <2>1, <2>2
  <2>4. QED
    BY <2>2, <2>3 DEF r
<1> HIDE DEF rest
<1>7. CHAIN_SPACE_LEN(rest) = l - ((m + k) + (Len(d) - k))
  BY <1>4, <1>6 DEF CHAIN_SPACE_LEN
<1>8. CHAIN_SPACE_LEN(rest) >= 0
  BY <1>3, <1>7
<1>9. rest \in Chain
  BY <1>5, <1>6, <1>8 DEF Chain
<1>10. QED
  BY <1>2, <1>5, <1>6, <1>9 DEF rest

\* The chains that are left: the first that is not used up, without the bytes
\* of it that are, and those behind it.
Left(cs, first, k) ==
    LET rest == SubSeq(cs, first, Len(cs))
    IN  [rest EXCEPT ![1].misalign = @ + k, ![1].data = SubSeq(@, k + 1, Len(@))]

LEMMA LeftChains ==
    ASSUME NEW cs \in Seq(Chain), NEW first \in 1 .. Len(cs), NEW k \in Nat,
           k < Len(cs[first].data)
    PROVE  LET ds == Left(cs, first, k)
               gone == first - 1
           IN  /\ ds \in Seq(Chain) /\ Len(ds) = Len(cs) - gone
               /\ ds[1].data = Rest(cs[first].data, k) /\ ds[1].data # <<>>
               /\ \A i \in 2 .. Len(cs) - gone : ds[i] = cs[gone + i]
<1> DEFINE N == Len(cs)
           gone == first - 1
           n == N - gone
           rest == SubSeq(cs, first, N)
           c == cs[first]
           new == [c EXCEPT !.misalign = @ + k, !.data = Rest(c.data, k)]
           ds == Left(cs, first, k)
<1>1. N \in Nat /\ first \in 1 .. N /\ n \in Nat /\ n >= 1
  BY LenProperties
<1>2. /\ rest \in Seq(Chain) /\ Len(rest) = n
      /\ \A i \in 1 .. n : rest[i] = cs[gone + i]
  <2>1. \A i \in first .. N : cs[i] \in Chain
    BY <1>1, ChainAt
  <2>2. /\ rest \in Seq(Chain)
        /\ Len(rest) = IF first <= N THEN N - first + 1 ELSE 0
        /\ \A i \in 1 .. N - first + 1 : rest[i] = cs[first + i - 1]
    <3> HIDE DEF N
    <3>1. first \in Int /\ N \in Int
      BY <1>1
    <3>2. QED
      BY <2>1, <3>1, SubSeqProperties
  <2>3. n = N - first + 1 /\ first <= N
    BY <1>1
  <2>4. \A i \in 1 .. n : i \in 1 .. N - first + 1 /\ first + i - 1 = gone + i
    BY <1>1
  <2> HIDE DEF rest, n, gone, N
  <2>5. QED
    BY <2>2, <2>3, <2>4
<1>3. rest[1] = c
  BY <1>1, <1>2
<1>4. c \in Chain
  BY ChainAt
<1> HIDE DEF rest, c, n, N
<1>5. new \in Chain /\ new.data = Rest(c.data, k) /\ new.data # <<>>
  BY <1>4, ChainDrained DEF c
<1>6. DOMAIN rest = 1 .. n
  BY <1>2, LenProperties
<1>7. ds = [i \in 1 .. n |-> IF i = 1 THEN new ELSE rest[i]]
  <2>1. 1 \in 1 .. n
    BY <1>1
  <2>2. ds = [rest EXCEPT ![1].misalign = @ + k, ![1].data = SubSeq(@, k + 1, Len(@))]
    BY DEF Left, rest, N
  <2>3. c \in [buffer_len : Nat, misalign : Nat, data : Seq(Nat)]
    BY <1>4 DEF Chain
  <2> DEFINE r == SubSeq(c.data, k + 1, Len(c.data))
             m == c.misalign + k
             once == [rest EXCEPT ![1].misalign = @ + k]
  <2>4. new = [c EXCEPT !.misalign = m, !.data = r]
    BY DEF Rest
  <2>5. once = [rest EXCEPT ![1] = [c EXCEPT !.misalign = m]]
    BY <1>3
  <2>6. once[1] = [c EXCEPT !.misalign = m] /\ DOMAIN once = 1 .. n
    BY <1>6, <2>1, <2>5
  <2>7. once[1].data = c.data
    BY <2>3, <2>6
  <2>8. ds = [once EXCEPT ![1].data = SubSeq(@, k + 1, Len(@))]
    BY <2>2
  <2> HIDE DEF m, once
  <2>9. ds = [once EXCEPT ![1].data = r]
    BY <2>7, <2>8
  <2> HIDE DEF r
  <2>10. ds = [once EXCEPT ![1] = [once[1] EXCEPT !.data = r]]
    BY <2>9
  <2>11. [once[1] EXCEPT !.data = r] = new
    BY <2>3, <2>4, <2>6
  <2>12. ds = [rest EXCEPT ![1] = new]
    BY <1>6, <2>1, <2>5, <2>10, <2>11
  <2>13. rest = [i \in 1 .. n |-> rest[i]]
    BY <1>2, <1>6
  <2> HIDE DEF ds, new
  <2>14. QED
    BY <2>1, <2>12, <2>13
<1> HIDE DEF ds, new
<1>8. ds[1] = new /\ \A i \in 2 .. n : ds[i] = cs[gone + i]
  BY <1>1, <1>2, <1>7
<1>9. ds \in Seq(Chain) /\ Len(ds) = n
  <2>1. \A i \in 1 .. n : rest[i] \in Chain
    BY <1>2, ElementOfSeq
  <2>2. ds \in [1 .. n -> Chain]
    BY <1>5, <1>7, <2>1
  <2>3. QED
    BY <1>1, <2>2
<1>10. QED
  BY <1>5, <1>8, <1>9 DEF ds, n, N, c

\* The first bytes are gone from every number of the chains.
LEMMA LeftUpto ==
    ASSUME NEW cs \in Seq(Chain), NEW first \in 1 .. Len(cs), NEW len \in Nat,
           Len(Upto(cs)[first - 1]) <= len, len < Len(Upto(cs)[first])
    PROVE  LET k == len - Len(Upto(cs)[first - 1])
           IN  /\ k \in Nat /\ k < Len(cs[first].data)
               /\ Bytes(Left(cs, first, k)) = Rest(Bytes(cs), len)
<1> DEFINE N == Len(cs)
           gone == first - 1
           n == N - gone
           u == Upto(cs)[gone]
           c == cs[first]
           k == len - Len(u)
           ds == Left(cs, first, k)
<1>1. /\ N \in Nat /\ n \in Nat /\ n >= 1 /\ gone \in 0 .. N /\ first \in 1 .. N
      /\ N = gone + n /\ first = gone + 1
  BY LenProperties
<1>2. u \in Seq(Nat) /\ c.data \in Seq(Nat)
  BY Zenon, <1>1, UptoDef, ChainAt
<1>3. Upto(cs)[first] = u \o c.data
  BY Zenon, <1>1, UptoDef
<1>4. /\ Len(u \o c.data) = Len(u) + Len(c.data)
      /\ Len(u) \in Nat /\ Len(c.data) \in Nat
  BY <1>2, ConcatProperties, LenProperties
<1> HIDE DEF u, c, n
<1>5. k \in Nat /\ k < Len(c.data) /\ Len(u) <= len /\ len < Len(u \o c.data)
  <2>1. Len(u) <= len
    BY DEF u
  <2>2. len < Len(u \o c.data)
    BY Zenon, <1>3
  <2>3. QED
    BY <1>4, <2>1, <2>2
<1> HIDE DEF k
<1> USE DEF u, c
<1>6. /\ ds \in Seq(Chain) /\ Len(ds) = n
      /\ ds[1].data = Rest(c.data, k)
      /\ \A i \in 2 .. n : ds[i] = cs[gone + i]
  BY <1>5, LeftChains DEF n
<1> HIDE DEF u, c
<1> DEFINE P == {i \in 0 .. n : i >= 1 => /\ Upto(ds)[i] = Rest(Upto(cs)[gone + i], len)
                                          /\ len <= Len(Upto(cs)[gone + i])}
<1> HIDE DEF ds
<1>7. 0 \in P
  BY <1>1
<1>8. ASSUME NEW i \in 1 .. n, i - 1 \in P
      PROVE  i \in P
  <2>1. CASE i = 1
    <3>1. Rest(u \o c.data, len) = Rest(c.data, k)
      <4>1. len >= Len(u) /\ len <= Len(u) + Len(c.data)
        BY <1>4, <1>5
      <4>2. QED
        BY <1>2, <4>1, RestOfSecond DEF k
    <3>2. Upto(ds)[1] = Rest(c.data, k)
      <4>1. 1 \in 1 .. Len(ds) /\ 1 - 1 = 0
        BY <1>1, <1>6
      <4>2. Upto(ds)[1] = Upto(ds)[1 - 1] \o ds[1].data
        BY Zenon, <1>6, <4>1, UptoDef
      <4>3. Upto(ds)[0] = <<>>
        BY Zenon, <1>6, UptoDef
      <4>4. ds[1].data \in Seq(Nat)
        BY <1>6, <4>1, ChainAt
      <4>5. <<>> \o ds[1].data = ds[1].data
        BY <4>4, ConcatEmptySeq
      <4>6. QED
        BY <1>6, <4>1, <4>2, <4>3, <4>5
    <3>3. Upto(ds)[1] = Rest(Upto(cs)[gone + 1], len)
      BY Zenon, <1>1, <1>3, <3>1, <3>2
    <3>4. len <= Len(Upto(cs)[gone + 1])
      <4>1. Upto(cs)[gone + 1] = u \o c.data
        BY Zenon, <1>1, <1>3
      <4>2. len <= Len(u \o c.data)
        BY <1>4, <1>5
      <4>3. QED
        BY Zenon, <4>1, <4>2
    <3>5. QED
      BY <1>1, <2>1, <3>3, <3>4
  <2>2. CASE i # 1
    <3> DEFINE v == Upto(cs)[gone + (i - 1)]
               d == cs[gone + i].data
    <3>0. /\ i \in 2 .. n /\ i - 1 >= 1 /\ gone + i \in 1 .. N
          /\ gone + (i - 1) \in 0 .. N /\ gone + (i - 1) = (gone + i) - 1
      <4> HIDE DEF N, gone
      <4>1. QED
        BY <1>1, <2>2
    <3>1. /\ i \in 2 .. n /\ i - 1 >= 1 /\ gone + i \in 1 .. N /\ i \in 1 .. Len(ds)
          /\ gone + (i - 1) \in 0 .. N /\ gone + (i - 1) = (gone + i) - 1
      BY <1>6, <3>0
    <3>2. Upto(ds)[i - 1] = Rest(v, len) /\ len <= Len(v)
      BY <1>8, <3>1
    <3>3. Upto(ds)[i] = Upto(ds)[i - 1] \o ds[i].data
      BY Zenon, <1>6, <3>1, UptoDef
    <3>4. ds[i].data = d
      BY <1>6, <3>1
    <3>5. Upto(cs)[gone + i] = v \o d
      <4>1. Upto(cs)[gone + i] = Upto(cs)[(gone + i) - 1] \o cs[gone + i].data
        BY Zenon, <3>1, UptoDef
      <4>2. QED
        BY <3>1, <4>1
    <3>6. v \in Seq(Nat) /\ d \in Seq(Nat)
      BY Zenon, <3>1, UptoDef, ChainAt
    <3> HIDE DEF v, d
    <3>7. Len(v) \in Nat /\ Len(d) \in Nat /\ Len(v \o d) = Len(v) + Len(d)
      BY <3>6, LenProperties, ConcatProperties
    <3>8. Rest(v \o d, len) = Rest(v, len) \o d
      <4>1. len \in 0 .. Len(v)
        BY <3>2, <3>7
      <4>2. QED
        BY <3>6, <4>1, RestOfFirst
    <3>9. Upto(ds)[i] = Rest(Upto(cs)[gone + i], len)
      BY Zenon, <3>2, <3>3, <3>4, <3>5, <3>8
    <3>10. len <= Len(Upto(cs)[gone + i])
      BY <3>2, <3>5, <3>7
    <3>11. QED
      BY <3>9, <3>10
  <2>3. QED
    BY <2>1, <2>2
<1>9. \A i \in 0 .. n : i \in P
  <2> HIDE DEF P, n
  <2>1. QED
    BY <1>1, <1>7, <1>8, Induct
<1>10. Bytes(ds) = Rest(Bytes(cs), len)
  <2>1. n \in 0 .. n
    BY <1>1
  <2>2. Upto(ds)[n] = Rest(Upto(cs)[gone + n], len)
    BY <1>1, <1>9, <2>1
  <2>3. gone + n = Len(cs)
    BY <1>1
  <2>4. QED
    BY <1>6, <2>2, <2>3 DEF Bytes
<1>11. QED
  BY <1>5, <1>10 DEF ds, k, c, u

LEMMA DrainSound ==
    ASSUME NEW buf, Sound(buf), NEW len \in Nat
    PROVE  LET drained == evbuffer_drain(buf, len)
           IN  /\ Sound(drained)
               /\ Bytes(drained.chains) = Rest(Bytes(buf.chains), len)
               /\ \/ drained = Empty
                  \/ Len(drained.chains) - drained.last_with_data
                       = Len(buf.chains) - buf.last_with_data
<1> DEFINE cs == buf.chains
           N == Len(cs)
           lwd == buf.last_with_data
           drained == evbuffer_drain(buf, len)
<1>1. /\ cs \in Seq(Chain) /\ N \in Nat /\ lwd \in Nat \ {0}
      /\ buf.total_len = Len(Bytes(cs)) /\ buf.total_len \in Nat
      /\ \A i \in 0 .. N : i >= lwd => Upto(cs)[i] = Bytes(cs)
  BY SoundFacts
<1>2. Bytes(cs) \in Seq(Nat) /\ Len(Bytes(cs)) \in Nat
  BY <1>1, BytesType
<1>3. CASE len >= buf.total_len
  <2>1. drained = Empty
    BY <1>3 DEF evbuffer_drain
  <2>2. Rest(Bytes(cs), len) = <<>>
    <3>1. len + 1 > Len(Bytes(cs)) /\ len + 1 \in Int
      BY <1>1, <1>3
    <3>2. QED
      BY <1>2, <3>1, SubSeqEmpty DEF Rest
  <2>3. QED
    BY <2>1, <2>2, EmptySound
<1>4. CASE ~(len >= buf.total_len)
  <2> DEFINE left == {i \in DOMAIN cs : Len(Upto(cs)[i]) > len}
             first == Least(left)
             gone == first - 1
             k == len - Len(Upto(cs)[gone])
             ds == Left(cs, first, k)
             last == IF gone >= lwd - 1 THEN 1 ELSE lwd - gone
             total == buf.total_len - len
  <2>1. drained = [chains |-> ds, last_with_data |-> last, total_len |-> total]
    BY <1>4 DEF evbuffer_drain, Left
  <2>2. len < Len(Bytes(cs)) /\ buf.total_len > 0
    BY <1>1, <1>4
  <2>3. lwd \in 1 .. N /\ cs[lwd].data # <<>>
    BY <2>2, SoundWithData
  <2>4. lwd \in left
    <3>1. Upto(cs)[lwd] = Bytes(cs)
      <4>1. lwd \in 0 .. N /\ lwd >= lwd
        BY <1>1, <2>3
      <4>2. QED
        BY <1>1, <4>1
    <3>2. DOMAIN cs = 1 .. N
      BY <1>1, LenProperties
    <3>3. Len(Upto(cs)[lwd]) > len
      <4> DEFINE B == Len(Bytes(cs))
      <4>1. B \in Nat /\ len < B
        BY <1>2, <2>2
      <4> HIDE DEF B
      <4>2. B > len
        BY <4>1
      <4>3. QED
        BY <3>1, <4>2 DEF B
    <3>4. QED
      BY <2>3, <3>2, <3>3
  <2>5. first \in left /\ \A i \in left : first <= i
    <3>1. left \subseteq Nat
      BY <1>1, LenProperties
    <3> HIDE DEF left
    <3>2. QED
      BY <2>4, <3>1, LeastNumber
  <2> HIDE DEF first
  <2>6. first \in 1 .. N /\ first <= lwd
    <3>1. DOMAIN cs = 1 .. N
      BY <1>1, LenProperties
    <3>2. first \in DOMAIN cs
      BY <2>5
    <3>3. QED
      BY <2>4, <2>5, <3>1, <3>2
  <2>7. /\ gone \in 0 .. N
        /\ Upto(cs)[gone] \in Seq(Nat) /\ Upto(cs)[first] \in Seq(Nat)
        /\ Len(Upto(cs)[gone]) \in Nat /\ Len(Upto(cs)[first]) \in Nat
    <3>1. gone \in 0 .. N /\ first \in 0 .. N
      BY <1>1, <2>6
    <3>2. Upto(cs)[gone] \in Seq(Nat) /\ Upto(cs)[first] \in Seq(Nat)
      BY Zenon, <1>1, <3>1, UptoDef
    <3>3. QED
      BY <3>1, <3>2, LenProperties
  <2>8. Len(Upto(cs)[gone]) <= len
    <3>1. CASE gone = 0
      <4>1. Upto(cs)[gone] = <<>>
        BY <1>1, <3>1, UptoDef
      <4>2. QED
        BY <4>1
    <3>2. CASE gone # 0
      <4>1. gone \in 1 .. N /\ ~(first <= gone)
        BY <1>1, <2>6, <3>2
      <4>2. DOMAIN cs = 1 .. N
        BY <1>1, LenProperties
      <4>3. ~(Len(Upto(cs)[gone]) > len)
        BY <2>5, <4>1, <4>2
      <4> DEFINE g == Len(Upto(cs)[gone])
      <4>4. g \in Nat /\ ~(g > len)
        BY <2>7, <4>3
      <4> HIDE DEF g
      <4>5. g <= len
        BY <4>4
      <4>6. QED
        BY <4>5 DEF g
    <3>3. QED
      BY <3>1, <3>2
  <2>9. len < Len(Upto(cs)[first])
    <3>1. Len(Upto(cs)[first]) > len
      BY <2>5
    <3> DEFINE g == Len(Upto(cs)[first])
    <3>2. g \in Nat /\ g > len
      BY <2>7, <3>1
    <3> HIDE DEF g
    <3>3. len < g
      BY <3>2
    <3>4. QED
      BY <3>3 DEF g
  <2> HIDE DEF left
  <2>10. /\ k \in Nat /\ k < Len(cs[first].data)
         /\ Bytes(ds) = Rest(Bytes(cs), len)
    <3> HIDE DEF cs
    <3>1. QED
      BY <1>1, <2>6, <2>8, <2>9, LeftUpto
  <2> HIDE DEF k
  <2>11. /\ ds \in Seq(Chain) /\ Len(ds) = N - gone
         /\ ds[1].data # <<>>
         /\ \A i \in 2 .. N - gone : ds[i] = cs[gone + i]
    <3> HIDE DEF cs
    <3>1. QED
      BY <1>1, <2>6, <2>10, LeftChains
  <2> HIDE DEF ds, gone
  <2>12. /\ gone \in 0 .. N /\ gone <= lwd - 1 /\ last = lwd - gone
         /\ last \in 1 .. N - gone
    <3> HIDE DEF N, lwd
    <3>1. gone = first - 1 /\ first \in 1 .. N /\ first <= lwd /\ lwd \in 1 .. N /\ N \in Nat
      BY <1>1, <2>3, <2>6 DEF gone
    <3>2. /\ gone \in 0 .. N /\ gone <= lwd - 1
          /\ lwd - gone \in 1 .. N - gone
          /\ gone >= lwd - 1 => lwd - gone = 1
      BY <3>1
    <3>3. QED
      BY <3>2
  <2>13. LastWithData(ds, last)
    <3> HIDE DEF last
    <3>1. last <= Len(ds)
      BY <1>1, <2>11, <2>12
    <3>2. ASSUME last # 1
          PROVE  ds[last].data # <<>>
      <4>1. last \in 2 .. N - gone /\ gone + last = lwd
        BY <1>1, <2>12, <3>2
      <4>2. ds[last] = cs[lwd]
        BY <2>11, <4>1
      <4>3. QED
        BY <2>3, <4>2
    <3>3. ASSUME NEW i \in 1 .. Len(ds), i > last
          PROVE  ds[i].data = <<>>
      <4>1. i \in 2 .. N - gone /\ gone + i \in 1 .. N /\ gone + i > lwd
        BY <1>1, <2>11, <2>12, <3>3
      <4>2. cs[gone + i].data = <<>>
        BY <4>1 DEF Sound, LastWithData
      <4>3. QED
        BY <2>11, <4>1, <4>2
    <3>4. QED
      BY <3>1, <3>2, <3>3 DEF LastWithData
  <2>14. total = Len(Bytes(ds))
    <3>1. len \in 0 .. Len(Bytes(cs)) /\ Len(Bytes(cs)) \in len .. Len(Bytes(cs))
      <4> DEFINE B == Len(Bytes(cs))
      <4>1. B \in Nat /\ len < B
        BY <1>2, <2>2
      <4> HIDE DEF B
      <4>2. len \in 0 .. B /\ B \in len .. B
        BY <4>1
      <4>3. QED
        BY <4>2 DEF B
    <3>2. Len(Rest(Bytes(cs), len)) = Len(Bytes(cs)) - len
      BY <1>2, <3>1, Part DEF Rest
    <3>3. QED
      BY <1>1, <2>10, <3>2
  <2>15. Sound([chains |-> ds, last_with_data |-> last, total_len |-> total])
    <3>1. last \in Nat \ {0}
      BY <1>1, <2>12
    <3> HIDE DEF last, total
    <3>2. QED
      BY <2>11, <2>13, <2>14, <3>1, SoundBy
  <2>16. Len(ds) - last = N - lwd
    <3> HIDE DEF last, N, lwd
    <3>1. Len(ds) = N - gone
      BY <2>11
    <3>2. QED
      BY <1>1, <2>12, <3>1
  <2>17. QED
    <3> HIDE DEF drained, last, total
    <3>1. drained.chains = ds /\ drained.last_with_data = last
      BY <2>1
    <3>2. QED
      BY <2>1, <2>10, <2>15, <2>16, <3>1 DEF drained
<1>5. QED
  BY <1>3, <1>4

-----------------------------------------------------------------------------
(* The evbuffers of a bufferevent.                                         *)

\* The inductive invariant.
EvBufferInv ==
    /\ Sound(input) /\ Sound(output)
    /\ come \in Nat
    /\ Len(input.chains) - input.last_with_data <= ReadVecs

in == Bytes(input.chains)
out == Bytes(output.chains)

LEMMA ArrivingBytes ==
    ASSUME come \in Nat, NEW k \in Nat
    PROVE  Arriving(k) \in Seq(Nat) /\ Len(Arriving(k)) = k
<1>1. \A i \in 1 .. k : come + i \in Nat
  OBVIOUS
<1>2. Arriving(k) \in [1 .. k -> Nat]
  BY <1>1 DEF Arriving
<1>3. QED
  BY <1>2

\* The socket is read.
LEMMA ReadStep ==
    ASSUME EvBufferInv, evbuffer_read
    PROVE  EvBufferInv' /\ (Streams!Receive \/ UNCHANGED <<in, out, come>>)
<1>1. /\ Sound(input) /\ Sound(output) /\ come \in Nat
      /\ Len(input.chains) - input.last_with_data <= ReadVecs
  BY DEF EvBufferInv
<1>2. PICK howmuch \in 1 .. MaxRead :
        /\ \/ \E k \in 1 .. Least({howmuch, MaxBytes - come}) :
                 /\ input' = Filled(_evbuffer_expand_fast(input, howmuch), Arriving(k))
                 /\ come' = come + k
           \/ /\ input' = _evbuffer_expand_fast(input, howmuch)
              /\ come' = come
           \/ /\ ~HasRoom(input, howmuch)
              /\ input' = WithKept(input, howmuch)
              /\ come' = come
        /\ output' = output
  BY DEF evbuffer_read
<1>3. MaxRead \in Nat /\ MaxBytes \in Nat /\ ReadVecs \in Nat /\ howmuch \in Nat \ {0}
  BY EvBufferAssumption
<1> DEFINE expanded == _evbuffer_expand_fast(input, howmuch)
<1>4. /\ Sound(expanded)
      /\ Bytes(expanded.chains) = in
      /\ expanded.last_with_data = input.last_with_data
      /\ Room(expanded)[Len(expanded.chains)] >= howmuch
      /\ Len(expanded.chains) - expanded.last_with_data <= ReadVecs
  BY <1>1, <1>3, ExpandSound DEF in
<1>5. /\ Len(expanded.chains) \in Nat /\ expanded.last_with_data \in Nat
      /\ Room(expanded)[Len(expanded.chains)] \in Nat
  <2> HIDE DEF expanded
  <2>1. /\ expanded.chains \in Seq(Chain) /\ expanded.last_with_data \in Nat \ {0}
        /\ expanded.last_with_data <= Len(expanded.chains) + 1
        /\ Len(expanded.chains) \in Nat /\ Len(expanded.chains) \in 0 .. Len(expanded.chains)
    BY <1>4, SoundFacts
  <2>2. QED
    BY <2>1, RoomDef
<1> HIDE DEF expanded
<1>6. ASSUME NEW k \in 1 .. Least({howmuch, MaxBytes - come}),
             input' = Filled(expanded, Arriving(k)), come' = come + k
      PROVE  EvBufferInv' /\ Streams!Receive
  <2>1. k \in Nat /\ k > 0 /\ k <= howmuch
    <3>1. MaxBytes - come \in Int /\ howmuch \in Int
      BY <1>1, <1>3
    <3>2. Least({howmuch, MaxBytes - come})
            = IF howmuch <= MaxBytes - come THEN howmuch ELSE MaxBytes - come
      BY <3>1, LeastOfTwo
    <3>3. QED
      BY <1>1, <1>3, <3>2
  <2> DEFINE bytes == Arriving(k)
             filled == Filled(expanded, bytes)
  <2>2. bytes \in Seq(Nat) /\ Len(bytes) = k
    BY <1>1, <2>1, ArrivingBytes
  <2> HIDE DEF bytes
  <2>3. Len(bytes) > 0 /\ Len(bytes) <= Room(expanded)[Len(expanded.chains)]
    BY <1>3, <1>4, <1>5, <2>1, <2>2
  <2>4. /\ Sound(filled)
        /\ Bytes(filled.chains) = Bytes(expanded.chains) \o bytes
        /\ Len(filled.chains) = Len(expanded.chains)
        /\ filled.last_with_data >= expanded.last_with_data
    BY <1>4, <2>2, <2>3, FilledSound
  <2>5. filled.last_with_data \in Nat
    <3> HIDE DEF filled
    <3>1. QED
      BY <2>4, SoundFacts
  <2>6. input' = filled
    BY <1>6 DEF bytes
  <2> HIDE DEF filled
  <2>7. Len(filled.chains) - filled.last_with_data <= ReadVecs
    BY <1>3, <1>4, <1>5, <2>4, <2>5
  <2>8. come + k \in Nat /\ (come + k) - come = k /\ come + k > come
    BY <1>1, <2>1
  <2>9. EvBufferInv'
    BY <1>1, <1>2, <1>6, <2>4, <2>6, <2>7, <2>8 DEF EvBufferInv
  <2>10. in' = in \o bytes /\ out' = out
    BY <1>2, <1>4, <2>4, <2>6 DEF in, out
  <2>11. Streams!NewBytes(come' - come) = bytes
    <3>1. come' - come = k
      BY <1>6, <2>8
    <3>2. QED
      BY <3>1 DEF Streams!NewBytes, bytes, Arriving
  <2>12. come' > come
    BY <1>6, <2>8
  <2>13. QED
    BY <2>9, <2>10, <2>11, <2>12 DEF Streams!Receive, in, out
<1>7. ASSUME input' = expanded, come' = come
      PROVE  EvBufferInv' /\ UNCHANGED <<in, out, come>>
  BY <1>1, <1>2, <1>4, <1>7 DEF EvBufferInv, in, out
<1>8. ASSUME ~HasRoom(input, howmuch), input' = WithKept(input, howmuch), come' = come
      PROVE  EvBufferInv' /\ UNCHANGED <<in, out, come>>
  <2> DEFINE kept == WithKept(input, howmuch)
  <2>1. /\ Sound(kept)
        /\ Bytes(kept.chains) = in
        /\ kept.last_with_data = input.last_with_data
        /\ Len(kept.chains) - input.last_with_data < ReadVecs
    BY <1>1, <1>3, <1>8, KeptSound DEF in
  <2> HIDE DEF kept
  <2>2. Len(kept.chains) \in Nat /\ kept.last_with_data \in Nat
    BY <2>1, SoundFacts
  <2>3. Len(kept.chains) - kept.last_with_data <= ReadVecs
    BY <1>3, <2>1, <2>2
  <2>4. input' = kept
    BY <1>8 DEF kept
  <2>5. QED
    BY <1>1, <1>2, <1>8, <2>1, <2>3, <2>4 DEF EvBufferInv, in, out
<1>9. QED
  BY <1>2, <1>6, <1>7, <1>8 DEF expanded

\* client_read_cb moves the input behind the output.
LEMMA AddBufferStep ==
    ASSUME EvBufferInv, evbuffer_add_buffer
    PROVE  EvBufferInv' /\ Streams!Move
<1>1. /\ Sound(input) /\ Sound(output) /\ come \in Nat
      /\ Len(input.chains) - input.last_with_data <= ReadVecs
  BY DEF EvBufferInv
<1>2. /\ input.total_len > 0
      /\ output' = IF output.total_len = 0 THEN input ELSE APPEND_CHAIN(output, input)
      /\ input' = Empty
      /\ come' = come
  BY DEF evbuffer_add_buffer
<1>3. Sound(output') /\ Bytes(output'.chains) = out \o in
  <2>1. CASE output.total_len = 0
    <3>1. output.chains \in Seq(Chain) /\ input.chains \in Seq(Chain)
          /\ output.total_len = Len(out)
      BY <1>1, SoundFacts DEF out
    <3>2. out \in Seq(Nat) /\ in \in Seq(Nat)
      BY <3>1, BytesType DEF in, out
    <3>3. out = <<>>
      BY Zenon, <2>1, <3>1, <3>2, NoBytes
    <3>4. <<>> \o in = in
      BY <3>2, ConcatEmptySeq
    <3>5. output' = input
      BY <1>2, <2>1
    <3>6. QED
      BY <1>1, <3>3, <3>4, <3>5 DEF in
  <2>2. CASE output.total_len # 0
    <3>1. output' = APPEND_CHAIN(output, input)
      BY <1>2, <2>2
    <3>2. QED
      BY <1>1, <1>2, <3>1, AppendSound DEF in, out
  <2>3. QED
    BY <2>1, <2>2
<1>4. Sound(Empty) /\ Bytes(Empty.chains) = <<>>
  BY EmptySound
<1>5. Len(Empty.chains) - Empty.last_with_data <= ReadVecs
  BY EvBufferAssumption DEF Empty
<1>6. EvBufferInv'
  BY <1>1, <1>2, <1>3, <1>4, <1>5 DEF EvBufferInv
<1>7. Streams!Move
  BY <1>2, <1>3, <1>4 DEF Streams!Move, in, out
<1>8. QED
  BY <1>6, <1>7

\* A packet is taken out of the input.
LEMMA RemoveStep ==
    ASSUME EvBufferInv, evbuffer_remove
    PROVE  EvBufferInv' /\ Streams!Take
<1>1. /\ Sound(input) /\ Sound(output) /\ come \in Nat
      /\ Len(input.chains) - input.last_with_data <= ReadVecs
  BY DEF EvBufferInv
<1>2. /\ input' = evbuffer_drain(input, PacketSize)
      /\ output' = output /\ come' = come
  BY DEF evbuffer_remove
<1> DEFINE drained == evbuffer_drain(input, PacketSize)
<1>3. /\ Sound(drained)
      /\ Bytes(drained.chains) = Rest(in, PacketSize)
      /\ \/ drained = Empty
         \/ Len(drained.chains) - drained.last_with_data
              = Len(input.chains) - input.last_with_data
  <2>1. PacketSize \in Nat
    BY EvBufferAssumption
  <2>2. QED
    BY <1>1, <2>1, DrainSound DEF in
<1> HIDE DEF drained
<1>4. Len(drained.chains) - drained.last_with_data <= ReadVecs
  <2>1. Len(Empty.chains) - Empty.last_with_data <= ReadVecs
    BY EvBufferAssumption DEF Empty
  <2>2. QED
    BY <1>1, <1>3, <2>1
<1>5. input' = drained
  BY <1>2 DEF drained
<1>6. EvBufferInv'
  BY <1>1, <1>2, <1>3, <1>4, <1>5 DEF EvBufferInv
<1>7. Streams!Take
  BY <1>2, <1>3, <1>5 DEF Streams!Take, Streams!Without, Rest, in, out
<1>8. QED
  BY <1>6, <1>7

\* A packet is put into an output without chains, or the memory for it is not
\* there.
LEMMA AddStep ==
    ASSUME EvBufferInv, evbuffer_add
    PROVE  EvBufferInv' /\ (Streams!Put \/ UNCHANGED <<in, out, come>>)
<1>1. /\ Sound(input) /\ Sound(output) /\ come \in Nat
      /\ Len(input.chains) - input.last_with_data <= ReadVecs
  BY DEF EvBufferInv
<1> DEFINE chain == evbuffer_chain_new(PacketSize)
           bytes == Arriving(PacketSize)
           fresh == [Empty EXCEPT !.chains = <<chain>>]
           filled == Filled(fresh, bytes)
<1>2. /\ output.chains = <<>>
      /\ input' = input
      /\ \/ output' = filled /\ come' = come + PacketSize
         \/ output' = output /\ come' = come
  BY DEF evbuffer_add
<1>3. PacketSize \in Nat /\ PacketSize > 0
  BY EvBufferAssumption
<1>4. /\ chain \in Chain /\ chain.data = <<>>
      /\ CHAIN_SPACE_LEN(chain) \in Nat /\ CHAIN_SPACE_LEN(chain) >= PacketSize
  BY <1>3, NewChain
<1>5. bytes \in Seq(Nat) /\ Len(bytes) = PacketSize
  BY <1>1, <1>3, ArrivingBytes
<1>6. Bytes(output.chains) = <<>>
  BY <1>2, BytesOfNone
<1> HIDE DEF chain, bytes
<1>7. fresh = [Empty EXCEPT !.chains = Append(@, chain)]
  <2>1. Append(<<>>, chain) = <<chain>>
    OBVIOUS
  <2>2. Empty.chains = <<>>
    BY DEF Empty
  <2>3. [Empty EXCEPT !.chains = Append(@, chain)]
          = [Empty EXCEPT !.chains = Append(Empty.chains, chain)]
    BY DEF Empty
  <2>4. QED
    BY Zenon, <2>1, <2>2, <2>3
<1>8. /\ Sound(fresh) /\ Bytes(fresh.chains) = <<>>
      /\ Room(fresh)[Len(fresh.chains)]
           = Room(Empty)[Len(Empty.chains)] + CHAIN_SPACE_LEN(chain)
  <2> HIDE DEF fresh
  <2>1. QED
    BY <1>4, <1>7, EmptySound, Appended
<1>9. Room(Empty)[Len(Empty.chains)] = 0
  <2>1. /\ Empty.chains \in Seq(Chain) /\ Empty.last_with_data \in Nat \ {0}
        /\ Empty.last_with_data <= Len(Empty.chains) + 1
        /\ Len(Empty.chains) \in 0 .. Len(Empty.chains)
        /\ Len(Empty.chains) < Empty.last_with_data
    BY DEF Empty
  <2>2. QED
    BY <2>1, RoomDef
<1> HIDE DEF fresh
<1>10. /\ Sound(filled)
       /\ Bytes(filled.chains) = <<>> \o bytes
  <2>1. Len(bytes) > 0 /\ Len(bytes) <= Room(fresh)[Len(fresh.chains)]
    BY <1>3, <1>4, <1>5, <1>8, <1>9
  <2>2. QED
    BY <1>5, <1>8, <2>1, FilledSound
<1> HIDE DEF filled
<1>11. CASE output' = filled /\ come' = come + PacketSize
  <2>1. EvBufferInv'
    BY <1>1, <1>2, <1>3, <1>10, <1>11 DEF EvBufferInv
  <2>2. Streams!NewBytes(PacketSize) = bytes
    BY DEF Streams!NewBytes, bytes, Arriving
  <2>3. out' = out \o Streams!NewBytes(PacketSize)
    BY Zenon, <1>6, <1>10, <1>11, <2>2 DEF out
  <2>4. Streams!Put
    BY <1>2, <1>11, <2>3 DEF Streams!Put, in, out
  <2>5. QED
    BY <2>1, <2>4
<1>12. CASE output' = output /\ come' = come
  BY <1>1, <1>2, <1>12 DEF EvBufferInv, in, out
<1>13. QED
  BY <1>2, <1>11, <1>12

\* The socket takes bytes of the output.
LEMMA WriteStep ==
    ASSUME EvBufferInv, evbuffer_write_atmost
    PROVE  EvBufferInv' /\ Streams!Send
<1>1. /\ Sound(input) /\ Sound(output) /\ come \in Nat
      /\ Len(input.chains) - input.last_with_data <= ReadVecs
  BY DEF EvBufferInv
<1>2. PICK k \in 1 .. output.total_len :
        output' = evbuffer_drain(output, k) /\ input' = input /\ come' = come
  BY DEF evbuffer_write_atmost
<1>3. output.total_len \in Nat /\ output.total_len = Len(out)
  BY <1>1, SoundFacts DEF out
<1>4. k \in Nat /\ k \in 1 .. Len(out)
  BY <1>3
<1>5. Sound(output') /\ out' = Rest(out, k)
  BY <1>1, <1>2, <1>4, DrainSound DEF out
<1>6. EvBufferInv'
  BY <1>1, <1>2, <1>5 DEF EvBufferInv
<1>7. Streams!Send
  BY <1>2, <1>4, <1>5 DEF Streams!Send, Streams!Without, Rest, in, out
<1>8. QED
  BY <1>6, <1>7

\* Every step preserves the invariant and is one of the streams, or a stutter.
LEMMA EvBufferStep ==
    ASSUME EvBufferInv, [EvBufferNext]_evbufferVars
    PROVE  EvBufferInv' /\ [Streams!Next]_<<in, out, come>>
<1>1. CASE evbuffer_read
  BY <1>1, ReadStep DEF Streams!Next
<1>2. CASE evbuffer_add_buffer
  BY <1>2, AddBufferStep DEF Streams!Next
<1>3. CASE evbuffer_remove
  BY <1>3, RemoveStep DEF Streams!Next
<1>4. CASE evbuffer_add
  BY <1>4, AddStep DEF Streams!Next
<1>5. CASE evbuffer_write_atmost
  BY <1>5, WriteStep DEF Streams!Next
<1>6. CASE UNCHANGED evbufferVars
  BY <1>6 DEF EvBufferInv, evbufferVars, in, out
<1>7. QED
  BY <1>1, <1>2, <1>3, <1>4, <1>5, <1>6 DEF EvBufferNext

LEMMA EvBufferStart ==
    ASSUME EvBufferInit
    PROVE  EvBufferInv /\ in = <<>> /\ out = <<>> /\ come = 0
<1>1. input = Empty /\ output = Empty /\ come = 0
  BY DEF EvBufferInit
<1>2. Len(Empty.chains) - Empty.last_with_data <= ReadVecs
  BY EvBufferAssumption DEF Empty
<1>3. QED
  BY <1>1, <1>2, EmptySound DEF EvBufferInv, in, out

\* What ChainsIntact says of one evbuffer.
LEMMA SoundIntact ==
    ASSUME NEW buf, Sound(buf)
    PROVE  /\ buf.total_len = Len(Bytes(buf.chains))
           /\ \A i \in DOMAIN buf.chains : CHAIN_SPACE_LEN(buf.chains[i]) >= 0
           /\ LET withData == {i \in DOMAIN buf.chains : buf.chains[i].data # <<>>}
              IN  /\ withData = {} => buf.last_with_data = 1
                  /\ withData # {} => /\ buf.last_with_data \in withData
                                      /\ \A i \in withData : i <= buf.last_with_data
<1> DEFINE cs == buf.chains
           N == Len(cs)
           lwd == buf.last_with_data
           withData == {i \in DOMAIN cs : cs[i].data # <<>>}
<1>1. /\ cs \in Seq(Chain) /\ N \in Nat /\ lwd \in Nat \ {0}
      /\ buf.total_len = Len(Bytes(cs))
  BY SoundFacts
<1>2. DOMAIN cs = 1 .. N
  BY <1>1, LenProperties
<1>3. \A i \in 1 .. N : CHAIN_SPACE_LEN(cs[i]) >= 0
  BY <1>1, ChainAt
<1>4. LastWithData(cs, lwd)
  BY DEF Sound
<1> HIDE DEF cs, N, lwd
<1>5. \A i \in withData : i <= lwd
  BY <1>1, <1>2, <1>4 DEF LastWithData, N
<1>6. lwd # 1 => lwd \in withData
  <2>1. lwd # 1 => lwd \in 1 .. N /\ cs[lwd].data # <<>>
    BY <1>1, <1>4 DEF LastWithData, N
  <2>2. QED
    BY <1>2, <2>1
<1>7. withData # {} => lwd \in withData
  <2>1. ASSUME NEW i \in withData
        PROVE  lwd \in withData
    <3>1. i \in 1 .. N /\ i <= lwd
      BY <1>2, <1>5
    <3>2. lwd = 1 => i = lwd
      BY <3>1
    <3>3. QED
      BY <1>6, <3>2
  <2>2. QED
    BY <2>1
<1>8. QED
  BY <1>1, <1>2, <1>3, <1>5, <1>6, <1>7 DEF cs, N, lwd

-----------------------------------------------------------------------------
(* The theorems.                                                           *)

\* The invariant holds in every state.
LEMMA EvBufferInvariant == EvBufferSpec => []EvBufferInv
<1>1. EvBufferInit => EvBufferInv
  BY EvBufferStart
<1>2. EvBufferInv /\ [EvBufferNext]_evbufferVars => EvBufferInv'
  BY EvBufferStep
<1>3. QED
  BY <1>1, <1>2, PTL DEF EvBufferSpec

\* total_len and last_with_datap say what is true of the chains, no chain holds
\* more than its memory, and the chains behind the data are as many as one readv
\* can use at most: after any reads, moves and drains, and failed allocations.
THEOREM ChainsStayIntact == EvBufferSpec => []ChainsIntact
<1>1. EvBufferInv => ChainsIntact
  <2>1. SUFFICES ASSUME EvBufferInv
                 PROVE  ChainsIntact
    OBVIOUS
  <2>2. /\ Sound(input) /\ Sound(output)
        /\ Len(input.chains) - input.last_with_data <= ReadVecs
    BY <2>1 DEF EvBufferInv
  <2>3. \A buf \in {input, output} : Sound(buf)
    BY <2>2
  <2>4. QED
    BY <2>2, <2>3, SoundIntact DEF ChainsIntact
<1>2. QED
  BY <1>1, EvBufferInvariant, PTL

\* However the bytes lie in chains, each call does to the two streams what
\* ByteStreams says: none is lost, repeated or put out of order.
THEOREM EvBufferImplementsStreams == EvBufferSpec => StreamSpec
<1>1. EvBufferInit => Streams!Init
  BY EvBufferStart DEF Streams!Init, in, out
<1>2. EvBufferInv /\ [EvBufferNext]_evbufferVars
        => [Streams!Next]_<<Bytes(input.chains), Bytes(output.chains), come>>
  BY EvBufferStep DEF in, out
<1>3. QED
  BY <1>1, <1>2, EvBufferInvariant, PTL DEF EvBufferSpec, StreamSpec, Streams!Spec
=============================================================================
