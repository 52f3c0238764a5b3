--------------------------- MODULE ListHeadProofs ---------------------------
(***************************************************************************)
(* Theorems about ListHead, for any heads and any finite set of entries.   *)
(*                                                                         *)
(* The argument: the nodes of a list form a ring, head, entries, head, in  *)
(* which next and prev of neighbours agree, and the rings of two lists     *)
(* have no node in common.  Each operation writes into one ring (joining   *)
(* writes into two) and at places that make a ring again.  A loop over a   *)
(* list that it takes entries out of stands at the place behind those that *)
(* it has left there, with the pointer n one place further on.             *)
(***************************************************************************)
EXTENDS ListHead, SequenceTheorems, FiniteSetTheorems, WellFoundedInduction, TLAPS

-----------------------------------------------------------------------------
(* Walks along pointers.                                                   *)

\* Every set of numbers has a least one.
LEMMA LeastNumber ==
    ASSUME NEW T, T \subseteq Nat, T # {}
    PROVE  \E x \in T : \A y \in T : x <= y
<1> DEFINE R == OpToRel(<, Nat)
<1>1. IsWellFoundedOn(R, Nat)
  BY NatLessThanWellFounded
<1>2. PICK x \in T : \A y \in T : ~(<<y, x>> \in R)
  <2> HIDE DEF R
  <2>1. QED
    BY <1>1, WFMin
<1>3. \A y \in T : <<y, x>> \in R <=> y < x
  BY DEF OpToRel
<1>4. \A y \in T : y \in Nat /\ x \in Nat /\ ~(y < x)
  BY <1>2, <1>3
<1>5. QED
  BY <1>4

\* Two functions that differ have a first difference.
LEMMA FirstDifference ==
    ASSUME NEW N \in Nat, NEW f, NEW g, \E i \in 0 .. N : f[i] # g[i]
    PROVE  \E i \in 0 .. N : /\ f[i] # g[i]
                             /\ \A j \in 0 .. N : j < i => f[j] = g[j]
<1> DEFINE D == {i \in 0 .. N : f[i] # g[i]}
<1>1. D \subseteq Nat /\ D # {}
  OBVIOUS
<1>2. PICK i \in D : \A j \in D : i <= j
  <2> HIDE DEF D
  <2>1. QED
    BY <1>1, LeastNumber
<1>3. \A j \in 0 .. N : j < i => f[j] = g[j]
  BY <1>2
<1>4. QED
  BY <1>2, <1>3

\* The nodes of the ring of a list: its head, its entries, its head again.
At(s, h, i) == IF i \in 1 .. Len(s) THEN s[i] ELSE h

\* Distinct entries are at most as many as there are.
LEMMA InjectiveLength ==
    ASSUME NEW s \in Seq(Entries), IsInjective(s)
    PROVE  /\ Len(s) \in Nat /\ Cardinality(Entries) \in Nat
           /\ Len(s) <= Cardinality(Entries)
<1>1. Len(s) \in Nat /\ s \in [1 .. Len(s) -> Entries]
  BY LenProperties
<1>2. s \in Injection(1 .. Len(s), Entries)
  BY <1>1 DEF Injection
<1>3. Cardinality(1 .. Len(s)) <= Cardinality(Entries)
  BY <1>2, FS_Injection, ListAssumption
<1>4. Cardinality(1 .. Len(s)) = Len(s)
  BY <1>1, FS_Interval
<1>5. Cardinality(Entries) \in Nat
  BY FS_CardinalityType, ListAssumption
<1>6. QED
  BY <1>1, <1>3, <1>4, <1>5

\* A walk along the pointers of a list meets its entries.
LEMMA WalkMeetsList ==
    ASSUME NEW ptr, NEW h \in Heads, NEW s \in Seq(Entries), IsInjective(s),
           \A i \in 0 .. Len(s) : ptr[At(s, h, i)] = At(s, h, i + 1)
    PROVE  Along(ptr, h) = s
<1> DEFINE N == Cardinality(Entries)
           n == Len(s)
           Step(f) == [i \in 0 .. N |->
                          IF i = 0 THEN ptr[h]
                          ELSE IF f[i - 1] \in Entries THEN ptr[f[i - 1]]
                          ELSE f[i - 1]]
           g == [i \in 0 .. N |-> At(s, h, i + 1)]
           Node == CHOOSE f : f = Step(f)
           Before == {i \in DOMAIN Node : Node[i] \in Entries}
<1>1. n \in Nat /\ N \in Nat /\ n <= N
  BY InjectiveLength
<1>2. /\ \A i \in 1 .. n : At(s, h, i) \in Entries /\ At(s, h, i) = s[i]
      /\ \A i \in Nat : i > n => At(s, h, i) = h
      /\ At(s, h, 0) = h
      /\ h \notin Entries
  BY <1>1, ElementOfSeq, ListAssumption DEF At
<1> HIDE DEF N, n
<1>3. g = Step(g)
  <2>1. ASSUME NEW i \in 0 .. N
        PROVE  g[i] = Step(g)[i]
    <3>1. CASE i = 0
      BY <1>1, <1>2, <3>1 DEF n
    <3>2. CASE i > 0 /\ i <= n
      BY <1>1, <1>2, <3>2 DEF n
    <3>3. CASE i > n
      BY <1>1, <1>2, <3>3
    <3>4. QED
      BY <1>1, <3>1, <3>2, <3>3
  <2>2. QED
    BY <2>1
<1>4. Node = Step(Node)
  <2> HIDE DEF Step, g
  <2>1. QED
    BY <1>3
<1>5. Node = g
  <2> HIDE DEF Node, g
  <2>1. SUFFICES ASSUME Node # g
                 PROVE  FALSE
    OBVIOUS
  <2>2. /\ Node = [i \in 0 .. N |-> Node[i]]
        /\ g = [i \in 0 .. N |-> g[i]]
    BY <1>3, <1>4
  <2>3. PICK i \in 0 .. N : /\ Node[i] # g[i]
                            /\ \A j \in 0 .. N : j < i => Node[j] = g[j]
    <3>1. \E i \in 0 .. N : Node[i] # g[i]
      BY <2>1, <2>2
    <3>2. \A f, g1 : (\E i \in 0 .. N : f[i] # g1[i]) =>
             \E i \in 0 .. N : /\ f[i] # g1[i]
                               /\ \A j \in 0 .. N : j < i => f[j] = g1[j]
      BY <1>1, FirstDifference
    <3>3. QED
      BY ZenonT(40), <3>1, <3>2
  <2>4. i = 0 \/ Node[i - 1] = g[i - 1]
    BY <1>1, <2>3
  <2>5. Step(Node)[i] = Step(g)[i]
    BY <1>1, <2>3, <2>4
  <2> HIDE DEF Step
  <2>6. QED
    BY <1>3, <1>4, <2>3, <2>5
<1>6. Before = 0 .. n - 1 /\ Cardinality(Before) = n
  <2>1. Before = 0 .. n - 1
    <3>1. Before = {i \in 0 .. N : At(s, h, i + 1) \in Entries}
      BY <1>5
    <3>2. \A i \in 0 .. N : At(s, h, i + 1) \in Entries <=> i + 1 <= n
      BY <1>1, <1>2
    <3> HIDE DEF Before
    <3>3. QED
      BY <1>1, <3>1, <3>2
  <2>2. Cardinality(0 .. n - 1) = n
    BY <1>1, FS_Interval
  <2>3. QED
    BY <2>1, <2>2
<1>7. Along(ptr, h) = [i \in 1 .. Cardinality(Before) |-> Node[i - 1]]
  BY DEF Along, N
<1>8. [i \in 1 .. n |-> Node[i - 1]] = s
  <2>1. \A i \in 1 .. n : Node[i - 1] = s[i]
    <3>1. ASSUME NEW i \in 1 .. n
          PROVE  Node[i - 1] = s[i]
      <4>1. i - 1 \in 0 .. N /\ (i - 1) + 1 = i
        BY <1>1
      <4>2. g[i - 1] = At(s, h, (i - 1) + 1)
        BY <4>1
      <4>3. QED
        BY <1>2, <1>5, <4>1, <4>2
    <3>2. QED
      BY <3>1
  <2>2. s = [i \in 1 .. n |-> s[i]]
    BY LenProperties DEF n
  <2> HIDE DEF Node
  <2>3. QED
    BY <2>1, <2>2
<1>9. QED
  BY <1>6, <1>7, <1>8

-----------------------------------------------------------------------------
(* Rings of nodes.                                                         *)

Memory == [Nodes -> Nodes \cup {Wild}]

\* In the memory nx, pv, the ring of h is h and the entries of s.
Ring(nx, pv, h, s) ==
    /\ s \in Seq(Entries)
    /\ IsInjective(s)
    /\ \A i \in 0 .. Len(s) : /\ nx[At(s, h, i)] = At(s, h, i + 1)
                              /\ pv[At(s, h, i + 1)] = At(s, h, i)

LEMMA RingNodes ==
    ASSUME NEW h \in Heads, NEW s \in Seq(Entries), IsInjective(s)
    PROVE  /\ Len(s) \in Nat
           /\ At(s, h, 0) = h /\ At(s, h, Len(s) + 1) = h
           /\ h \notin Entries
           /\ \A i \in 1 .. Len(s) : At(s, h, i) = s[i] /\ s[i] \in Entries
           /\ \A i \in Nat : At(s, h, i) \in Nodes
           /\ \A i, j \in 0 .. Len(s) : At(s, h, i) = At(s, h, j) => i = j
           /\ \A i, j \in 1 .. Len(s) + 1 : At(s, h, i) = At(s, h, j) => i = j
<1>1. Len(s) \in Nat /\ DOMAIN s = 1 .. Len(s)
  BY LenProperties
<1>2. /\ At(s, h, 0) = h /\ At(s, h, Len(s) + 1) = h /\ h \notin Entries
      /\ \A i \in Nat : i \notin 1 .. Len(s) => At(s, h, i) = h
  BY <1>1, ListAssumption DEF At
<1>3. \A i \in 1 .. Len(s) : At(s, h, i) = s[i] /\ s[i] \in Entries
  BY ElementOfSeq DEF At
<1>4. \A i \in Nat : At(s, h, i) \in Nodes
  BY <1>2, <1>3 DEF Nodes
<1>5. \A i, j \in 1 .. Len(s) : s[i] = s[j] => i = j
  BY <1>1 DEF IsInjective
<1>6. \A i, j \in 0 .. Len(s) : At(s, h, i) = At(s, h, j) => i = j
  BY <1>1, <1>2, <1>3, <1>5
<1>7. \A i, j \in 1 .. Len(s) + 1 : At(s, h, i) = At(s, h, j) => i = j
  BY <1>1, <1>2, <1>3, <1>5
<1>8. QED
  BY <1>1, <1>2, <1>3, <1>4, <1>6, <1>7

\* The two loops of list.h read a ring forwards and backwards.
LEMMA RingRead ==
    ASSUME NEW nx, NEW pv, NEW h \in Heads, NEW s, Ring(nx, pv, h, s)
    PROVE  Along(nx, h) = s /\ Along(pv, h) = Reverse(s)
<1> DEFINE n == Len(s)
           r == Reverse(s)
<1>1. s \in Seq(Entries) /\ IsInjective(s) /\ n \in Nat
  BY RingNodes DEF Ring
<1>2. Along(nx, h) = s
  BY <1>1, WalkMeetsList DEF Ring
<1>3. /\ r \in Seq(Entries) /\ Len(r) = n
      /\ \A i \in 1 .. n : r[i] = s[(n - i) + 1]
  <2>1. r = [i \in 1 .. n |-> s[(n - i) + 1]]
    BY DEF Reverse
  <2>2. \A i \in 1 .. n : s[(n - i) + 1] \in Entries
    BY <1>1, ElementOfSeq
  <2> HIDE DEF r
  <2>3. QED
    BY <1>1, <2>1, <2>2
<1>4. DOMAIN r = 1 .. n /\ DOMAIN s = 1 .. n
  BY <1>1, <1>3, LenProperties
<1> HIDE DEF n, r
<1>5. IsInjective(r)
  BY <1>1, <1>3, <1>4 DEF IsInjective
<1>6. \A i \in 0 .. n + 1 : At(r, h, i) = At(s, h, (n + 1) - i)
  BY <1>1, <1>3 DEF At, n
<1>7. ASSUME NEW i \in 0 .. Len(r)
      PROVE  pv[At(r, h, i)] = At(r, h, i + 1)
  <2>1. n - i \in 0 .. n /\ (n - i) + 1 = (n + 1) - i /\ n - i = (n + 1) - (i + 1)
    BY <1>1, <1>3
  <2>2. pv[At(s, h, (n - i) + 1)] = At(s, h, n - i)
    BY <2>1 DEF Ring, n
  <2>3. At(r, h, i) = At(s, h, (n - i) + 1) /\ At(r, h, i + 1) = At(s, h, n - i)
    BY <1>1, <1>3, <1>6, <2>1
  <2>4. QED
    BY <2>2, <2>3
<1>8. Along(pv, h) = r
  BY <1>3, <1>5, <1>7, WalkMeetsList
<1>9. QED
  BY <1>2, <1>8 DEF r

\* Memory that is written elsewhere leaves a ring as it was.
LEMMA RingKept ==
    ASSUME NEW nx, NEW pv, NEW nx2, NEW pv2, NEW h \in Heads, NEW s,
           Ring(nx, pv, h, s),
           \A x \in {h} \cup ToSet(s) : nx2[x] = nx[x] /\ pv2[x] = pv[x]
    PROVE  Ring(nx2, pv2, h, s)
<1>1. /\ s \in Seq(Entries) /\ IsInjective(s)
      /\ Len(s) \in Nat /\ DOMAIN s = 1 .. Len(s)
  BY LenProperties DEF Ring
<1>2. \A i \in Nat : At(s, h, i) \in {h} \cup ToSet(s)
  BY <1>1 DEF At, ToSet
<1>3. \A i \in 0 .. Len(s) : i \in Nat /\ i + 1 \in Nat
  BY <1>1
<1>4. QED
  BY <1>1, <1>2, <1>3 DEF Ring

\* t is s with e put in behind place k, or without its entry at place p.
Inserted(t, s, e, k) ==
    /\ t \in Seq(Entries)
    /\ Len(t) = Len(s) + 1
    /\ \A i \in 1 .. Len(s) + 1 :
          t[i] = IF i <= k THEN s[i] ELSE IF i = k + 1 THEN e ELSE s[i - 1]

Removed(t, s, p) ==
    /\ t \in Seq(Entries)
    /\ Len(t) = Len(s) - 1
    /\ \A i \in 1 .. Len(s) - 1 : t[i] = IF i < p THEN s[i] ELSE s[i + 1]

\* __list_add puts an entry between two neighbours, at place k + 1.
LEMMA RingAdded ==
    ASSUME NEW nx \in Memory, NEW pv \in Memory, NEW h \in Heads, NEW s,
           Ring(nx, pv, h, s),
           NEW e \in Entries, e \notin ToSet(s), NEW k \in 0 .. Len(s),
           NEW m, m = Added(Mem(nx, pv), e, At(s, h, k), At(s, h, k + 1)),
           NEW t, Inserted(t, s, e, k)
    PROVE  Ring(m.next, m.prev, h, t)
<1> DEFINE n == Len(s)
<1>1. /\ s \in Seq(Entries) /\ IsInjective(s) /\ n \in Nat /\ k \in 0 .. n
      /\ \A i \in 0 .. n : /\ nx[At(s, h, i)] = At(s, h, i + 1)
                           /\ pv[At(s, h, i + 1)] = At(s, h, i)
  BY RingNodes DEF Ring
<1>2. /\ At(s, h, 0) = h /\ At(s, h, n + 1) = h /\ h \notin Entries
      /\ \A i \in 1 .. n : At(s, h, i) = s[i] /\ s[i] \in Entries
      /\ \A i \in Nat : At(s, h, i) \in Nodes
      /\ \A i, j \in 0 .. n : At(s, h, i) = At(s, h, j) => i = j
      /\ \A i, j \in 1 .. n + 1 : At(s, h, i) = At(s, h, j) => i = j
  BY <1>1, RingNodes
<1>3. /\ t \in Seq(Entries) /\ Len(t) = n + 1
      /\ \A i \in 1 .. n + 1 :
            t[i] = IF i <= k THEN s[i] ELSE IF i = k + 1 THEN e ELSE s[i - 1]
      /\ DOMAIN s = 1 .. n /\ DOMAIN t = 1 .. n + 1
  BY <1>1, LenProperties DEF Inserted
<1>4. \A i \in 0 .. n + 1 : At(s, h, i) # e
  <2>1. \A i \in 1 .. n : At(s, h, i) # e
    BY <1>2, <1>3 DEF ToSet
  <2>2. QED
    BY <1>1, <1>2, <2>1
<1> HIDE DEF n
<1>5. /\ At(t, h, k + 1) = e
      /\ \A i \in 0 .. k : At(t, h, i) = At(s, h, i)
      /\ \A i \in k + 2 .. n + 2 : At(t, h, i) = At(s, h, i - 1)
  BY <1>1, <1>3 DEF At, n
<1>6. IsInjective(t)
  <2>1. \A i \in 1 .. k : t[i] = At(s, h, i)
    BY <1>1, <1>2, <1>3 DEF n
  <2>2. \A i \in k + 2 .. n + 1 : t[i] = At(s, h, i - 1) /\ i - 1 \in 1 .. n
    BY <1>1, <1>2, <1>3 DEF n
  <2>3. t[k + 1] = e
    BY <1>1, <1>3
  <2>4. ASSUME NEW i \in 1 .. n + 1, NEW j \in 1 .. n + 1, t[i] = t[j]
        PROVE  i = j
    <3>1. CASE i = k + 1 \/ j = k + 1
      <4>1. \A l \in 1 .. n + 1 : l # k + 1 => t[l] # e
        BY <1>1, <1>4, <2>1, <2>2
      <4>2. QED
        BY <2>3, <2>4, <3>1, <4>1
    <3>2. CASE i <= k /\ j <= k
      BY <1>1, <1>2, <2>1, <2>4, <3>2
    <3>3. CASE i <= k /\ j > k + 1
      <4>1. At(s, h, i) = At(s, h, j - 1)
        BY SMTT(30), <1>1, <2>1, <2>2, <2>4, <3>3
      <4>2. i \in 1 .. n /\ j - 1 \in 1 .. n /\ i # j - 1
        BY <1>1, <3>3
      <4>3. QED
        BY <1>2, <4>1, <4>2
    <3>4. CASE i > k + 1 /\ j <= k
      <4>1. At(s, h, i - 1) = At(s, h, j)
        BY <1>1, <2>1, <2>2, <2>4, <3>4
      <4>2. i - 1 \in 1 .. n /\ j \in 1 .. n /\ i - 1 # j
        BY <1>1, <3>4
      <4>3. QED
        BY <1>2, <4>1, <4>2
    <3>5. CASE i > k + 1 /\ j > k + 1
      <4>1. At(s, h, i - 1) = At(s, h, j - 1)
        BY <1>1, <2>2, <2>4, <3>5
      <4>2. i - 1 \in 0 .. n /\ j - 1 \in 0 .. n
        BY <1>1, <3>5
      <4>3. i - 1 = j - 1
        BY <1>2, <4>1, <4>2
      <4>4. QED
        BY <4>3
    <3>6. QED
      BY <1>1, <3>1, <3>2, <3>3, <3>4, <3>5
  <2>5. QED
    BY <1>3, <2>4 DEF IsInjective
<1>7. /\ m.next = [nx EXCEPT ![e] = At(s, h, k + 1), ![At(s, h, k)] = e]
      /\ m.prev = [pv EXCEPT ![At(s, h, k + 1)] = e, ![e] = At(s, h, k)]
  BY DEF Added, Mem
<1>8. /\ m.next[e] = At(s, h, k + 1) /\ m.next[At(s, h, k)] = e
      /\ m.prev[e] = At(s, h, k) /\ m.prev[At(s, h, k + 1)] = e
      /\ \A x \in Nodes : x # e /\ x # At(s, h, k) => m.next[x] = nx[x]
      /\ \A x \in Nodes : x # e /\ x # At(s, h, k + 1) => m.prev[x] = pv[x]
  <2>1. e \in Nodes /\ k \in Nat /\ k + 1 \in Nat
    BY <1>1 DEF Nodes
  <2>2. At(s, h, k) \in Nodes /\ At(s, h, k + 1) \in Nodes
    BY <1>2, <2>1
  <2>3. At(s, h, k) # e /\ At(s, h, k + 1) # e
    BY <1>1, <1>4
  <2>4. QED
    BY <1>7, <2>1, <2>2, <2>3 DEF Memory
<1>9. ASSUME NEW i \in 0 .. n + 1
      PROVE  m.next[At(t, h, i)] = At(t, h, i + 1)
  <2>1. CASE i < k
    <3>1. /\ At(t, h, i) = At(s, h, i) /\ At(t, h, i + 1) = At(s, h, i + 1)
          /\ At(s, h, i) \in Nodes /\ At(s, h, i) # e /\ At(s, h, i) # At(s, h, k)
          /\ nx[At(s, h, i)] = At(s, h, i + 1)
      BY <1>1, <1>2, <1>4, <1>5, <2>1
    <3>2. QED
      BY <1>8, <3>1
  <2>2. CASE i = k
    BY <1>1, <1>5, <1>8, <2>2
  <2>3. CASE i = k + 1
    <3>1. At(t, h, i) = e /\ At(t, h, i + 1) = At(s, h, k + 1)
      BY <1>1, <1>5, <2>3
    <3>2. QED
      BY <1>8, <3>1
  <2>4. CASE i > k + 1
    <3>1. i - 1 \in 0 .. n /\ (i - 1) + 1 = i /\ i - 1 # k
      BY <1>1, <2>4
    <3>2. /\ At(t, h, i) = At(s, h, i - 1) /\ At(t, h, i + 1) = At(s, h, i)
          /\ At(s, h, i - 1) \in Nodes /\ At(s, h, i - 1) # e
          /\ At(s, h, i - 1) # At(s, h, k)
      BY <1>1, <1>2, <1>4, <1>5, <2>4, <3>1
    <3>3. nx[At(s, h, i - 1)] = At(s, h, i)
      BY <1>1, <3>1
    <3>4. QED
      BY <1>8, <3>2, <3>3
  <2>5. QED
    BY <1>1, <2>1, <2>2, <2>3, <2>4
<1>10. ASSUME NEW i \in 0 .. n + 1
       PROVE  m.prev[At(t, h, i + 1)] = At(t, h, i)
  <2>1. CASE i < k
    <3>1. /\ At(t, h, i) = At(s, h, i) /\ At(t, h, i + 1) = At(s, h, i + 1)
          /\ At(s, h, i + 1) \in Nodes /\ At(s, h, i + 1) # e
          /\ At(s, h, i + 1) # At(s, h, k + 1)
          /\ pv[At(s, h, i + 1)] = At(s, h, i)
      BY <1>1, <1>2, <1>4, <1>5, <2>1
    <3>2. QED
      BY <1>8, <3>1
  <2>2. CASE i = k
    BY <1>1, <1>5, <1>8, <2>2
  <2>3. CASE i = k + 1
    <3>1. At(t, h, i) = e /\ At(t, h, i + 1) = At(s, h, k + 1)
      BY <1>1, <1>5, <2>3
    <3>2. QED
      BY <1>8, <3>1
  <2>4. CASE i > k + 1
    <3>1. i - 1 \in 0 .. n /\ (i - 1) + 1 = i /\ i - 1 # k /\ i # k + 1
      BY <1>1, <2>4
    <3>2. /\ At(t, h, i) = At(s, h, i - 1) /\ At(t, h, i + 1) = At(s, h, i)
          /\ At(s, h, i) \in Nodes /\ At(s, h, i) # e
          /\ At(s, h, i) # At(s, h, k + 1)
      BY <1>1, <1>2, <1>4, <1>5, <2>4, <3>1
    <3>3. pv[At(s, h, i)] = At(s, h, i - 1)
      BY <1>1, <3>1
    <3>4. QED
      BY <1>8, <3>2, <3>3
  <2>5. QED
    BY <1>1, <2>1, <2>2, <2>3, <2>4
<1>11. QED
  BY <1>3, <1>6, <1>9, <1>10 DEF Ring, n

\* __list_del takes the entry at place p out.
LEMMA RingDeleted ==
    ASSUME NEW nx \in Memory, NEW pv \in Memory, NEW h \in Heads, NEW s,
           Ring(nx, pv, h, s), NEW p \in 1 .. Len(s),
           NEW m, m = Deleted(Mem(nx, pv), s[p]),
           NEW t, Removed(t, s, p)
    PROVE  Ring(m.next, m.prev, h, t)
<1> DEFINE n == Len(s)
<1>1. /\ s \in Seq(Entries) /\ IsInjective(s) /\ n \in Nat /\ p \in 1 .. n
      /\ \A i \in 0 .. n : /\ nx[At(s, h, i)] = At(s, h, i + 1)
                           /\ pv[At(s, h, i + 1)] = At(s, h, i)
  BY RingNodes DEF Ring
<1>2. /\ At(s, h, 0) = h /\ At(s, h, n + 1) = h /\ h \notin Entries
      /\ \A i \in 1 .. n : At(s, h, i) = s[i] /\ s[i] \in Entries
      /\ \A i \in Nat : At(s, h, i) \in Nodes
      /\ \A i, j \in 0 .. n : At(s, h, i) = At(s, h, j) => i = j
      /\ \A i, j \in 1 .. n + 1 : At(s, h, i) = At(s, h, j) => i = j
  BY <1>1, RingNodes
<1>3. /\ t \in Seq(Entries) /\ Len(t) = n - 1
      /\ \A i \in 1 .. n - 1 : t[i] = IF i < p THEN s[i] ELSE s[i + 1]
      /\ DOMAIN s = 1 .. n /\ DOMAIN t = 1 .. n - 1
  BY <1>1, LenProperties DEF Removed
<1> HIDE DEF n
<1>4. /\ \A i \in 0 .. p - 1 : At(t, h, i) = At(s, h, i)
      /\ \A i \in p .. n : At(t, h, i) = At(s, h, i + 1)
  BY <1>1, <1>3 DEF At, n
<1>5. IsInjective(t)
  <2>1. \A i \in 1 .. p - 1 : t[i] = At(s, h, i)
    BY <1>1, <1>2, <1>3 DEF n
  <2>2. \A i \in p .. n - 1 : t[i] = At(s, h, i + 1)
    BY <1>1, <1>2, <1>3 DEF n
  <2>3. \A i, j \in 1 .. n - 1 : t[i] = t[j] => i = j
    BY <1>1, <1>2, <2>1, <2>2
  <2>4. QED
    BY <1>3, <2>3 DEF IsInjective
<1>6. nx[s[p]] = At(s, h, p + 1) /\ pv[s[p]] = At(s, h, p - 1)
  <2>1. p - 1 \in 0 .. n /\ (p - 1) + 1 = p /\ p \in 0 .. n /\ At(s, h, p) = s[p]
    BY <1>1, <1>2
  <2>2. QED
    BY <1>1, <2>1
<1>7. /\ m.next = [nx EXCEPT ![At(s, h, p - 1)] = At(s, h, p + 1)]
      /\ m.prev = [pv EXCEPT ![At(s, h, p + 1)] = At(s, h, p - 1)]
  BY <1>6 DEF Deleted, Mem
<1>8. /\ m.next[At(s, h, p - 1)] = At(s, h, p + 1)
      /\ m.prev[At(s, h, p + 1)] = At(s, h, p - 1)
      /\ \A x \in Nodes : x # At(s, h, p - 1) => m.next[x] = nx[x]
      /\ \A x \in Nodes : x # At(s, h, p + 1) => m.prev[x] = pv[x]
  <2>1. p - 1 \in Nat /\ p + 1 \in Nat
    BY <1>1
  <2>2. At(s, h, p - 1) \in Nodes /\ At(s, h, p + 1) \in Nodes
    BY <1>2, <2>1
  <2>3. QED
    BY <1>7, <2>2 DEF Memory
<1>9. ASSUME NEW i \in 0 .. n - 1
      PROVE  m.next[At(t, h, i)] = At(t, h, i + 1) /\ m.prev[At(t, h, i + 1)] = At(t, h, i)
  <2>1. CASE i < p - 1
    <3>1. /\ At(t, h, i) = At(s, h, i) /\ At(t, h, i + 1) = At(s, h, i + 1)
          /\ i \in Nat /\ i + 1 \in Nat
      BY <1>1, <1>4, <2>1
    <3>2. At(s, h, i) \in Nodes /\ At(s, h, i + 1) \in Nodes
      BY <1>2, <3>1
    <3>3. At(s, h, i) # At(s, h, p - 1) /\ At(s, h, i + 1) # At(s, h, p + 1)
      BY <1>1, <1>2, <2>1
    <3>4. nx[At(s, h, i)] = At(s, h, i + 1) /\ pv[At(s, h, i + 1)] = At(s, h, i)
      BY <1>1, <2>1
    <3>5. QED
      BY <1>8, <3>1, <3>2, <3>3, <3>4
  <2>2. CASE i = p - 1
    <3>1. At(t, h, i) = At(s, h, p - 1) /\ At(t, h, i + 1) = At(s, h, p + 1)
      BY <1>1, <1>4, <2>2
    <3>2. QED
      BY <1>8, <3>1
  <2>3. CASE i > p - 1
    <3>1. /\ At(t, h, i) = At(s, h, i + 1) /\ At(t, h, i + 1) = At(s, h, (i + 1) + 1)
          /\ i + 1 \in 1 .. n /\ (i + 1) + 1 \in Nat
      <4>1. /\ i \in p .. n /\ i + 1 \in p .. n
            /\ i + 1 \in 1 .. n /\ (i + 1) + 1 \in Nat
        BY <1>1, <2>3
      <4>2. QED
        BY <1>4, <4>1
    <3>2. At(s, h, i + 1) \in Nodes /\ At(s, h, (i + 1) + 1) \in Nodes
      BY <1>2, <3>1
    <3>3. /\ At(s, h, i + 1) # At(s, h, p - 1)
          /\ At(s, h, (i + 1) + 1) # At(s, h, p + 1)
      BY <1>1, <1>2, <2>3
    <3>4. /\ nx[At(s, h, i + 1)] = At(s, h, (i + 1) + 1)
          /\ pv[At(s, h, (i + 1) + 1)] = At(s, h, i + 1)
      BY <1>1, <3>1
    <3>5. QED
      BY <1>8, <3>1, <3>2, <3>3, <3>4
  <2>4. QED
    BY <1>1, <2>1, <2>2, <2>3
<1>10. QED
  BY <1>3, <1>5, <1>9 DEF Ring, n

\* __list_splice joins the ring of l, without l, to the front of that of h.
LEMMA RingSpliced ==
    ASSUME next \in Memory, prev \in Memory,
           NEW l \in Heads, NEW h \in Heads, l # h,
           NEW s, Ring(next, prev, l, s), NEW s2, Ring(next, prev, h, s2),
           ToSet(s) \cap ToSet(s2) = {}, Len(s) # 0,
           NEW m, m = Spliced(l, h),
           NEW t \in Seq(Entries), Len(t) = Len(s) + Len(s2),
           \A i \in 1 .. Len(s) + Len(s2) :
              t[i] = IF i <= Len(s) THEN s[i] ELSE s2[i - Len(s)]
    PROVE  Ring(m.next, m.prev, h, t)
<1> DEFINE n == Len(s)
           q == Len(s2)
<1>1. /\ s \in Seq(Entries) /\ IsInjective(s) /\ n \in Nat /\ n > 0
      /\ \A i \in 0 .. n : /\ next[At(s, l, i)] = At(s, l, i + 1)
                           /\ prev[At(s, l, i + 1)] = At(s, l, i)
  BY RingNodes DEF Ring
<1>2. /\ s2 \in Seq(Entries) /\ IsInjective(s2) /\ q \in Nat
      /\ \A i \in 0 .. q : /\ next[At(s2, h, i)] = At(s2, h, i + 1)
                           /\ prev[At(s2, h, i + 1)] = At(s2, h, i)
  BY RingNodes DEF Ring
<1>3. /\ At(s, l, 0) = l /\ At(s, l, n + 1) = l
      /\ \A i \in 1 .. n : At(s, l, i) = s[i] /\ s[i] \in Entries
      /\ \A i, j \in 0 .. n : At(s, l, i) = At(s, l, j) => i = j
  BY <1>1, RingNodes
<1>4. /\ At(s2, h, 0) = h /\ At(s2, h, q + 1) = h /\ h \notin Entries
      /\ \A i \in 1 .. q : At(s2, h, i) = s2[i] /\ s2[i] \in Entries
      /\ \A i \in Nat : At(s2, h, i) \in Nodes
      /\ \A i, j \in 1 .. q + 1 : At(s2, h, i) = At(s2, h, j) => i = j
  BY <1>2, RingNodes
<1>5. DOMAIN s = 1 .. n /\ DOMAIN s2 = 1 .. q /\ DOMAIN t = 1 .. n + q
  BY <1>1, <1>2, LenProperties
<1>6. \A i \in 1 .. n, j \in 1 .. q + 1 : s[i] # At(s2, h, j)
  <2>1. \A i \in 1 .. n, j \in 1 .. q : s[i] # s2[j]
    BY <1>5 DEF ToSet
  <2>2. ASSUME NEW i \in 1 .. n, NEW j \in 1 .. q + 1
        PROVE  s[i] # At(s2, h, j)
    <3>1. CASE j = q + 1
      BY <1>3, <1>4, <3>1
    <3>2. CASE j \in 1 .. q
      BY <1>4, <2>1, <3>2
    <3>3. QED
      BY <1>2, <3>1, <3>2
  <2>3. QED
    BY <2>2
<1> HIDE DEF n, q
<1>7. /\ At(t, h, 0) = h
      /\ \A i \in 1 .. n : At(t, h, i) = s[i]
      /\ \A i \in n + 1 .. n + q + 1 : At(t, h, i) = At(s2, h, i - n)
  BY <1>1, <1>2 DEF At, n, q
<1>8. IsInjective(t)
  <2>1. \A i \in 1 .. n : t[i] = s[i] /\ s[i] = At(s, l, i)
    BY <1>1, <1>2, <1>3 DEF n, q
  <2>2. \A i \in n + 1 .. n + q : t[i] = At(s2, h, i - n) /\ i - n \in 1 .. q
    BY <1>1, <1>2, <1>4 DEF n, q
  <2>3. ASSUME NEW i \in 1 .. n + q, NEW j \in 1 .. n + q, t[i] = t[j]
        PROVE  i = j
    <3>1. CASE i <= n /\ j <= n
      <4>1. i \in 1 .. n /\ j \in 1 .. n /\ i \in 0 .. n /\ j \in 0 .. n
        BY <1>1, <1>2, <3>1
      <4>2. At(s, l, i) = At(s, l, j)
        BY <2>1, <2>3, <4>1
      <4>3. QED
        BY <1>3, <4>1, <4>2
    <3>2. CASE i <= n /\ j > n
      <4>1. s[i] = At(s2, h, j - n) /\ i \in 1 .. n /\ j - n \in 1 .. q + 1
        BY <1>1, <1>2, <2>1, <2>2, <2>3, <3>2
      <4>2. QED
        BY <1>6, <4>1
    <3>3. CASE i > n /\ j <= n
      <4>1. s[j] = At(s2, h, i - n) /\ j \in 1 .. n /\ i - n \in 1 .. q + 1
        BY <1>1, <1>2, <2>1, <2>2, <2>3, <3>3
      <4>2. QED
        BY <1>6, <4>1
    <3>4. CASE i > n /\ j > n
      <4>1. /\ At(s2, h, i - n) = At(s2, h, j - n)
            /\ i - n \in 1 .. q + 1 /\ j - n \in 1 .. q + 1
        <5>1. /\ i \in n + 1 .. n + q /\ j \in n + 1 .. n + q
              /\ i - n \in 1 .. q + 1 /\ j - n \in 1 .. q + 1
          BY <1>1, <1>2, <3>4
        <5>2. QED
          BY <2>2, <2>3, <5>1
      <4>2. i - n = j - n
        BY <1>4, <4>1
      <4>3. QED
        BY <1>1, <4>2
    <3>5. QED
      BY <1>1, <1>2, <3>1, <3>2, <3>3, <3>4
  <2>4. QED
    BY <1>5, <2>3 DEF IsInjective
<1>9. /\ next[l] = s[1] /\ prev[l] = s[n] /\ next[h] = At(s2, h, 1)
      /\ s[1] \in Nodes /\ s[n] \in Nodes /\ h \in Nodes
      /\ At(s2, h, 1) \in Nodes
  <2>1. 1 \in 1 .. n /\ n \in 1 .. n /\ 0 \in 0 .. n /\ n \in 0 .. n /\ 0 \in 0 .. q
    BY <1>1, <1>2
  <2>2. next[l] = s[1]
    BY <1>1, <1>3, <2>1
  <2>3. prev[l] = s[n]
    BY <1>1, <1>3, <2>1
  <2>4. next[h] = At(s2, h, 1)
    BY <1>2, <1>4, <2>1
  <2>5. QED
    BY <1>3, <1>4, <2>1, <2>2, <2>3, <2>4 DEF Nodes
<1>10. /\ m.next = [next EXCEPT ![h] = s[1], ![s[n]] = At(s2, h, 1)]
       /\ m.prev = [prev EXCEPT ![s[1]] = h, ![At(s2, h, 1)] = s[n]]
  BY <1>9 DEF Spliced, Mem
<1>11. /\ h # s[n] /\ s[1] # At(s2, h, 1)
       /\ \A i \in 1 .. n : s[i] # h
  BY <1>1, <1>2, <1>3, <1>4, <1>6
<1>12. /\ m.next[h] = s[1] /\ m.next[s[n]] = At(s2, h, 1)
       /\ m.prev[s[1]] = h /\ m.prev[At(s2, h, 1)] = s[n]
       /\ \A x \in Nodes : x # h /\ x # s[n] => m.next[x] = next[x]
       /\ \A x \in Nodes : x # s[1] /\ x # At(s2, h, 1) => m.prev[x] = prev[x]
  BY <1>9, <1>10, <1>11 DEF Memory
<1>13. ASSUME NEW i \in 0 .. n + q
       PROVE  m.next[At(t, h, i)] = At(t, h, i + 1) /\ m.prev[At(t, h, i + 1)] = At(t, h, i)
  <2>1. CASE i = 0
    <3>1. At(t, h, i) = h /\ At(t, h, i + 1) = s[1]
      BY <1>1, <1>7, <2>1
    <3>2. QED
      BY <1>12, <3>1
  <2>2. CASE 1 <= i /\ i < n
    <3>1. /\ i \in 1 .. n /\ i + 1 \in 1 .. n /\ i \in 0 .. n
          /\ i # n /\ i + 1 # 1 /\ 1 \in 0 .. n /\ n \in 0 .. n /\ i + 1 \in 0 .. n
          /\ 1 \in 1 .. n /\ n \in 1 .. n /\ 1 \in 1 .. q + 1
      BY <1>1, <1>2, <2>2
    <3>2. At(t, h, i) = s[i] /\ At(t, h, i + 1) = s[i + 1]
      BY <1>7, <3>1
    <3>3. /\ s[i] \in Nodes /\ s[i + 1] \in Nodes
          /\ s[i] # s[n] /\ s[i + 1] # s[1]
          /\ next[s[i]] = s[i + 1] /\ prev[s[i + 1]] = s[i]
      BY SMTT(30), <1>1, <1>3, <3>1 DEF Nodes
    <3>4. s[i] # h /\ s[i + 1] # At(s2, h, 1)
      BY <1>6, <1>11, <3>1
    <3>5. QED
      BY <1>12, <3>2, <3>3, <3>4
  <2>3. CASE i = n
    <3>1. i \in 1 .. n /\ i + 1 \in n + 1 .. n + q + 1 /\ (i + 1) - n = 1
      BY <1>1, <1>2, <2>3
    <3>2. At(t, h, i) = s[n] /\ At(t, h, i + 1) = At(s2, h, 1)
      BY <1>7, <2>3, <3>1
    <3>3. QED
      BY <1>12, <3>2
  <2>4. CASE i > n
    <3>1. PICK j \in 1 .. q : j = i - n
      BY <1>1, <1>2, <2>4
    <3>2. /\ i \in n + 1 .. n + q + 1 /\ i + 1 \in n + 1 .. n + q + 1
          /\ i - n = j /\ (i + 1) - n = j + 1
          /\ j \in 1 .. q + 1 /\ j + 1 \in 1 .. q + 1 /\ 1 \in 1 .. q + 1
          /\ j \in 0 .. q /\ j \in Nat /\ j + 1 \in Nat /\ j + 1 # 1
          /\ 1 \in 1 .. n /\ n \in 1 .. n
      BY <1>1, <1>2, <2>4, <3>1
    <3>3. At(t, h, i) = At(s2, h, j) /\ At(t, h, i + 1) = At(s2, h, j + 1)
      BY <1>7, <3>2
    <3>4. /\ At(s2, h, j) \in Nodes /\ At(s2, h, j + 1) \in Nodes
          /\ At(s2, h, j) # h /\ At(s2, h, j) # s[n]
          /\ At(s2, h, j + 1) # s[1] /\ At(s2, h, j + 1) # At(s2, h, 1)
      BY <1>4, <1>6, <3>2
    <3>5. /\ next[At(s2, h, j)] = At(s2, h, j + 1)
          /\ prev[At(s2, h, j + 1)] = At(s2, h, j)
      BY <1>2, <3>2
    <3>6. QED
      BY <1>12, <3>3, <3>4, <3>5
  <2>5. QED
    BY <1>1, <1>2, <2>1, <2>2, <2>3, <2>4
<1>14. QED
  BY <1>8, <1>13 DEF Ring, n, q

-----------------------------------------------------------------------------
(* The memory of the lists.                                                *)

\* The memory nx, pv holds the lists L of the heads lv, ow[e] that of entry e.
Represents(nx, pv, lv, ow, L) ==
    /\ nx \in Memory /\ pv \in Memory
    /\ lv \subseteq Heads
    /\ ow \in [Entries -> lv \cup {Wild}]
    /\ L \in [Heads -> Seq(Entries)]
    /\ \A h \in Heads \ lv : L[h] = <<>>
    /\ \A h \in lv : /\ Ring(nx, pv, h, L[h])
                     /\ ToSet(L[h]) = {e \in Entries : ow[e] = h}

MemoryInv == Represents(next, prev, live, owner, Lists)

\* What the loops of list.h read is what the memory represents.
LEMMA ListsRead ==
    ASSUME NEW nx, NEW pv, NEW lv, NEW ow, NEW L, Represents(nx, pv, lv, ow, L)
    PROVE  L = [h \in Heads |-> IF h \in lv THEN Along(nx, h) ELSE <<>>]
<1>1. \A h \in lv : h \in Heads /\ Along(nx, h) = L[h]
  BY RingRead DEF Represents
<1>2. \A h \in Heads \ lv : L[h] = <<>>
  BY DEF Represents
<1>3. L = [h \in Heads |-> L[h]]
  BY DEF Represents
<1>4. QED
  BY <1>1, <1>2, <1>3

LEMMA MemoryInvNext ==
    ASSUME NEW L, Represents(next', prev', live', owner', L)
    PROVE  MemoryInv' /\ Lists' = L
<1>1. L = [h \in Heads |-> IF h \in live' THEN Along(next', h) ELSE <<>>]
  BY ListsRead
<1>2. Lists' = [h \in Heads |-> IF h \in live' THEN Along(next', h) ELSE <<>>]
  BY DEF Lists, list_for_each, Along
<1>3. Lists' = L
  BY <1>1, <1>2
<1>4. QED
  BY <1>3 DEF MemoryInv

\* Writes outside of a ring leave it as it was.
LEMMA RingUntouched ==
    ASSUME NEW nx, NEW pv, NEW lv, NEW ow, NEW L, Represents(nx, pv, lv, ow, L),
           NEW g \in lv, NEW nx2, NEW pv2,
           \A x \in Nodes : x = g \/ (x \in Entries /\ ow[x] = g)
              => nx2[x] = nx[x] /\ pv2[x] = pv[x]
    PROVE  Ring(nx2, pv2, g, L[g])
<1>1. g \in Heads /\ Ring(nx, pv, g, L[g]) /\ g \in Nodes
  BY DEF Represents, Nodes
<1>2. \A x \in ToSet(L[g]) : x \in Nodes /\ x \in Entries /\ ow[x] = g
  BY DEF Represents, Nodes
<1>3. QED
  BY <1>1, <1>2, RingKept

\* The neighbours at a place of a ring.
LEMMA Neighbours ==
    ASSUME NEW nx, NEW pv, NEW lv, NEW ow, NEW L, Represents(nx, pv, lv, ow, L),
           NEW h \in lv
    PROVE  /\ h \in Heads /\ h \notin Entries
           /\ Ring(nx, pv, h, L[h])
           /\ L[h] \in Seq(Entries) /\ IsInjective(L[h])
           /\ Len(L[h]) \in Nat /\ DOMAIN L[h] = 1 .. Len(L[h])
           /\ ToSet(L[h]) = {e \in Entries : ow[e] = h}
           /\ \A i \in Nat : /\ At(L[h], h, i) \in Nodes
                             /\ \/ At(L[h], h, i) = h
                                \/ /\ At(L[h], h, i) \in Entries
                                   /\ ow[At(L[h], h, i)] = h
           /\ \A i \in 0 .. Len(L[h]) :
                 /\ nx[At(L[h], h, i)] = At(L[h], h, i + 1)
                 /\ pv[At(L[h], h, i + 1)] = At(L[h], h, i)
<1>1. /\ h \in Heads /\ Ring(nx, pv, h, L[h])
      /\ ToSet(L[h]) = {e \in Entries : ow[e] = h}
  BY DEF Represents
<1>2. L[h] \in Seq(Entries) /\ IsInjective(L[h])
  BY <1>1 DEF Ring
<1>3. h \notin Entries /\ Len(L[h]) \in Nat /\ DOMAIN L[h] = 1 .. Len(L[h])
  BY <1>1, <1>2, RingNodes, LenProperties
<1>4. \A i \in Nat : /\ At(L[h], h, i) \in Nodes
                     /\ At(L[h], h, i) = h \/ At(L[h], h, i) \in ToSet(L[h])
  BY <1>1, <1>2, <1>3, RingNodes DEF At, ToSet
<1>5. QED
  BY <1>1, <1>2, <1>3, <1>4 DEF Ring

\* list_empty tells the truth.
LEMMA HeadAlone ==
    ASSUME NEW nx, NEW pv, NEW lv, NEW ow, NEW L, Represents(nx, pv, lv, ow, L),
           NEW h \in lv
    PROVE  nx[h] = h <=> L[h] = <<>>
<1>1. PICK s : s = L[h]
  OBVIOUS
<1>2. /\ h \notin Entries /\ s \in Seq(Entries) /\ Len(s) \in Nat
      /\ \A i \in 0 .. Len(s) : nx[At(s, h, i)] = At(s, h, i + 1)
  BY <1>1, Neighbours
<1>3. nx[h] = At(s, h, 1)
  <2>1. At(s, h, 0) = h /\ 0 \in 0 .. Len(s) /\ 0 + 1 = 1
    BY <1>2 DEF At
  <2>2. QED
    BY <1>2, <2>1
<1>4. CASE Len(s) = 0
  <2>1. s = <<>> /\ At(s, h, 1) = h
    BY <1>2, <1>4, EmptySeq DEF At
  <2>2. QED
    BY <1>1, <1>3, <2>1
<1>5. CASE Len(s) > 0
  <2>1. 1 \in 1 .. Len(s) /\ s # <<>>
    BY <1>2, <1>5
  <2>2. At(s, h, 1) \in Entries
    BY <1>2, <2>1, ElementOfSeq DEF At
  <2>3. QED
    BY <1>1, <1>2, <1>3, <2>1, <2>2
<1>6. QED
  BY <1>2, <1>4, <1>5

\* What the operations write.
LEMMA AddedMemory ==
    ASSUME NEW nx \in Memory, NEW pv \in Memory, NEW e \in Nodes,
           NEW before \in Nodes, NEW after \in Nodes
    PROVE  LET m == Added(Mem(nx, pv), e, before, after)
           IN  /\ m.next \in Memory /\ m.prev \in Memory
               /\ \A x \in Nodes : x # e /\ x # before /\ x # after
                     => m.next[x] = nx[x] /\ m.prev[x] = pv[x]
<1> DEFINE m == Added(Mem(nx, pv), e, before, after)
<1>1. /\ m.next = [nx EXCEPT ![e] = after, ![before] = e]
      /\ m.prev = [pv EXCEPT ![after] = e, ![e] = before]
  BY DEF Added, Mem
<1>2. QED
  BY <1>1 DEF Memory

LEMMA DeletedMemory ==
    ASSUME NEW nx \in Memory, NEW pv \in Memory, NEW e \in Nodes,
           nx[e] \in Nodes, pv[e] \in Nodes,
           NEW m, m = Deleted(Mem(nx, pv), e)
    PROVE  /\ m.next \in Memory /\ m.prev \in Memory
           /\ \A x \in Nodes : x # nx[e] /\ x # pv[e]
                 => m.next[x] = nx[x] /\ m.prev[x] = pv[x]
<1>1. /\ m.next = [nx EXCEPT ![pv[e]] = nx[e]]
      /\ m.prev = [pv EXCEPT ![nx[e]] = pv[e]]
  BY DEF Deleted, Mem
<1>2. QED
  BY <1>1 DEF Memory

LEMMA InitialisedMemory ==
    ASSUME NEW nx \in Memory, NEW pv \in Memory, NEW e \in Nodes,
           NEW m, m = Initialised(Mem(nx, pv), e)
    PROVE  /\ m.next \in Memory /\ m.prev \in Memory
           /\ m.next[e] = e /\ m.prev[e] = e
           /\ \A x \in Nodes : x # e => m.next[x] = nx[x] /\ m.prev[x] = pv[x]
<1>1. /\ m.next = [nx EXCEPT ![e] = e]
      /\ m.prev = [pv EXCEPT ![e] = e]
  BY DEF Initialised, Mem
<1>2. QED
  BY <1>1 DEF Memory

\* A write into the ring of h, and into entries that are in no list.
LEMMA OneRingWritten ==
    ASSUME NEW nx, NEW pv, NEW lv, NEW ow, NEW L, Represents(nx, pv, lv, ow, L),
           NEW h \in lv, NEW ow2 \in [Entries -> lv \cup {Wild}],
           \A d \in Entries : ow2[d] # ow[d]
              => ow[d] \in {h, Wild} /\ ow2[d] \in {h, Wild},
           NEW nx2 \in Memory, NEW pv2 \in Memory,
           \A x \in Nodes : x # h /\ (x \in Entries => ow[x] \notin {h, Wild})
              => nx2[x] = nx[x] /\ pv2[x] = pv[x],
           NEW t, Ring(nx2, pv2, h, t), ToSet(t) = {d \in Entries : ow2[d] = h}
    PROVE  Represents(nx2, pv2, lv, ow2, [L EXCEPT ![h] = t])
<1> DEFINE L2 == [L EXCEPT ![h] = t]
<1>1. /\ lv \subseteq Heads /\ h \in Heads
      /\ L \in [Heads -> Seq(Entries)]
      /\ t \in Seq(Entries)
  BY DEF Represents, Ring
<1>2. L2[h] = t /\ \A g \in Heads : g # h => L2[g] = L[g]
  BY <1>1
<1>3. ASSUME NEW g \in lv, g # h
      PROVE  Ring(nx2, pv2, g, L2[g]) /\ ToSet(L2[g]) = {d \in Entries : ow2[d] = g}
  <2>1. g \in Heads /\ g \notin Entries /\ g # Wild /\ g \notin {h, Wild}
    BY <1>1, <1>3, ListAssumption
  <2>2. Ring(nx2, pv2, g, L[g])
    <3>1. \A x \in Nodes : x = g \/ (x \in Entries /\ ow[x] = g)
             => nx2[x] = nx[x] /\ pv2[x] = pv[x]
      BY <1>1, <2>1, ListAssumption DEF Nodes
    <3>2. QED
      BY <3>1, RingUntouched
  <2>3. ToSet(L[g]) = {d \in Entries : ow[d] = g}
    BY DEF Represents
  <2>4. {d \in Entries : ow2[d] = g} = {d \in Entries : ow[d] = g}
    BY <2>1
  <2>5. L2[g] = L[g]
    BY <1>2, <1>3, <2>1
  <2>6. QED
    BY <2>2, <2>3, <2>4, <2>5
<1>4. \A g \in lv : /\ Ring(nx2, pv2, g, L2[g])
                    /\ ToSet(L2[g]) = {d \in Entries : ow2[d] = g}
  BY <1>2, <1>3
<1>5. L2 \in [Heads -> Seq(Entries)]
  BY <1>1
<1>6. \A g \in Heads \ lv : L2[g] = <<>>
  BY <1>1, <1>2 DEF Represents
<1>7. QED
  BY <1>1, <1>4, <1>5, <1>6 DEF Represents

LEMMA InsertedMembers ==
    ASSUME NEW s \in Seq(Entries), NEW t, NEW e \in Entries, NEW k \in 0 .. Len(s),
           Inserted(t, s, e, k)
    PROVE  ToSet(t) = ToSet(s) \cup {e}
<1> DEFINE n == Len(s)
<1>1. /\ n \in Nat /\ k \in 0 .. n
      /\ ToSet(s) = {s[i] : i \in 1 .. n}
      /\ ToSet(t) = {t[i] : i \in 1 .. n + 1}
      /\ \A i \in 1 .. n + 1 :
            t[i] = IF i <= k THEN s[i] ELSE IF i = k + 1 THEN e ELSE s[i - 1]
  BY LenProperties DEF Inserted, ToSet
<1> HIDE DEF n
<1>2. ASSUME NEW i \in 1 .. n + 1
      PROVE  t[i] = e \/ \E j \in 1 .. n : t[i] = s[j]
  <2>1. CASE i <= k
    BY <1>1, <2>1
  <2>2. CASE i = k + 1
    <3>1. ~(i <= k)
      BY <1>1, <2>2
    <3>2. QED
      BY <1>1, <2>2, <3>1
  <2>3. CASE i > k + 1
    <3>1. i - 1 \in 1 .. n /\ t[i] = s[i - 1]
      BY <1>1, <2>3
    <3>2. QED
      BY <3>1
  <2>4. QED
    BY <1>1, <2>1, <2>2, <2>3
<1>3. ASSUME NEW j \in 1 .. n
      PROVE  \E i \in 1 .. n + 1 : t[i] = s[j]
  <2>1. CASE j <= k
    BY <1>1, <2>1
  <2>2. CASE j > k
    <3>1. j + 1 \in 1 .. n + 1 /\ (j + 1) - 1 = j /\ ~(j + 1 <= k)
      BY <1>1, <2>2
    <3>2. t[j + 1] = IF j + 1 = k + 1 THEN e ELSE s[j]
      BY <1>1, <3>1
    <3>3. j + 1 # k + 1
      BY <1>1, <2>2
    <3>4. QED
      BY <3>1, <3>2, <3>3
  <2>3. QED
    BY <1>1, <2>1, <2>2
<1>4. k + 1 \in 1 .. n + 1 /\ t[k + 1] = e
  BY <1>1
<1>5. QED
  BY <1>1, <1>2, <1>3, <1>4

LEMMA RemovedMembers ==
    ASSUME NEW s \in Seq(Entries), IsInjective(s), NEW t, NEW p \in 1 .. Len(s),
           Removed(t, s, p)
    PROVE  ToSet(t) = ToSet(s) \ {s[p]}
<1> DEFINE n == Len(s)
<1>1. /\ n \in Nat /\ p \in 1 .. n
      /\ ToSet(s) = {s[i] : i \in 1 .. n}
      /\ ToSet(t) = {t[i] : i \in 1 .. n - 1}
      /\ \A i \in 1 .. n - 1 : t[i] = IF i < p THEN s[i] ELSE s[i + 1]
      /\ \A i, j \in 1 .. n : s[i] = s[j] => i = j
  BY LenProperties DEF Removed, ToSet, IsInjective
<1> HIDE DEF n
<1>2. ASSUME NEW i \in 1 .. n - 1
      PROVE  t[i] # s[p] /\ \E j \in 1 .. n : t[i] = s[j]
  <2>1. CASE i < p
    <3>1. i \in 1 .. n /\ t[i] = s[i] /\ i # p
      BY <1>1, <2>1
    <3>2. QED
      BY <1>1, <3>1
  <2>2. CASE i >= p
    <3>1. i + 1 \in 1 .. n /\ t[i] = s[i + 1] /\ i + 1 # p
      BY <1>1, <2>2
    <3>2. QED
      BY <1>1, <3>1
  <2>3. QED
    BY <1>1, <2>1, <2>2
<1>3. ASSUME NEW j \in 1 .. n, s[j] # s[p]
      PROVE  \E i \in 1 .. n - 1 : t[i] = s[j]
  <2>1. CASE j < p
    <3>1. j \in 1 .. n - 1 /\ t[j] = s[j]
      BY <1>1, <2>1
    <3>2. QED
      BY <3>1
  <2>2. CASE j > p
    <3>1. j - 1 \in 1 .. n - 1 /\ t[j - 1] = s[j]
      BY <1>1, <2>2
    <3>2. QED
      BY <3>1
  <2>3. QED
    BY <1>1, <1>3, <2>1, <2>2
<1>4. \A x \in ToSet(t) : x \in ToSet(s) /\ x # s[p]
  BY <1>1, <1>2
<1>5. \A x \in ToSet(s) : x # s[p] => x \in ToSet(t)
  BY <1>1, <1>3
<1>6. QED
  BY <1>4, <1>5

LEMMA AddRepresented ==
    ASSUME NEW nx, NEW pv, NEW lv, NEW ow, NEW L, Represents(nx, pv, lv, ow, L),
           NEW h \in lv, NEW e \in Entries, ow[e] = Wild, NEW k \in 0 .. Len(L[h]),
           NEW before, before = At(L[h], h, k), NEW after, after = At(L[h], h, k + 1),
           NEW m, m = Added(Mem(nx, pv), e, before, after),
           NEW t, Inserted(t, L[h], e, k)
    PROVE  Represents(m.next, m.prev, lv, [ow EXCEPT ![e] = h], [L EXCEPT ![h] = t])
<1>1. PICK s : s = L[h]
  OBVIOUS
<1>2. /\ nx \in Memory /\ pv \in Memory /\ h \in Heads /\ h # Wild
      /\ s \in Seq(Entries) /\ Ring(nx, pv, h, s) /\ k \in 0 .. Len(s)
      /\ e \notin ToSet(s) /\ e \in Nodes
      /\ Inserted(t, s, e, k)
      /\ m = Added(Mem(nx, pv), e, before, after)
  BY <1>1, Neighbours, ListAssumption DEF Represents, Nodes
<1>3. /\ before \in Nodes /\ (before = h \/ (before \in Entries /\ ow[before] = h))
      /\ after \in Nodes /\ (after = h \/ (after \in Entries /\ ow[after] = h))
  <2>1. k \in Nat /\ k + 1 \in Nat
    BY Neighbours
  <2>2. QED
    BY <1>1, <2>1, Neighbours
<1>4. /\ m.next \in Memory /\ m.prev \in Memory
      /\ \A x \in Nodes : x # e /\ x # before /\ x # after
            => m.next[x] = nx[x] /\ m.prev[x] = pv[x]
  <2>1. /\ nx \in Memory /\ pv \in Memory /\ e \in Nodes
        /\ before \in Nodes /\ after \in Nodes
    BY <1>2, <1>3
  <2>2. \A b, a \in Nodes :
           LET m1 == Added(Mem(nx, pv), e, b, a)
           IN  /\ m1.next \in Memory /\ m1.prev \in Memory
               /\ \A x \in Nodes : x # e /\ x # b /\ x # a
                     => m1.next[x] = nx[x] /\ m1.prev[x] = pv[x]
    BY <2>1, AddedMemory
  <2>3. QED
    BY <2>1, <2>2
<1>5. Ring(m.next, m.prev, h, t)
  BY <1>1, <1>2, RingAdded
<1>6. ToSet(t) = ToSet(s) \cup {e}
  BY <1>2, InsertedMembers
<1>7. \A x \in Nodes : x # h /\ (x \in Entries => ow[x] \notin {h, Wild})
         => m.next[x] = nx[x] /\ m.prev[x] = pv[x]
  BY <1>2, <1>3, <1>4
<1>8. QED
  <2> DEFINE ow2 == [ow EXCEPT ![e] = h]
  <2>1. /\ ow \in [Entries -> lv \cup {Wild}]
        /\ ToSet(L[h]) = {d \in Entries : ow[d] = h}
    BY DEF Represents
  <2>2. /\ ow2 \in [Entries -> lv \cup {Wild}]
        /\ \A d \in Entries : ow2[d] # ow[d]
              => ow[d] \in {h, Wild} /\ ow2[d] \in {h, Wild}
        /\ {d \in Entries : ow2[d] = h} = ToSet(t)
    BY <1>1, <1>2, <1>6, <2>1
  <2>3. PICK nx2, pv2, ow3 : nx2 = m.next /\ pv2 = m.prev /\ ow3 = ow2
    OBVIOUS
  <2>4. /\ nx2 \in Memory /\ pv2 \in Memory /\ ow3 \in [Entries -> lv \cup {Wild}]
        /\ \A x \in Nodes : x # h /\ (x \in Entries => ow[x] \notin {h, Wild})
              => nx2[x] = nx[x] /\ pv2[x] = pv[x]
        /\ \A d \in Entries : ow3[d] # ow[d]
              => ow[d] \in {h, Wild} /\ ow3[d] \in {h, Wild}
        /\ Ring(nx2, pv2, h, t) /\ ToSet(t) = {d \in Entries : ow3[d] = h}
    BY <1>4, <1>5, <1>7, <2>2, <2>3
  <2>5. Represents(nx2, pv2, lv, ow3, [L EXCEPT ![h] = t])
    BY <2>4, OneRingWritten
  <2>6. QED
    BY <2>3, <2>5

LEMMA DeleteRepresented ==
    ASSUME NEW nx, NEW pv, NEW lv, NEW ow, NEW L, Represents(nx, pv, lv, ow, L),
           NEW h \in lv, NEW p \in 1 .. Len(L[h]), NEW e, e = L[h][p],
           NEW m, m = Deleted(Mem(nx, pv), e),
           NEW t, Removed(t, L[h], p)
    PROVE  Represents(m.next, m.prev, lv, [ow EXCEPT ![e] = Wild], [L EXCEPT ![h] = t])
<1>1. PICK s, before, after :
         s = L[h] /\ before = At(L[h], h, p - 1) /\ after = At(L[h], h, p + 1)
  OBVIOUS
<1>2. /\ nx \in Memory /\ pv \in Memory /\ h \in Heads /\ h # Wild
      /\ s \in Seq(Entries) /\ IsInjective(s) /\ Ring(nx, pv, h, s)
      /\ p \in 1 .. Len(s) /\ e = s[p]
      /\ e \in Entries /\ e \in Nodes /\ ow[e] = h
      /\ Removed(t, s, p)
  <2>1. e \in ToSet(L[h])
    BY Neighbours DEF ToSet
  <2>2. QED
    <3>1. nx \in Memory /\ pv \in Memory
      BY DEF Represents
    <3>2. /\ h \in Heads /\ Ring(nx, pv, h, s) /\ s \in Seq(Entries)
          /\ IsInjective(s) /\ e \in Entries /\ ow[e] = h
      BY <1>1, <2>1, Neighbours
    <3>3. QED
      BY <1>1, <3>1, <3>2, ListAssumption DEF Nodes
<1>3. /\ before \in Nodes /\ (before = h \/ (before \in Entries /\ ow[before] = h))
      /\ after \in Nodes /\ (after = h \/ (after \in Entries /\ ow[after] = h))
      /\ nx[e] = after /\ pv[e] = before
  <2>1. /\ p \in Nat /\ p - 1 \in Nat /\ p + 1 \in Nat /\ p \in 0 .. Len(L[h])
        /\ p - 1 \in 0 .. Len(L[h]) /\ (p - 1) + 1 = p
    BY Neighbours
  <2>2. At(L[h], h, p) = e
    BY DEF At
  <2>3. nx[e] = after /\ pv[e] = before
    BY <1>1, <2>1, <2>2, Neighbours
  <2>4. QED
    BY <1>1, <2>1, <2>3, Neighbours
<1>4. /\ m.next \in Memory /\ m.prev \in Memory
      /\ \A x \in Nodes : x # after /\ x # before
            => m.next[x] = nx[x] /\ m.prev[x] = pv[x]
  BY <1>2, <1>3, DeletedMemory
<1>5. Ring(m.next, m.prev, h, t)
  BY <1>2, RingDeleted
<1>6. ToSet(t) = ToSet(s) \ {e}
  BY <1>2, RemovedMembers
<1>7. \A x \in Nodes : x # h /\ (x \in Entries => ow[x] \notin {h, Wild})
         => m.next[x] = nx[x] /\ m.prev[x] = pv[x]
  BY <1>2, <1>3, <1>4
<1>8. QED
  <2> DEFINE ow2 == [ow EXCEPT ![e] = Wild]
  <2>1. /\ ow \in [Entries -> lv \cup {Wild}]
        /\ ToSet(L[h]) = {d \in Entries : ow[d] = h}
    BY DEF Represents
  <2>2. /\ ow2 \in [Entries -> lv \cup {Wild}]
        /\ \A d \in Entries : ow2[d] # ow[d]
              => ow[d] \in {h, Wild} /\ ow2[d] \in {h, Wild}
        /\ {d \in Entries : ow2[d] = h} = ToSet(t)
    BY <1>1, <1>2, <1>6, <2>1
  <2>3. PICK nx2, pv2, ow3 : nx2 = m.next /\ pv2 = m.prev /\ ow3 = ow2
    OBVIOUS
  <2>4. /\ nx2 \in Memory /\ pv2 \in Memory /\ ow3 \in [Entries -> lv \cup {Wild}]
        /\ \A x \in Nodes : x # h /\ (x \in Entries => ow[x] \notin {h, Wild})
              => nx2[x] = nx[x] /\ pv2[x] = pv[x]
        /\ \A d \in Entries : ow3[d] # ow[d]
              => ow[d] \in {h, Wild} /\ ow3[d] \in {h, Wild}
        /\ Ring(nx2, pv2, h, t) /\ ToSet(t) = {d \in Entries : ow3[d] = h}
    BY <1>4, <1>5, <1>7, <2>2, <2>3
  <2>5. Represents(nx2, pv2, lv, ow3, [L EXCEPT ![h] = t])
    BY <2>4, OneRingWritten
  <2>6. QED
    BY <2>3, <2>5

\* Writes into nodes that are in no ring.
LEMMA NoRingWritten ==
    ASSUME NEW nx, NEW pv, NEW lv, NEW ow, NEW L, Represents(nx, pv, lv, ow, L),
           NEW nx2 \in Memory, NEW pv2 \in Memory,
           \A x \in Nodes : x \in lv \/ (x \in Entries /\ ow[x] # Wild)
              => nx2[x] = nx[x] /\ pv2[x] = pv[x]
    PROVE  Represents(nx2, pv2, lv, ow, L)
<1>1. ASSUME NEW g \in lv
      PROVE  Ring(nx2, pv2, g, L[g])
  <2>1. g \in Heads /\ g # Wild
    BY ListAssumption DEF Represents
  <2>2. \A x \in Nodes : x = g \/ (x \in Entries /\ ow[x] = g)
           => nx2[x] = nx[x] /\ pv2[x] = pv[x]
    BY <2>1
  <2>3. QED
    BY <2>2, RingUntouched
<1>2. QED
  BY <1>1 DEF Represents

\* list_del_init, after it has taken the entry out.
LEMMA EntryInitialised ==
    ASSUME NEW nx, NEW pv, NEW lv, NEW ow, NEW L, Represents(nx, pv, lv, ow, L),
           NEW e \in Entries, ow[e] = Wild,
           NEW m, m = Initialised(Mem(nx, pv), e)
    PROVE  Represents(m.next, m.prev, lv, ow, L)
<1>1. nx \in Memory /\ pv \in Memory /\ e \in Nodes /\ e \notin lv
  BY ListAssumption DEF Represents, Nodes
<1>2. /\ m.next \in Memory /\ m.prev \in Memory
      /\ \A x \in Nodes : x # e => m.next[x] = nx[x] /\ m.prev[x] = pv[x]
  BY <1>1, InitialisedMemory
<1>3. PICK nx2, pv2 : nx2 = m.next /\ pv2 = m.prev
  OBVIOUS
<1>4. /\ nx2 \in Memory /\ pv2 \in Memory
      /\ \A x \in Nodes : x \in lv \/ (x \in Entries /\ ow[x] # Wild)
            => nx2[x] = nx[x] /\ pv2[x] = pv[x]
  BY <1>1, <1>2, <1>3
<1>5. Represents(nx2, pv2, lv, ow, L)
  BY <1>4, NoRingWritten
<1>6. QED
  BY <1>3, <1>5

\* INIT_LIST_HEAD makes an empty list.
LEMMA HeadInitialised ==
    ASSUME NEW nx, NEW pv, NEW lv, NEW ow, NEW L, Represents(nx, pv, lv, ow, L),
           NEW h \in Heads, h \notin lv,
           NEW m, m = Initialised(Mem(nx, pv), h)
    PROVE  Represents(m.next, m.prev, lv \cup {h}, ow, L)
<1>1. /\ nx \in Memory /\ pv \in Memory /\ h \in Nodes /\ h \notin Entries
      /\ h # Wild /\ L[h] = <<>>
  BY ListAssumption DEF Represents, Nodes
<1>2. /\ m.next \in Memory /\ m.prev \in Memory /\ m.next[h] = h /\ m.prev[h] = h
      /\ \A x \in Nodes : x # h => m.next[x] = nx[x] /\ m.prev[x] = pv[x]
  BY <1>1, InitialisedMemory
<1>3. PICK nx2, pv2 : nx2 = m.next /\ pv2 = m.prev
  OBVIOUS
<1>4. /\ nx2 \in Memory /\ pv2 \in Memory /\ nx2[h] = h /\ pv2[h] = h
      /\ \A x \in Nodes : x \in lv \/ (x \in Entries /\ ow[x] # Wild)
            => nx2[x] = nx[x] /\ pv2[x] = pv[x]
  BY <1>1, <1>2, <1>3
<1>5. Represents(nx2, pv2, lv, ow, L)
  BY <1>4, NoRingWritten
<1>6. Ring(nx2, pv2, h, L[h])
  <2>1. L[h] \in Seq(Entries) /\ Len(L[h]) = 0 /\ IsInjective(L[h])
    BY <1>1 DEF IsInjective
  <2>2. At(L[h], h, 0) = h /\ At(L[h], h, 1) = h
    BY <2>1 DEF At
  <2>3. QED
    BY <1>4, <2>1, <2>2 DEF Ring
<1>7. ToSet(L[h]) = {e \in Entries : ow[e] = h}
  <2>1. ToSet(L[h]) = {}
    BY <1>1 DEF ToSet
  <2>2. \A e \in Entries : ow[e] # h
    BY <1>1 DEF Represents
  <2>3. QED
    BY <2>1, <2>2
<1>8. Represents(nx2, pv2, lv \cup {h}, ow, L)
  BY <1>5, <1>6, <1>7 DEF Represents
<1>9. QED
  BY <1>3, <1>8

\* The sequences that the operations of ListSeq make.
LEMMA FrontInserted ==
    ASSUME NEW s \in Seq(Entries), NEW e \in Entries
    PROVE  Inserted(<<e>> \o s, s, e, 0)
<1>1. /\ <<e>> \in Seq(Entries) /\ Len(<<e>>) = 1 /\ <<e>>[1] = e /\ Len(s) \in Nat
  BY LenProperties
<1>2. /\ <<e>> \o s \in Seq(Entries) /\ Len(<<e>> \o s) = 1 + Len(s)
      /\ \A i \in 1 .. Len(s) + 1 :
            (<<e>> \o s)[i] = IF i <= 1 THEN <<e>>[i] ELSE s[i - 1]
  BY <1>1, ConcatProperties
<1>3. \A i \in 1 .. Len(s) + 1 :
         (<<e>> \o s)[i] = IF i <= 0 THEN s[i] ELSE IF i = 0 + 1 THEN e ELSE s[i - 1]
  BY <1>1, <1>2
<1>4. QED
  BY <1>1, <1>2, <1>3 DEF Inserted

LEMMA BackInserted ==
    ASSUME NEW s \in Seq(Entries), NEW e \in Entries
    PROVE  Inserted(Append(s, e), s, e, Len(s))
<1>1. /\ Append(s, e) \in Seq(Entries) /\ Len(s) \in Nat
      /\ Len(Append(s, e)) = Len(s) + 1
      /\ \A i \in 1 .. Len(s) : Append(s, e)[i] = s[i]
      /\ Append(s, e)[Len(s) + 1] = e
  BY AppendProperties, LenProperties
<1>2. \A i \in 1 .. Len(s) + 1 :
         Append(s, e)[i] = IF i <= Len(s) THEN s[i]
                           ELSE IF i = Len(s) + 1 THEN e ELSE s[i - 1]
  BY <1>1
<1>3. QED
  BY <1>1, <1>2 DEF Inserted

LEMMA PlaceRemoved ==
    ASSUME NEW s \in Seq(Entries), NEW p \in 1 .. Len(s)
    PROVE  Removed(RemoveAt(s, p), s, p)
<1> DEFINE n == Len(s)
           u == SubSeq(s, 1, p - 1)
           v == SubSeq(s, p + 1, n)
<1>1. n \in Nat /\ p \in 1 .. n
  BY LenProperties
<1>2. /\ u \in Seq(Entries) /\ Len(u) = p - 1
      /\ \A i \in 1 .. p - 1 : u[i] = s[i]
  BY <1>1, SubSeqProperties
<1>3. /\ v \in Seq(Entries) /\ Len(v) = n - p
      /\ \A i \in 1 .. n - p : v[i] = s[p + i]
  BY <1>1, SubSeqProperties
<1>4. RemoveAt(s, p) = u \o v
  BY DEF RemoveAt
<1> HIDE DEF n, u, v
<1>5. /\ u \o v \in Seq(Entries) /\ Len(u \o v) = n - 1
      /\ \A i \in 1 .. n - 1 :
            (u \o v)[i] = IF i <= p - 1 THEN u[i] ELSE v[i - (p - 1)]
  BY <1>1, <1>2, <1>3, ConcatProperties
<1>6. ASSUME NEW i \in 1 .. n - 1
      PROVE  (u \o v)[i] = IF i < p THEN s[i] ELSE s[i + 1]
  <2>1. CASE i < p
    BY <1>1, <1>2, <1>5, <2>1
  <2>2. CASE i >= p
    <3>1. i - (p - 1) \in 1 .. n - p /\ p + (i - (p - 1)) = i + 1
      BY <1>1, <2>2
    <3>2. (u \o v)[i] = v[i - (p - 1)]
      BY <1>1, <1>5, <2>2
    <3>3. v[i - (p - 1)] = s[p + (i - (p - 1))]
      BY <1>3, <3>1
    <3>4. QED
      BY <1>1, <2>2, <3>1, <3>2, <3>3
  <2>3. i < p \/ i >= p
    BY <1>1
  <2>4. QED
    BY <2>1, <2>2, <2>3
<1>7. QED
  BY <1>4, <1>5, <1>6 DEF Removed, n

-----------------------------------------------------------------------------
(* The operations on the lists.                                            *)

\* list_add: e goes to the front of h.
LEMMA FrontRepresented ==
    ASSUME NEW nx, NEW pv, NEW lv, NEW ow, NEW L, Represents(nx, pv, lv, ow, L),
           NEW h \in lv, NEW e \in Entries, ow[e] = Wild,
           NEW m, m = Added(Mem(nx, pv), e, h, nx[h])
    PROVE  Represents(m.next, m.prev, lv, [ow EXCEPT ![e] = h],
                      [L EXCEPT ![h] = <<e>> \o @])
<1>1. /\ L[h] \in Seq(Entries) /\ Len(L[h]) \in Nat /\ h \in Heads
      /\ \A i \in 0 .. Len(L[h]) : nx[At(L[h], h, i)] = At(L[h], h, i + 1)
  BY Neighbours
<1>2. PICK k \in 0 .. Len(L[h]) : k = 0
  BY <1>1
<1>3. h = At(L[h], h, k)
  BY <1>2 DEF At
<1>4. nx[h] = At(L[h], h, k + 1)
  BY <1>1, <1>3
<1>5. PICK t : t = <<e>> \o L[h]
  OBVIOUS
<1>6. Inserted(t, L[h], e, k)
  BY <1>1, <1>2, <1>5, FrontInserted
<1>7. [L EXCEPT ![h] = <<e>> \o @] = [L EXCEPT ![h] = t]
  BY <1>5
<1>8. Represents(m.next, m.prev, lv, [ow EXCEPT ![e] = h], [L EXCEPT ![h] = t])
  <2>1. \A m1 : m1 = Added(Mem(nx, pv), e, At(L[h], h, k), At(L[h], h, k + 1)) =>
           Represents(m1.next, m1.prev, lv, [ow EXCEPT ![e] = h], [L EXCEPT ![h] = t])
    BY <1>6, AddRepresented, Zenon
  <2>2. QED
    BY <1>3, <1>4, <2>1
<1>9. QED
  BY <1>7, <1>8

\* list_add_tail: e goes to the back of h.
LEMMA BackRepresented ==
    ASSUME NEW nx, NEW pv, NEW lv, NEW ow, NEW L, Represents(nx, pv, lv, ow, L),
           NEW h \in lv, NEW e \in Entries, ow[e] = Wild,
           NEW m, m = AddedTail(Mem(nx, pv), e, h)
    PROVE  Represents(m.next, m.prev, lv, [ow EXCEPT ![e] = h],
                      [L EXCEPT ![h] = Append(@, e)])
<1>1. /\ L[h] \in Seq(Entries) /\ Len(L[h]) \in Nat /\ h \in Heads
      /\ \A i \in 0 .. Len(L[h]) : pv[At(L[h], h, i + 1)] = At(L[h], h, i)
  BY Neighbours
<1>2. Len(L[h]) \in 0 .. Len(L[h])
  BY <1>1
<1>3. At(L[h], h, Len(L[h]) + 1) = h
  BY <1>1 DEF At
<1>4. pv[h] = At(L[h], h, Len(L[h]))
  BY <1>1, <1>2, <1>3
<1>5. Inserted(Append(L[h], e), L[h], e, Len(L[h]))
  BY <1>1, BackInserted
<1>6. PICK t : t = Append(L[h], e)
  OBVIOUS
<1>7. [L EXCEPT ![h] = Append(@, e)] = [L EXCEPT ![h] = t]
  BY <1>6
<1>8. m = Added(Mem(nx, pv), e, pv[h], h)
  BY DEF AddedTail, Mem
<1>9. Represents(m.next, m.prev, lv, [ow EXCEPT ![e] = h], [L EXCEPT ![h] = t])
  BY <1>2, <1>3, <1>4, <1>5, <1>6, <1>8, AddRepresented
<1>10. QED
  BY <1>7, <1>9

\* list_del: the entry at place p of h goes.
LEMMA PlaceRepresented ==
    ASSUME NEW nx, NEW pv, NEW lv, NEW ow, NEW L, Represents(nx, pv, lv, ow, L),
           NEW h \in lv, NEW p \in 1 .. Len(L[h]), NEW e, e = L[h][p],
           NEW m, m = Deleted(Mem(nx, pv), e)
    PROVE  Represents(m.next, m.prev, lv, [ow EXCEPT ![e] = Wild],
                      [L EXCEPT ![h] = RemoveAt(@, p)])
<1>1. L[h] \in Seq(Entries) /\ h \in Heads
  BY Neighbours
<1>2. PICK t : t = RemoveAt(L[h], p)
  OBVIOUS
<1>3. Removed(t, L[h], p)
  BY <1>1, <1>2, PlaceRemoved
<1>4. [L EXCEPT ![h] = RemoveAt(@, p)] = [L EXCEPT ![h] = t]
  BY <1>2
<1>5. Represents(m.next, m.prev, lv, [ow EXCEPT ![e] = Wild], [L EXCEPT ![h] = t])
  BY <1>3, DeleteRepresented
<1>6. QED
  BY <1>4, <1>5

\* list_splice of a list that is not empty: its head is a list no more.
LEMMA SpliceRepresented ==
    ASSUME NEW lv, NEW ow, NEW L, Represents(next, prev, lv, ow, L),
           NEW l \in lv, NEW h \in lv, l # h, next[l] # l,
           NEW m, m = Spliced(l, h),
           NEW ow2, ow2 = [e \in Entries |-> IF ow[e] = l THEN h ELSE ow[e]]
    PROVE  Represents(m.next, m.prev, lv \ {l}, ow2,
                      [L EXCEPT ![h] = L[l] \o @, ![l] = <<>>])
<1>1. PICK s, s2, t : s = L[l] /\ s2 = L[h] /\ t = s \o s2
  OBVIOUS
<1>2. /\ next \in Memory /\ prev \in Memory /\ lv \subseteq Heads
      /\ ow \in [Entries -> lv \cup {Wild}]
      /\ L \in [Heads -> Seq(Entries)]
      /\ \A g \in Heads \ lv : L[g] = <<>>
      /\ l \in Heads /\ h \in Heads /\ l # Wild /\ h # Wild
      /\ l \notin Entries /\ h \notin Entries
  BY ListAssumption DEF Represents
<1>3. /\ s \in Seq(Entries) /\ Len(s) \in Nat /\ DOMAIN s = 1 .. Len(s)
      /\ Ring(next, prev, l, s) /\ ToSet(s) = {e \in Entries : ow[e] = l}
      /\ \A i \in Nat : At(s, l, i) \in Nodes /\
            (At(s, l, i) = l \/ (At(s, l, i) \in Entries /\ ow[At(s, l, i)] = l))
      /\ \A i \in 0 .. Len(s) : /\ next[At(s, l, i)] = At(s, l, i + 1)
                                /\ prev[At(s, l, i + 1)] = At(s, l, i)
  BY <1>1, Neighbours
<1>4. /\ s2 \in Seq(Entries) /\ Len(s2) \in Nat /\ DOMAIN s2 = 1 .. Len(s2)
      /\ Ring(next, prev, h, s2) /\ ToSet(s2) = {e \in Entries : ow[e] = h}
      /\ \A i \in Nat : At(s2, h, i) \in Nodes /\
            (At(s2, h, i) = h \/ (At(s2, h, i) \in Entries /\ ow[At(s2, h, i)] = h))
      /\ \A i \in 0 .. Len(s2) : next[At(s2, h, i)] = At(s2, h, i + 1)
  BY <1>1, Neighbours
<1>5. Len(s) # 0
  <2>1. SUFFICES ASSUME Len(s) = 0
                 PROVE  FALSE
    OBVIOUS
  <2>2. At(s, l, 0) = l /\ At(s, l, 0 + 1) = l
    BY <2>1 DEF At
  <2>3. QED
    BY <1>3, <2>1, <2>2
<1>6. /\ t \in Seq(Entries) /\ Len(t) = Len(s) + Len(s2)
      /\ \A i \in 1 .. Len(s) + Len(s2) :
            t[i] = IF i <= Len(s) THEN s[i] ELSE s2[i - Len(s)]
  <2>1. s \in Seq(Entries) /\ s2 \in Seq(Entries)
    BY <1>3, <1>4
  <2>2. QED
    BY <1>1, <2>1, ConcatProperties
<1>7. Ring(m.next, m.prev, h, t)
  <2>1. ToSet(s) \cap ToSet(s2) = {}
    BY <1>3, <1>4
  <2>2. /\ next \in Memory /\ prev \in Memory /\ l \in Heads /\ h \in Heads
        /\ Ring(next, prev, l, s) /\ Ring(next, prev, h, s2)
    BY <1>2, <1>3, <1>4
  <2>3. QED
    BY <1>5, <1>6, <2>1, <2>2, RingSpliced
<1>8. ToSet(t) = ToSet(s) \cup ToSet(s2)
  <2> DEFINE n == Len(s)
             q == Len(s2)
  <2>1. /\ n \in Nat /\ q \in Nat
        /\ ToSet(s) = {s[i] : i \in 1 .. n}
        /\ ToSet(s2) = {s2[i] : i \in 1 .. q}
        /\ ToSet(t) = {t[i] : i \in 1 .. n + q}
        /\ \A i \in 1 .. n + q : t[i] = IF i <= n THEN s[i] ELSE s2[i - n]
    BY <1>3, <1>4, <1>6, LenProperties DEF ToSet
  <2> HIDE DEF n, q
  <2>2. ASSUME NEW i \in 1 .. n + q
        PROVE  t[i] \in ToSet(s) \cup ToSet(s2)
    <3>1. CASE i <= n
      <4>1. i \in 1 .. n /\ t[i] = s[i]
        BY <2>1, <3>1
      <4>2. QED
        BY <2>1, <4>1
    <3>2. CASE i > n
      <4>1. i - n \in 1 .. q /\ t[i] = s2[i - n]
        BY <2>1, <3>2
      <4>2. QED
        BY <2>1, <4>1
    <3>3. QED
      BY <2>1, <3>1, <3>2
  <2>3. ASSUME NEW i \in 1 .. n
        PROVE  s[i] \in ToSet(t)
    <3>1. i \in 1 .. n + q /\ t[i] = s[i]
      BY <2>1
    <3>2. QED
      BY <2>1, <3>1
  <2>4. ASSUME NEW i \in 1 .. q
        PROVE  s2[i] \in ToSet(t)
    <3>1. n + i \in 1 .. n + q /\ t[n + i] = s2[i]
      <4>1. n + i \in 1 .. n + q /\ ~(n + i <= n) /\ (n + i) - n = i
        BY <2>1
      <4>2. QED
        BY <2>1, <4>1
    <3>2. QED
      BY <2>1, <3>1
  <2>5. QED
    BY <2>1, <2>2, <2>3, <2>4
<1>9. /\ m.next \in Memory /\ m.prev \in Memory
      /\ \A x \in Nodes : x # h /\ (x \in Entries => ow[x] \notin {l, h})
            => m.next[x] = next[x] /\ m.prev[x] = prev[x]
  <2>1. 0 \in 0 .. Len(s) /\ Len(s) \in 0 .. Len(s) /\ 0 \in 0 .. Len(s2)
    BY <1>3, <1>4
  <2>2. /\ At(s, l, 0) = l /\ At(s, l, Len(s) + 1) = l /\ At(s2, h, 0) = h
        /\ At(s, l, 0 + 1) = s[1] /\ At(s, l, Len(s)) = s[Len(s)]
    BY <1>3, <1>5 DEF At
  <2>3. next[l] = s[1] /\ prev[l] = s[Len(s)] /\ next[h] = At(s2, h, 0 + 1)
    BY <1>3, <1>4, <2>1, <2>2
  <2>4. PICK a, b, c : a = next[l] /\ b = prev[l] /\ c = next[h]
    OBVIOUS
  <2>5. a \in ToSet(s) /\ b \in ToSet(s)
    BY <1>3, <1>5, <2>3, <2>4 DEF ToSet
  <2>6. c \in Nodes /\ (c = h \/ (c \in Entries /\ ow[c] = h))
    BY <1>4, <2>3, <2>4
  <2>7. /\ a \in Nodes /\ a \in Entries /\ ow[a] = l
        /\ b \in Nodes /\ b \in Entries /\ ow[b] = l
    BY <1>3, <2>5 DEF Nodes
  <2>8. /\ m.next = [next EXCEPT ![h] = a, ![b] = c]
        /\ m.prev = [prev EXCEPT ![a] = h, ![c] = b]
    BY <2>4 DEF Spliced, Mem
  <2>9. h \in Nodes
    BY <1>2 DEF Nodes
  <2>10. /\ m.next \in Memory
         /\ \A x \in Nodes : x # h /\ x # b => m.next[x] = next[x]
    BY ZenonT(40), <1>2, <2>6, <2>7, <2>8, <2>9 DEF Memory
  <2>11. /\ m.prev \in Memory
         /\ \A x \in Nodes : x # a /\ x # c => m.prev[x] = prev[x]
    BY ZenonT(40), <1>2, <2>6, <2>7, <2>8, <2>9 DEF Memory
  <2>12. QED
    BY <2>6, <2>7, <2>10, <2>11
<1>10. /\ ow2 \in [Entries -> (lv \ {l}) \cup {Wild}]
       /\ \A e \in Entries : ow2[e] = h <=> ow[e] \in {l, h}
       /\ \A e \in Entries, g \in lv \ {l, h} : ow2[e] = g <=> ow[e] = g
  BY <1>2
<1>11. PICK nx2, pv2, ow3, L2 :
          /\ nx2 = m.next /\ pv2 = m.prev /\ ow3 = ow2
          /\ L2 = [L EXCEPT ![h] = L[l] \o @, ![l] = <<>>]
  OBVIOUS
<1>12. /\ L2 \in [Heads -> Seq(Entries)] /\ L2[h] = t /\ L2[l] = <<>>
       /\ \A g \in Heads \ {l, h} : L2[g] = L[g]
  <2>1. L2 = [L EXCEPT ![h] = t, ![l] = <<>>]
    BY <1>1, <1>11
  <2>2. <<>> \in Seq(Entries)
    OBVIOUS
  <2>3. QED
    BY <1>2, <1>6, <2>1, <2>2
<1>13. ASSUME NEW g \in lv \ {l, h}
       PROVE  Ring(nx2, pv2, g, L2[g]) /\ ToSet(L2[g]) = {e \in Entries : ow3[e] = g}
  <2>1. g \in Heads /\ g \notin Entries /\ L2[g] = L[g]
    BY <1>2, <1>12, ListAssumption
  <2>2. \A x \in Nodes : x = g \/ (x \in Entries /\ ow[x] = g)
           => nx2[x] = next[x] /\ pv2[x] = prev[x]
    BY <1>2, <1>9, <1>11, <2>1
  <2>3. Ring(nx2, pv2, g, L[g])
    BY <2>2, RingUntouched
  <2>4. ToSet(L[g]) = {e \in Entries : ow[e] = g}
    BY DEF Represents
  <2>5. {e \in Entries : ow3[e] = g} = {e \in Entries : ow[e] = g}
    BY <1>10, <1>11
  <2>6. QED
    BY <2>1, <2>3, <2>4, <2>5
<1>14. Ring(nx2, pv2, h, L2[h]) /\ ToSet(L2[h]) = {e \in Entries : ow3[e] = h}
  <2>1. ToSet(t) = {e \in Entries : ow3[e] = h}
    BY <1>3, <1>4, <1>8, <1>10, <1>11
  <2>2. QED
    BY <1>7, <1>11, <1>12, <2>1
<1>15. \A g \in lv \ {l} : /\ Ring(nx2, pv2, g, L2[g])
                           /\ ToSet(L2[g]) = {e \in Entries : ow3[e] = g}
  BY <1>13, <1>14
<1>16. \A g \in Heads \ (lv \ {l}) : L2[g] = <<>>
  BY <1>2, <1>12
<1>17. Represents(nx2, pv2, lv \ {l}, ow3, L2)
  <2>1. nx2 \in Memory /\ pv2 \in Memory /\ ow3 \in [Entries -> (lv \ {l}) \cup {Wild}]
    BY <1>9, <1>10, <1>11
  <2>2. lv \ {l} \subseteq Heads
    BY <1>2
  <2>3. QED
    BY <1>12, <1>15, <1>16, <2>1, <2>2 DEF Represents
<1>18. QED
  BY <1>11, <1>17

-----------------------------------------------------------------------------
(* The invariant.                                                          *)

LoopState == [head : Heads \cup {Wild}, pos : Nodes \cup {Wild},
              n : Nodes \cup {Wild}, seen : Seq(Entries), all : Seq(Entries)]

\* The entries that the loop lp has met and left in the list are the first d of
\* it, those that it has not met are the others.
LoopAt(L, lp, d) ==
    LET s == L[lp.head]
        k == Len(lp.seen)
    IN  /\ Len(lp.all) = k + (Len(s) - d)
        /\ \A i \in 1 .. k : lp.seen[i] = lp.all[i]
        /\ \A i \in d + 1 .. Len(s) : s[i] = lp.all[k + (i - d)]
        /\ lp.pos = At(s, lp.head, d + 1)
        /\ d < Len(s) => lp.n = At(s, lp.head, d + 2)

Looping(lv, L, lp) ==
    /\ lp \in LoopState
    /\ lp.head \in lv
    /\ \E d \in 0 .. Len(L[lp.head]) : LoopAt(L, lp, d)

ListInv == MemoryInv /\ (loop = NoLoop \/ Looping(live, Lists, loop))

\* A step of the loop, whose body keeps the current entry or takes it out.
LEMMA LoopAdvanced ==
    ASSUME NEW lv, NEW L, NEW lp, Looping(lv, L, lp), lp.pos # lp.head,
           L \in [Heads -> Seq(Entries)], IsInjective(L[lp.head]),
           NEW nx, NEW pv, NEW ow, NEW L2, Represents(nx, pv, lv, ow, L2),
           \/ L2[lp.head] = L[lp.head]
           \/ \E p \in 1 .. Len(L[lp.head]) :
                 /\ L[lp.head][p] = lp.pos
                 /\ Removed(L2[lp.head], L[lp.head], p),
           NEW lp2, lp2 = [lp EXCEPT !.pos = lp.n, !.n = nx[lp.n],
                                     !.seen = Append(@, lp.pos)]
    PROVE  Looping(lv, L2, lp2)
<1>1. PICK h, s, s2, k, seen, all, pos, n :
         /\ h = lp.head /\ s = L[h] /\ s2 = L2[h] /\ k = Len(seen)
         /\ seen = lp.seen /\ all = lp.all /\ pos = lp.pos /\ n = lp.n
  OBVIOUS
<1>2. /\ h \in lv /\ lp \in LoopState /\ nx \in Memory /\ h \in Heads
      /\ h \notin Entries
  BY <1>1, ListAssumption DEF Looping, Represents
<1>3. /\ s \in Seq(Entries) /\ IsInjective(s)
      /\ Len(s) \in Nat /\ DOMAIN s = 1 .. Len(s)
      /\ seen \in Seq(Entries) /\ k \in Nat /\ all \in Seq(Entries)
  <2>1. s \in Seq(Entries) /\ seen \in Seq(Entries) /\ all \in Seq(Entries)
    BY <1>1, <1>2 DEF LoopState
  <2>2. QED
    BY <1>1, <2>1, LenProperties
<1>4. PICK d \in 0 .. Len(s) :
         /\ Len(all) = k + (Len(s) - d)
         /\ \A i \in 1 .. k : seen[i] = all[i]
         /\ \A i \in d + 1 .. Len(s) : s[i] = all[k + (i - d)]
         /\ pos = At(s, h, d + 1)
         /\ d < Len(s) => n = At(s, h, d + 2)
  BY <1>1 DEF Looping, LoopAt
<1>5. pos # h
  BY <1>1
<1>6. d < Len(s) /\ pos = s[d + 1] /\ pos \in Entries
  <2>1. d + 1 \in 1 .. Len(s) /\ pos = s[d + 1]
    BY <1>3, <1>4, <1>5 DEF At
  <2>2. QED
    BY <1>3, <2>1, ElementOfSeq
<1>7. n = At(s, h, d + 2) /\ n \in Nodes
  <2>1. n = At(s, h, d + 2) /\ d + 2 \in Nat
    BY <1>3, <1>4, <1>6
  <2>2. QED
    BY <1>2, <1>3, <2>1, RingNodes
<1>8. /\ lp2.head = h /\ lp2.all = all /\ lp2.pos = n /\ lp2.n = nx[n]
      /\ lp2.seen = Append(seen, pos) /\ lp2 \in LoopState
  <2>1. nx[n] \in Nodes \cup {Wild}
    BY <1>2, <1>7 DEF Memory
  <2>2. Append(seen, pos) \in Seq(Entries)
    BY <1>3, <1>6, AppendProperties
  <2>3. QED
    BY <1>1, <1>2, <1>7, <2>1, <2>2 DEF LoopState
<1>9. PICK seen2 : seen2 = Append(seen, pos)
  OBVIOUS
<1>10. /\ Len(seen2) = k + 1
       /\ \A i \in 1 .. k + 1 : seen2[i] = all[i]
  <2>1. /\ Len(seen2) = k + 1 /\ seen2[k + 1] = pos
        /\ \A i \in 1 .. k : seen2[i] = seen[i]
    BY <1>1, <1>3, <1>6, <1>9, AppendProperties
  <2>2. pos = all[k + 1]
    <3>1. d + 1 \in d + 1 .. Len(s) /\ k + ((d + 1) - d) = k + 1
      BY <1>3, <1>6
    <3>2. s[d + 1] = all[k + ((d + 1) - d)]
      BY <1>4, <3>1
    <3>3. QED
      BY <1>6, <3>1, <3>2
  <2>3. QED
    BY <1>3, <1>4, <2>1, <2>2
<1>11. /\ s2 \in Seq(Entries)
       /\ \A i \in 0 .. Len(s2) : nx[At(s2, h, i)] = At(s2, h, i + 1)
  BY <1>1, <1>2, Neighbours
<1>12. ASSUME s2 = s
       PROVE  \E d2 \in 0 .. Len(s2) :
                 /\ Len(all) = (k + 1) + (Len(s2) - d2)
                 /\ \A i \in d2 + 1 .. Len(s2) : s2[i] = all[(k + 1) + (i - d2)]
                 /\ n = At(s2, h, d2 + 1)
                 /\ d2 < Len(s2) => nx[n] = At(s2, h, d2 + 2)
  <2>1. d + 1 \in 0 .. Len(s2) /\ Len(all) = (k + 1) + (Len(s2) - (d + 1))
    BY <1>3, <1>4, <1>6, <1>12
  <2>2. ASSUME NEW i \in (d + 1) + 1 .. Len(s2)
        PROVE  s2[i] = all[(k + 1) + (i - (d + 1))]
    <3>1. /\ d \in Nat /\ k \in Nat /\ Len(s) \in Nat /\ Len(s2) = Len(s)
          /\ i \in (d + 1) + 1 .. Len(s2)
      BY <1>3, <1>12
    <3>2. i \in d + 1 .. Len(s)
      BY <3>1
    <3>3. (k + 1) + (i - (d + 1)) = k + (i - d)
      BY <3>1
    <3>4. QED
      BY <1>4, <1>12, <3>2, <3>3
  <2>3. n = At(s2, h, (d + 1) + 1)
    BY <1>7, <1>12
  <2>4. ASSUME d + 1 < Len(s2)
        PROVE  nx[n] = At(s2, h, (d + 1) + 2)
    <3>1. d + 2 \in 0 .. Len(s2) /\ (d + 2) + 1 = (d + 1) + 2
      BY <1>3, <1>12, <2>4
    <3>2. nx[At(s2, h, d + 2)] = At(s2, h, (d + 2) + 1)
      BY <1>11, <3>1
    <3>3. QED
      BY <1>7, <1>12, <3>1, <3>2
  <2>5. QED
    BY <2>1, <2>2, <2>3, <2>4
<1>13. ASSUME NEW p \in 1 .. Len(s), s[p] = pos, Removed(s2, s, p)
       PROVE  \E d2 \in 0 .. Len(s2) :
                 /\ Len(all) = (k + 1) + (Len(s2) - d2)
                 /\ \A i \in d2 + 1 .. Len(s2) : s2[i] = all[(k + 1) + (i - d2)]
                 /\ n = At(s2, h, d2 + 1)
                 /\ d2 < Len(s2) => nx[n] = At(s2, h, d2 + 2)
  <2>1. p = d + 1
    BY <1>3, <1>6, <1>13 DEF IsInjective
  <2>2. /\ Len(s2) = Len(s) - 1
        /\ \A i \in 1 .. Len(s) - 1 : s2[i] = IF i < p THEN s[i] ELSE s[i + 1]
    BY <1>13 DEF Removed
  <2>3. d \in 0 .. Len(s2) /\ Len(all) = (k + 1) + (Len(s2) - d)
    BY <1>3, <1>4, <1>6, <2>2
  <2>4. ASSUME NEW i \in d + 1 .. Len(s2)
        PROVE  s2[i] = all[(k + 1) + (i - d)]
    <3>1. /\ i \in 1 .. Len(s) - 1 /\ ~(i < p)
          /\ i + 1 \in d + 1 .. Len(s) /\ (k + 1) + (i - d) = k + ((i + 1) - d)
      BY <1>3, <2>1, <2>2
    <3>2. s2[i] = s[i + 1]
      BY <2>2, <3>1
    <3>3. QED
      BY <1>4, <3>1, <3>2
  <2>5. n = At(s2, h, d + 1)
    <3>1. CASE d + 2 <= Len(s)
      <4>1. /\ d + 2 \in 1 .. Len(s) /\ d + 1 \in 1 .. Len(s2) /\ ~(d + 1 < p)
            /\ d + 1 \in 1 .. Len(s) - 1 /\ (d + 1) + 1 = d + 2
        BY <1>3, <2>1, <2>2, <3>1
      <4>2. s2[d + 1] = s[d + 2]
        BY <2>2, <4>1
      <4>3. QED
        BY <1>7, <4>1, <4>2 DEF At
    <3>2. CASE d + 2 > Len(s)
      <4>1. d + 2 \notin 1 .. Len(s) /\ d + 1 \notin 1 .. Len(s2)
        BY <1>3, <2>2, <3>2
      <4>2. QED
        BY <1>7, <4>1 DEF At
    <3>3. d + 2 <= Len(s) \/ d + 2 > Len(s)
      BY <1>3
    <3>4. QED
      BY <3>1, <3>2, <3>3
  <2>6. ASSUME d < Len(s2)
        PROVE  nx[n] = At(s2, h, d + 2)
    <3>1. d + 1 \in 0 .. Len(s2) /\ (d + 1) + 1 = d + 2
      BY <1>3, <2>2, <2>6
    <3>2. nx[At(s2, h, d + 1)] = At(s2, h, (d + 1) + 1)
      BY <1>11, <3>1
    <3>3. QED
      BY <2>5, <3>1, <3>2
  <2>7. QED
    BY <2>3, <2>4, <2>5, <2>6
<1>14. \E d2 \in 0 .. Len(s2) :
          /\ Len(all) = (k + 1) + (Len(s2) - d2)
          /\ \A i \in d2 + 1 .. Len(s2) : s2[i] = all[(k + 1) + (i - d2)]
          /\ n = At(s2, h, d2 + 1)
          /\ d2 < Len(s2) => nx[n] = At(s2, h, d2 + 2)
  <2>1. \/ s2 = s
        \/ \E p \in 1 .. Len(s) : s[p] = pos /\ Removed(s2, s, p)
    BY <1>1
  <2>2. QED
    BY <1>12, <1>13, <2>1
<1>15. \E d2 \in 0 .. Len(L2[lp2.head]) : LoopAt(L2, lp2, d2)
  BY SMTT(30), <1>1, <1>8, <1>9, <1>10, <1>14 DEF LoopAt
<1>16. QED
  BY <1>2, <1>8, <1>15 DEF Looping

LEMMA ListInvInit == ListInit => ListInv
<1> SUFFICES ASSUME ListInit
             PROVE  ListInv
  OBVIOUS
<1>1. /\ next = [x \in Nodes |-> Wild] /\ prev = [x \in Nodes |-> Wild]
      /\ live = {} /\ owner = [e \in Entries |-> Wild] /\ loop = NoLoop
  BY DEF ListInit
<1>2. Lists = [h \in Heads |-> <<>>]
  BY <1>1 DEF Lists
<1>3. Lists \in [Heads -> Seq(Entries)]
  <2>1. <<>> \in Seq(Entries)
    OBVIOUS
  <2>2. QED
    BY <1>2, <2>1
<1>4. Represents(next, prev, live, owner, Lists)
  BY <1>1, <1>2, <1>3 DEF Represents, Memory
<1>5. QED
  BY <1>1, <1>4 DEF ListInv, MemoryInv

\* The list that an entry is in, and its place there.
LEMMA EntryPlace ==
    ASSUME NEW nx, NEW pv, NEW lv, NEW ow, NEW L, Represents(nx, pv, lv, ow, L),
           NEW e \in Entries, ow[e] # Wild
    PROVE  /\ ow[e] \in lv /\ ow[e] \in Heads
           /\ \E p \in 1 .. Len(L[ow[e]]) : L[ow[e]][p] = e
<1>1. ow[e] \in lv /\ ow[e] \in Heads
  BY DEF Represents
<1>2. e \in ToSet(L[ow[e]]) /\ DOMAIN L[ow[e]] = 1 .. Len(L[ow[e]])
  BY <1>1, Neighbours
<1>3. QED
  BY <1>1, <1>2 DEF ToSet

\* An entry without an owner is in no list.
LEMMA NoPlace ==
    ASSUME NEW nx, NEW pv, NEW lv, NEW ow, NEW L, Represents(nx, pv, lv, ow, L),
           NEW e \in Entries, ow[e] = Wild
    PROVE  \A h \in Heads : e \notin ToSet(L[h])
<1>1. \A h \in lv : h # Wild /\ ToSet(L[h]) = {d \in Entries : ow[d] = h}
  BY ListAssumption DEF Represents
<1>2. \A h \in Heads \ lv : ToSet(L[h]) = {}
  <2>1. ToSet(<<>>) = {}
    BY DEF ToSet
  <2>2. QED
    BY <2>1 DEF Represents
<1>3. QED
  BY <1>1, <1>2

LEMMA InitStep ==
    ASSUME MemoryInv, NEW h \in Heads, INIT_LIST_HEAD(h)
    PROVE  MemoryInv' /\ Lists' = Lists
<1>1. PICK m : m = Initialised(Mem(next, prev), h)
  OBVIOUS
<1>2. /\ h \notin live /\ next' = m.next /\ prev' = m.prev
      /\ live' = live \cup {h} /\ owner' = owner
  BY <1>1 DEF INIT_LIST_HEAD, Store, Now
<1>3. Represents(m.next, m.prev, live \cup {h}, owner, Lists)
  BY <1>1, <1>2, HeadInitialised DEF MemoryInv
<1>4. Represents(next', prev', live', owner', Lists)
  BY <1>2, <1>3
<1>5. QED
  BY <1>4, MemoryInvNext

LEMMA AddStep ==
    ASSUME MemoryInv, NEW h \in Heads, NEW e \in Entries, list_add(e, h)
    PROVE  MemoryInv' /\ Lists' = [Lists EXCEPT ![h] = <<e>> \o @]
<1>1. PICK m : m = Added(Mem(next, prev), e, h, next[h])
  OBVIOUS
<1>2. /\ h \in live /\ owner[e] = Wild /\ next' = m.next /\ prev' = m.prev
      /\ live' = live /\ owner' = [owner EXCEPT ![e] = h]
  BY <1>1 DEF list_add, Store, Now
<1>3. Represents(m.next, m.prev, live, [owner EXCEPT ![e] = h],
                 [Lists EXCEPT ![h] = <<e>> \o @])
  BY <1>1, <1>2, FrontRepresented DEF MemoryInv
<1>4. Represents(next', prev', live', owner', [Lists EXCEPT ![h] = <<e>> \o @])
  BY <1>2, <1>3
<1>5. QED
  BY <1>4, MemoryInvNext

LEMMA AddTailStep ==
    ASSUME MemoryInv, NEW h \in Heads, NEW e \in Entries, list_add_tail(e, h)
    PROVE  MemoryInv' /\ Lists' = [Lists EXCEPT ![h] = Append(@, e)]
<1>1. PICK m : m = AddedTail(Mem(next, prev), e, h)
  OBVIOUS
<1>2. /\ h \in live /\ owner[e] = Wild /\ next' = m.next /\ prev' = m.prev
      /\ live' = live /\ owner' = [owner EXCEPT ![e] = h]
  BY <1>1 DEF list_add_tail, Store, Now
<1>3. Represents(m.next, m.prev, live, [owner EXCEPT ![e] = h],
                 [Lists EXCEPT ![h] = Append(@, e)])
  BY <1>1, <1>2, BackRepresented DEF MemoryInv
<1>4. Represents(next', prev', live', owner', [Lists EXCEPT ![h] = Append(@, e)])
  BY <1>2, <1>3
<1>5. QED
  BY <1>4, MemoryInvNext

\* The two ways to remove an entry.
LEMMA RemovalRepresented ==
    ASSUME NEW nx, NEW pv, NEW lv, NEW ow, NEW L, Represents(nx, pv, lv, ow, L),
           NEW h \in lv, NEW p \in 1 .. Len(L[h]), NEW e \in Entries, e = L[h][p],
           NEW m, \/ m = Deleted(Mem(nx, pv), e)
                  \/ m = Initialised(Deleted(Mem(nx, pv), e), e)
    PROVE  Represents(m.next, m.prev, lv, [ow EXCEPT ![e] = Wild],
                      [L EXCEPT ![h] = RemoveAt(@, p)])
<1>1. PICK d, ow2, L2 : /\ d = Deleted(Mem(nx, pv), e)
                        /\ ow2 = [ow EXCEPT ![e] = Wild]
                        /\ L2 = [L EXCEPT ![h] = RemoveAt(@, p)]
  OBVIOUS
<1>2. Represents(d.next, d.prev, lv, ow2, L2)
  BY <1>1, PlaceRepresented
<1>3. ow2[e] = Wild
  BY <1>1 DEF Represents
<1>4. CASE m = Deleted(Mem(nx, pv), e)
  BY <1>1, <1>2, <1>4
<1>5. CASE m = Initialised(Deleted(Mem(nx, pv), e), e)
  <2>1. d = Mem(d.next, d.prev)
    BY <1>1 DEF Deleted, Mem
  <2>2. PICK m1 : m1 = Initialised(Mem(d.next, d.prev), e)
    OBVIOUS
  <2>3. Represents(m1.next, m1.prev, lv, ow2, L2)
    BY <1>2, <1>3, <2>2, EntryInitialised
  <2>4. m1 = m
    BY <1>1, <1>5, <2>1, <2>2
  <2>5. QED
    BY <1>1, <2>3, <2>4
<1>6. QED
  BY <1>4, <1>5

LEMMA RemovalStep ==
    ASSUME MemoryInv, NEW e \in Entries, list_del(e) \/ list_del_init(e)
    PROVE  /\ MemoryInv'
           /\ owner[e] \in Heads
           /\ \E p \in 1 .. Len(Lists[owner[e]]) :
                 /\ Lists[owner[e]][p] = e
                 /\ Lists' = [Lists EXCEPT ![owner[e]] = RemoveAt(@, p)]
<1>1. PICK m :
         /\ \/ m = Deleted(Mem(next, prev), e)
            \/ m = Initialised(Deleted(Mem(next, prev), e), e)
         /\ owner[e] # Wild /\ next' = m.next /\ prev' = m.prev
         /\ live' = live /\ owner' = [owner EXCEPT ![e] = Wild]
  BY DEF list_del, list_del_init, Removal, Store, Now
<1>2. PICK h \in live : h = owner[e] /\ h \in Heads /\ \E p \in 1 .. Len(Lists[h]) : Lists[h][p] = e
  BY <1>1, EntryPlace DEF MemoryInv
<1>3. PICK p \in 1 .. Len(Lists[h]) : Lists[h][p] = e
  BY <1>2
<1>4. Represents(m.next, m.prev, live, [owner EXCEPT ![e] = Wild],
                 [Lists EXCEPT ![h] = RemoveAt(@, p)])
  BY <1>1, <1>3, RemovalRepresented DEF MemoryInv
<1>5. Represents(next', prev', live', owner', [Lists EXCEPT ![h] = RemoveAt(@, p)])
  BY <1>1, <1>4
<1>6. MemoryInv' /\ Lists' = [Lists EXCEPT ![h] = RemoveAt(@, p)]
  BY <1>5, MemoryInvNext
<1>7. QED
  BY <1>2, <1>3, <1>6

LEMMA SpliceStep ==
    ASSUME MemoryInv, NEW l \in Heads, NEW h \in Heads, list_splice(l, h)
    PROVE  /\ MemoryInv'
           /\ Lists' = [Lists EXCEPT ![h] = Lists[l] \o @, ![l] = <<>>]
<1>1. l \in live /\ h \in live /\ l # h
  BY DEF list_splice
<1>2. CASE list_empty(l)
  <2>1. next' = next /\ prev' = prev /\ live' = live /\ owner' = owner
    BY <1>2 DEF list_splice, memory
  <2>2. Represents(next', prev', live', owner', Lists)
    BY <2>1 DEF MemoryInv
  <2>3. Lists[l] = <<>>
    BY <1>1, <1>2, HeadAlone DEF MemoryInv, list_empty
  <2>4. Lists \in [Heads -> Seq(Entries)]
    BY DEF MemoryInv, Represents
  <2>5. <<>> \o Lists[h] = Lists[h]
    BY <2>4
  <2>6. Lists = [Lists EXCEPT ![h] = Lists[l] \o @, ![l] = <<>>]
    BY <2>3, <2>4, <2>5
  <2>7. QED
    BY <2>2, <2>6, MemoryInvNext
<1>3. CASE ~list_empty(l)
  <2>1. PICK m, ow2 :
           /\ m = Spliced(l, h)
           /\ ow2 = [e \in Entries |-> IF owner[e] = l THEN h ELSE owner[e]]
           /\ next' = m.next /\ prev' = m.prev
           /\ live' = live \ {l} /\ owner' = ow2
    BY <1>3 DEF list_splice, Store
  <2>2. next[l] # l
    BY <1>3 DEF list_empty
  <2>3. Represents(m.next, m.prev, live \ {l}, ow2,
                   [Lists EXCEPT ![h] = Lists[l] \o @, ![l] = <<>>])
    BY <1>1, <2>1, <2>2, SpliceRepresented DEF MemoryInv
  <2>4. Represents(next', prev', live', owner',
                   [Lists EXCEPT ![h] = Lists[l] \o @, ![l] = <<>>])
    BY <2>1, <2>3
  <2>5. QED
    BY <2>4, MemoryInvNext
<1>4. QED
  BY <1>2, <1>3

LEMMA LoopStartStep ==
    ASSUME MemoryInv, NEW h \in Heads, LoopStart(h)
    PROVE  MemoryInv' /\ Lists' = Lists /\ Looping(live', Lists', loop')
<1>1. /\ h \in live /\ next' = next /\ prev' = prev /\ live' = live /\ owner' = owner
      /\ loop' = [head |-> h, pos |-> next[h], n |-> next[next[h]],
                  seen |-> <<>>, all |-> list_for_each(h)]
  BY DEF LoopStart, memory
<1>2. Represents(next', prev', live', owner', Lists)
  BY <1>1 DEF MemoryInv
<1>3. MemoryInv' /\ Lists' = Lists
  BY <1>2, MemoryInvNext
<1>4. PICK s, lp : s = Lists[h] /\ lp = loop'
  OBVIOUS
<1>5. list_for_each(h) = s
  BY <1>1, <1>4 DEF Lists
<1>6. /\ s \in Seq(Entries) /\ Len(s) \in Nat
      /\ \A i \in Nat : At(s, h, i) \in Nodes
      /\ \A i \in 0 .. Len(s) : next[At(s, h, i)] = At(s, h, i + 1)
      /\ h \in Heads
  BY <1>1, <1>4, Neighbours DEF MemoryInv
<1>7. At(s, h, 0) = h
  BY DEF At
<1>8. next[h] = At(s, h, 1)
  <2>1. 0 \in 0 .. Len(s) /\ 0 + 1 = 1
    BY <1>6
  <2>2. QED
    BY <1>6, <1>7, <2>1
<1>9. Len(s) > 0 => next[next[h]] = At(s, h, 2)
  <2>1. ASSUME Len(s) > 0
        PROVE  next[At(s, h, 1)] = At(s, h, 2)
    <3>1. 1 \in 0 .. Len(s) /\ 1 + 1 = 2
      BY <1>6, <2>1
    <3>2. QED
      BY <1>6, <3>1
  <2>2. QED
    BY <1>8, <2>1
<1>10. next[h] \in Nodes /\ next[next[h]] \in Nodes \cup {Wild}
  <2>1. next[h] \in Nodes
    BY <1>6, <1>8
  <2>2. QED
    BY <2>1 DEF MemoryInv, Represents, Memory
<1>11. lp \in LoopState
  BY <1>1, <1>4, <1>5, <1>6, <1>10 DEF LoopState
<1>12. /\ lp.head = h /\ lp.pos = At(s, h, 1) /\ lp.seen = <<>> /\ lp.all = s
       /\ Len(s) > 0 => lp.n = At(s, h, 2)
  BY <1>1, <1>4, <1>5, <1>8, <1>9
<1>13. LoopAt(Lists, lp, 0)
  <2>1. /\ Lists[lp.head] = s /\ Len(lp.seen) = 0 /\ lp.all = s
        /\ Len(s) = 0 + (Len(s) - 0) /\ 0 + 1 = 1 /\ 0 + 2 = 2
    BY <1>4, <1>6, <1>12
  <2>2. \A i \in 0 + 1 .. Len(s) : s[i] = s[0 + (i - 0)]
    BY <1>6
  <2>3. QED
    BY <1>6, <1>12, <2>1, <2>2 DEF LoopAt
<1>14. 0 \in 0 .. Len(Lists[lp.head])
  BY <1>4, <1>6, <1>12
<1>15. Looping(live, Lists, lp)
  BY <1>1, <1>11, <1>12, <1>13, <1>14 DEF Looping
<1>16. QED
  BY <1>1, <1>3, <1>4, <1>15

\* Where the current entry of a loop is, and that it is in no other list.
LEMMA LoopPlace ==
    ASSUME MemoryInv, NEW lp, Looping(live, Lists, lp), lp.pos # lp.head
    PROVE  /\ lp.head \in live /\ lp.head \in Heads
           /\ lp.pos \in Entries
           /\ \E p \in 1 .. Len(Lists[lp.head]) : Lists[lp.head][p] = lp.pos
<1>1. PICK h, s, pos : h = lp.head /\ s = Lists[h] /\ pos = lp.pos
  OBVIOUS
<1>2. h \in live
  BY <1>1 DEF Looping
<1>3. h \in Heads /\ s \in Seq(Entries) /\ Len(s) \in Nat
  BY <1>1, <1>2, Neighbours DEF MemoryInv
<1>4. PICK d \in 0 .. Len(s) : pos = At(s, h, d + 1)
  BY <1>1 DEF Looping, LoopAt
<1>5. d + 1 \in 1 .. Len(s) /\ pos = s[d + 1]
  BY <1>1, <1>3, <1>4 DEF At
<1>6. pos \in Entries
  BY <1>3, <1>5, ElementOfSeq
<1>7. QED
  BY <1>1, <1>2, <1>3, <1>5, <1>6

LEMMA LoopKeepStep ==
    ASSUME MemoryInv, Looping(live, Lists, loop), loop.pos # loop.head, LoopKeep
    PROVE  MemoryInv' /\ Lists' = Lists /\ Looping(live', Lists', loop')
<1>1. /\ next' = next /\ prev' = prev /\ live' = live /\ owner' = owner
      /\ loop' = [loop EXCEPT !.pos = loop.n, !.n = next[loop.n],
                              !.seen = Append(@, loop.pos)]
  BY DEF LoopKeep, Advance, Now, Mem, memory
<1>2. Represents(next', prev', live', owner', Lists)
  BY <1>1 DEF MemoryInv
<1>3. MemoryInv' /\ Lists' = Lists
  BY <1>2, MemoryInvNext
<1>4. Lists \in [Heads -> Seq(Entries)] /\ IsInjective(Lists[loop.head])
  <2>1. Represents(next, prev, live, owner, Lists) /\ loop.head \in live
    BY LoopPlace DEF MemoryInv
  <2>2. IsInjective(Lists[loop.head])
    BY <2>1, Neighbours
  <2>3. QED
    BY <2>1, <2>2 DEF Represents
<1>5. Represents(next, prev, live, owner, Lists)
  BY DEF MemoryInv
<1>6. PICK lp2 : lp2 = [loop EXCEPT !.pos = loop.n, !.n = next[loop.n],
                                    !.seen = Append(@, loop.pos)]
  OBVIOUS
<1>7. Looping(live, Lists, lp2)
  BY <1>4, <1>5, <1>6, LoopAdvanced
<1>8. QED
  BY <1>1, <1>3, <1>6, <1>7

LEMMA LoopDeleteStep ==
    ASSUME MemoryInv, Looping(live, Lists, loop), loop.pos # loop.head, LoopDelete
    PROVE  /\ MemoryInv' /\ Looping(live', Lists', loop')
           /\ loop.head \in Heads /\ loop.pos \in Entries
           /\ \E p \in 1 .. Len(Lists[loop.head]) :
                 /\ Lists[loop.head][p] = loop.pos
                 /\ Lists' = [Lists EXCEPT ![loop.head] = RemoveAt(@, p)]
<1>1. PICK m, lp2, ow2 :
         /\ \/ m = Deleted(Mem(next, prev), loop.pos)
            \/ m = Initialised(Deleted(Mem(next, prev), loop.pos), loop.pos)
         /\ next' = m.next /\ prev' = m.prev /\ live' = live
         /\ ow2 = [owner EXCEPT ![loop.pos] = Wild] /\ owner' = ow2
         /\ lp2 = [loop EXCEPT !.pos = loop.n, !.n = m.next[loop.n],
                               !.seen = Append(@, loop.pos)]
         /\ loop' = lp2
  BY DEF LoopDelete, Store, Advance, Now
<1>2. PICK h, e : h = loop.head /\ e = loop.pos
  OBVIOUS
<1>3. /\ h \in live /\ h \in Heads /\ e \in Entries
      /\ \E p \in 1 .. Len(Lists[h]) : Lists[h][p] = e
  BY <1>2, LoopPlace
<1>4. PICK p \in 1 .. Len(Lists[h]) : Lists[h][p] = e
  BY <1>3
<1>5. Lists \in [Heads -> Seq(Entries)] /\ IsInjective(Lists[h])
  <2>1. Represents(next, prev, live, owner, Lists)
    BY DEF MemoryInv
  <2>2. IsInjective(Lists[h])
    BY <1>3, <2>1, Neighbours
  <2>3. QED
    BY <2>1, <2>2 DEF Represents
<1>6. PICK L2 : L2 = [Lists EXCEPT ![h] = RemoveAt(@, p)]
  OBVIOUS
<1>7. Represents(m.next, m.prev, live, ow2, L2)
  <2>1. /\ \/ m = Deleted(Mem(next, prev), e)
           \/ m = Initialised(Deleted(Mem(next, prev), e), e)
        /\ ow2 = [owner EXCEPT ![e] = Wild] /\ e = Lists[h][p]
    BY <1>1, <1>2, <1>4
  <2>2. Represents(next, prev, live, owner, Lists)
    BY DEF MemoryInv
  <2>3. Represents(m.next, m.prev, live, [owner EXCEPT ![e] = Wild],
                   [Lists EXCEPT ![h] = RemoveAt(@, p)])
    BY <1>3, <2>1, <2>2, RemovalRepresented
  <2>4. QED
    BY <1>6, <2>1, <2>3
<1>8. MemoryInv' /\ Lists' = L2
  <2>1. Represents(next', prev', live', owner', L2)
    BY <1>1, <1>7
  <2>2. QED
    BY <2>1, MemoryInvNext
<1>9. Removed(L2[h], Lists[h], p)
  <2>1. L2[h] = RemoveAt(Lists[h], p) /\ Lists[h] \in Seq(Entries)
    BY <1>3, <1>5, <1>6
  <2>2. QED
    BY <2>1, PlaceRemoved
<1>10. Looping(live, L2, lp2)
  <2>1. \E p1 \in 1 .. Len(Lists[loop.head]) :
           /\ Lists[loop.head][p1] = loop.pos
           /\ Removed(L2[loop.head], Lists[loop.head], p1)
    BY <1>2, <1>4, <1>9
  <2>2. PICK nx : nx = m.next
    OBVIOUS
  <2>3. /\ Represents(nx, m.prev, live, ow2, L2)
        /\ lp2 = [loop EXCEPT !.pos = loop.n, !.n = nx[loop.n],
                              !.seen = Append(@, loop.pos)]
        /\ IsInjective(Lists[loop.head])
    BY <1>1, <1>2, <1>5, <1>7, <2>2
  <2>4. QED
    BY <1>5, <2>1, <2>3, LoopAdvanced
<1>11. QED
  BY <1>1, <1>2, <1>3, <1>4, <1>6, <1>8, <1>10

LEMMA LoopMoveStep ==
    ASSUME MemoryInv, Looping(live, Lists, loop), loop.pos # loop.head,
           NEW to \in Heads, LoopMove(to)
    PROVE  /\ MemoryInv' /\ Looping(live', Lists', loop')
           /\ loop.head \in Heads /\ loop.pos \in Entries /\ loop.head # to
           /\ \E p \in 1 .. Len(Lists[loop.head]) :
                 /\ Lists[loop.head][p] = loop.pos
                 /\ Lists' = [Lists EXCEPT ![loop.head] = RemoveAt(@, p),
                                           ![to] = Append(@, loop.pos)]
<1>1. PICK d, m, lp2 :
         /\ d = Deleted(Mem(next, prev), loop.pos)
         /\ m = AddedTail(d, loop.pos, to)
         /\ to \in live /\ to # loop.head
         /\ next' = m.next /\ prev' = m.prev /\ live' = live
         /\ owner' = [owner EXCEPT ![loop.pos] = to]
         /\ lp2 = [loop EXCEPT !.pos = loop.n, !.n = m.next[loop.n],
                               !.seen = Append(@, loop.pos)]
         /\ loop' = lp2
  BY DEF LoopMove, Store, Advance, Now
<1>2. PICK h, e : h = loop.head /\ e = loop.pos
  OBVIOUS
<1>3. /\ h \in live /\ h \in Heads /\ e \in Entries
      /\ \E p \in 1 .. Len(Lists[h]) : Lists[h][p] = e
  BY <1>2, LoopPlace
<1>4. PICK p \in 1 .. Len(Lists[h]) : Lists[h][p] = e
  BY <1>3
<1>5. /\ Lists \in [Heads -> Seq(Entries)] /\ IsInjective(Lists[h])
      /\ owner \in [Entries -> live \cup {Wild}]
  <2>1. Represents(next, prev, live, owner, Lists)
    BY DEF MemoryInv
  <2>2. IsInjective(Lists[h])
    BY <1>3, <2>1, Neighbours
  <2>3. QED
    BY <2>1, <2>2 DEF Represents
<1>6. PICK L1, L2, ow1, ow2 :
         /\ L1 = [Lists EXCEPT ![h] = RemoveAt(@, p)]
         /\ L2 = [L1 EXCEPT ![to] = Append(@, e)]
         /\ ow1 = [owner EXCEPT ![e] = Wild]
         /\ ow2 = [ow1 EXCEPT ![e] = to]
  OBVIOUS
<1>7. Represents(d.next, d.prev, live, ow1, L1)
  <2>1. d = Deleted(Mem(next, prev), e) /\ e = Lists[h][p]
    BY <1>1, <1>2, <1>4
  <2>2. Represents(next, prev, live, owner, Lists)
    BY DEF MemoryInv
  <2>3. Represents(d.next, d.prev, live, [owner EXCEPT ![e] = Wild],
                   [Lists EXCEPT ![h] = RemoveAt(@, p)])
    BY <1>3, <2>1, <2>2, PlaceRepresented
  <2>4. QED
    BY <1>6, <2>3
<1>8. d = Mem(d.next, d.prev)
  BY <1>1 DEF Deleted, Mem
<1>9. ow1[e] = Wild /\ ow2 = [owner EXCEPT ![e] = to]
  BY <1>3, <1>5, <1>6
<1>10. Represents(m.next, m.prev, live, ow2, L2)
  <2>1. PICK m1, nx, pv : /\ nx = d.next /\ pv = d.prev
                          /\ m1 = AddedTail(Mem(nx, pv), e, to)
    OBVIOUS
  <2>2. Represents(nx, pv, live, ow1, L1) /\ to \in live
    BY <1>1, <1>7, <2>1
  <2>3. Represents(m1.next, m1.prev, live, ow2, L2)
    <3>1. Represents(m1.next, m1.prev, live, [ow1 EXCEPT ![e] = to],
                     [L1 EXCEPT ![to] = Append(@, e)])
      BY <1>3, <1>9, <2>1, <2>2, BackRepresented
    <3>2. QED
      BY <1>6, <3>1
  <2>4. m1 = m
    BY <1>1, <1>2, <1>8, <2>1
  <2>5. QED
    BY <2>3, <2>4
<1>11. MemoryInv' /\ Lists' = L2
  <2>1. Represents(next', prev', live', owner', L2)
    BY <1>1, <1>2, <1>9, <1>10
  <2>2. QED
    BY <2>1, MemoryInvNext
<1>12. Removed(L2[h], Lists[h], p)
  <2>1. L2[h] = RemoveAt(Lists[h], p) /\ Lists[h] \in Seq(Entries)
    BY <1>1, <1>2, <1>3, <1>5, <1>6
  <2>2. QED
    BY <2>1, PlaceRemoved
<1>13. Looping(live, L2, lp2)
  <2>1. \E p1 \in 1 .. Len(Lists[loop.head]) :
           /\ Lists[loop.head][p1] = loop.pos
           /\ Removed(L2[loop.head], Lists[loop.head], p1)
    BY <1>2, <1>4, <1>12
  <2>2. PICK nx : nx = m.next
    OBVIOUS
  <2>3. /\ Represents(nx, m.prev, live, ow2, L2)
        /\ lp2 = [loop EXCEPT !.pos = loop.n, !.n = nx[loop.n],
                              !.seen = Append(@, loop.pos)]
        /\ IsInjective(Lists[loop.head])
    BY <1>1, <1>2, <1>5, <1>10, <2>2
  <2>4. QED
    BY <1>5, <2>1, <2>3, LoopAdvanced
<1>14. L2 = [Lists EXCEPT ![h] = RemoveAt(@, p), ![to] = Append(@, e)]
  BY <1>1, <1>2, <1>3, <1>5, <1>6
<1>15. QED
  BY <1>1, <1>2, <1>3, <1>4, <1>11, <1>13, <1>14

-----------------------------------------------------------------------------
(* Steps, and what they are in ListSeq.                                    *)

\* What a step of list.h owes: it is one of ListSeq, and the one it is called.
SeqStep ==
    /\ [Abstract!Next]_Lists
    /\ CallsKeepPromise
    /\ loop.pos # loop.head => BodyKeepsPromise
    /\ LoopEnd => UNCHANGED Lists

LEMMA FrontIsAbstract ==
    ASSUME NEW h \in Heads, NEW e \in Entries, \A g \in Heads : e \notin ToSet(Lists[g]),
           Lists' = [Lists EXCEPT ![h] = <<e>> \o @]
    PROVE  Abstract!AddFront(e, h)
<1>1. e \in Entries \ UNION {ToSet(Lists[g]) : g \in Heads}
  OBVIOUS
<1>2. e \in Abstract!Outside
  BY <1>1 DEF Abstract!Outside, Abstract!In, Abstract!ToSet, ToSet, Lists
<1>3. QED
  BY <1>2 DEF Abstract!AddFront, Lists

LEMMA BackIsAbstract ==
    ASSUME NEW h \in Heads, NEW e \in Entries, \A g \in Heads : e \notin ToSet(Lists[g]),
           Lists' = [Lists EXCEPT ![h] = Append(@, e)]
    PROVE  Abstract!AddBack(e, h)
<1>1. e \in Entries \ UNION {ToSet(Lists[g]) : g \in Heads}
  OBVIOUS
<1>2. e \in Abstract!Outside
  BY <1>1 DEF Abstract!Outside, Abstract!In, Abstract!ToSet, ToSet, Lists
<1>3. QED
  BY <1>2 DEF Abstract!AddBack, Lists

LEMMA RemovalIsAbstract ==
    ASSUME NEW h \in Heads, NEW e, NEW p \in DOMAIN Lists[h], Lists[h][p] = e,
           Lists' = [Lists EXCEPT ![h] = RemoveAt(@, p)]
    PROVE  Abstract!Delete(e, h)
<1>1. \E i \in DOMAIN Lists[h] : /\ Lists[h][i] = e
                                /\ Lists' = [Lists EXCEPT ![h] = RemoveAt(@, i)]
  OBVIOUS
<1>2. QED
  BY <1>1 DEF Abstract!Delete, Abstract!RemoveAt, RemoveAt, Lists

LEMMA MoveIsAbstract ==
    ASSUME NEW h \in Heads, NEW e, NEW p \in DOMAIN Lists[h], Lists[h][p] = e,
           NEW to, h # to,
           Lists' = [Lists EXCEPT ![h] = RemoveAt(@, p), ![to] = Append(@, e)]
    PROVE  Abstract!Move(e, h, to)
<1>1. \E i \in DOMAIN Lists[h] :
         /\ Lists[h][i] = e
         /\ Lists' = [Lists EXCEPT ![h] = RemoveAt(@, i), ![to] = Append(@, e)]
  OBVIOUS
<1>2. QED
  BY <1>1 DEF Abstract!Move, Abstract!RemoveAt, RemoveAt, Lists

LEMMA SpliceIsAbstract ==
    ASSUME NEW l, NEW h, l # h,
           Lists' = [Lists EXCEPT ![h] = Lists[l] \o @, ![l] = <<>>]
    PROVE  Abstract!Join(l, h)
  BY DEF Abstract!Join, Lists

\* Each call keeps the memory intact, and is the operation of its name.
LEMMA AddIsFront ==
    ASSUME MemoryInv, NEW h \in Heads, NEW e \in Entries, list_add(e, h)
    PROVE  MemoryInv' /\ loop' = loop /\ Abstract!AddFront(e, h)
<1>1. loop' = loop /\ owner[e] = Wild
  BY DEF list_add
<1>2. MemoryInv' /\ Lists' = [Lists EXCEPT ![h] = <<e>> \o @]
  BY AddStep
<1>3. \A g \in Heads : e \notin ToSet(Lists[g])
  BY <1>1, NoPlace DEF MemoryInv
<1>4. QED
  BY <1>1, <1>2, <1>3, FrontIsAbstract

LEMMA AddTailIsBack ==
    ASSUME MemoryInv, NEW h \in Heads, NEW e \in Entries, list_add_tail(e, h)
    PROVE  MemoryInv' /\ loop' = loop /\ Abstract!AddBack(e, h)
<1>1. loop' = loop /\ owner[e] = Wild
  BY DEF list_add_tail
<1>2. MemoryInv' /\ Lists' = [Lists EXCEPT ![h] = Append(@, e)]
  BY AddTailStep
<1>3. \A g \in Heads : e \notin ToSet(Lists[g])
  BY <1>1, NoPlace DEF MemoryInv
<1>4. QED
  BY <1>1, <1>2, <1>3, BackIsAbstract

LEMMA SpliceIsJoin ==
    ASSUME MemoryInv, NEW l \in Heads, NEW h \in Heads, list_splice(l, h)
    PROVE  MemoryInv' /\ loop' = loop /\ Abstract!Join(l, h)
<1>1. loop' = loop /\ l # h
  BY DEF list_splice
<1>2. MemoryInv' /\ Lists' = [Lists EXCEPT ![h] = Lists[l] \o @, ![l] = <<>>]
  BY SpliceStep
<1>3. QED
  BY <1>1, <1>2, SpliceIsAbstract

LEMMA PlaceInList ==
    ASSUME MemoryInv, NEW h \in Heads
    PROVE  DOMAIN Lists[h] = 1 .. Len(Lists[h])
<1>1. Lists[h] \in Seq(Entries)
  BY DEF MemoryInv, Represents
<1>2. QED
  BY <1>1, LenProperties

LEMMA RemovalIsDelete ==
    ASSUME MemoryInv, NEW e \in Entries, list_del(e) \/ list_del_init(e)
    PROVE  /\ MemoryInv' /\ loop' = loop
           /\ owner[e] \in Heads /\ Abstract!Delete(e, owner[e])
<1>1. loop' = loop
  BY DEF list_del, list_del_init, Removal
<1>2. /\ MemoryInv' /\ owner[e] \in Heads
      /\ \E p \in 1 .. Len(Lists[owner[e]]) :
            /\ Lists[owner[e]][p] = e
            /\ Lists' = [Lists EXCEPT ![owner[e]] = RemoveAt(@, p)]
  BY RemovalStep
<1>3. PICK h \in Heads : h = owner[e]
  BY <1>2
<1>4. Abstract!Delete(e, h)
  BY <1>2, <1>3, PlaceInList, RemovalIsAbstract
<1>5. QED
  BY <1>1, <1>2, <1>3, <1>4

LEMMA LoopDeleteIsDelete ==
    ASSUME MemoryInv, Looping(live, Lists, loop), loop.pos # loop.head, LoopDelete
    PROVE  /\ MemoryInv' /\ Looping(live', Lists', loop')
           /\ loop.head \in Heads /\ loop.pos \in Entries
           /\ Abstract!Delete(loop.pos, loop.head)
<1>1. /\ MemoryInv' /\ Looping(live', Lists', loop')
      /\ loop.head \in Heads /\ loop.pos \in Entries
      /\ \E p \in 1 .. Len(Lists[loop.head]) :
            /\ Lists[loop.head][p] = loop.pos
            /\ Lists' = [Lists EXCEPT ![loop.head] = RemoveAt(@, p)]
  BY LoopDeleteStep
<1>2. PICK h \in Heads, e \in Entries : h = loop.head /\ e = loop.pos
  BY <1>1
<1>3. Abstract!Delete(e, h)
  BY <1>1, <1>2, PlaceInList, RemovalIsAbstract
<1>4. QED
  BY <1>1, <1>2, <1>3

LEMMA LoopMoveIsMove ==
    ASSUME MemoryInv, Looping(live, Lists, loop), loop.pos # loop.head,
           NEW h \in Heads, LoopMove(h)
    PROVE  /\ MemoryInv' /\ Looping(live', Lists', loop')
           /\ loop.head \in Heads /\ loop.pos \in Entries
           /\ Abstract!Move(loop.pos, loop.head, h)
<1>1. PICK p \in 1 .. Len(Lists[loop.head]) :
         /\ Lists[loop.head][p] = loop.pos
         /\ Lists' = [Lists EXCEPT ![loop.head] = RemoveAt(@, p),
                                   ![h] = Append(@, loop.pos)]
  BY LoopMoveStep
<1>2. /\ MemoryInv' /\ Looping(live', Lists', loop')
      /\ loop.head \in Heads /\ loop.pos \in Entries /\ loop.head # h
  BY LoopMoveStep
<1>3. QED
  BY <1>1, <1>2, PlaceInList, MoveIsAbstract

\* Whatever a step is called, the promises of all calls hold of it.
LEMMA CallsKept ==
    ASSUME MemoryInv
    PROVE  CallsKeepPromise
<1> SUFFICES ASSUME NEW h \in Heads
             PROVE  /\ INIT_LIST_HEAD(h) \/ LoopStart(h) => Lists' = Lists
                    /\ \A l \in Heads : list_splice(l, h) => Abstract!Join(l, h)
                    /\ \A e \in Entries :
                          /\ list_add(e, h) => Abstract!AddFront(e, h)
                          /\ list_add_tail(e, h) => Abstract!AddBack(e, h)
                          /\ list_del(e) \/ list_del_init(e)
                                => Abstract!Delete(e, owner[e])
  BY DEF CallsKeepPromise
<1>1. INIT_LIST_HEAD(h) \/ LoopStart(h) => Lists' = Lists
  BY InitStep, LoopStartStep
<1>2. \A l \in Heads : list_splice(l, h) => Abstract!Join(l, h)
  BY SpliceIsJoin
<1>3. ASSUME NEW e \in Entries
      PROVE  /\ list_add(e, h) => Abstract!AddFront(e, h)
             /\ list_add_tail(e, h) => Abstract!AddBack(e, h)
             /\ list_del(e) \/ list_del_init(e) => Abstract!Delete(e, owner[e])
  BY AddIsFront, AddTailIsBack, RemovalIsDelete
<1>4. QED
  BY <1>1, <1>2, <1>3

LEMMA BodyKept ==
    ASSUME MemoryInv, Looping(live, Lists, loop), loop.pos # loop.head
    PROVE  BodyKeepsPromise
<1>1. LoopKeep => Lists' = Lists
  BY LoopKeepStep
<1>2. LoopDelete => Abstract!Delete(loop.pos, loop.head)
  BY LoopDeleteIsDelete
<1>3. \A h \in Heads : LoopMove(h) => Abstract!Move(loop.pos, loop.head, h)
  BY LoopMoveIsMove
<1>4. QED
  BY <1>1, <1>2, <1>3 DEF BodyKeepsPromise

LEMMA UnchangedMemory ==
    ASSUME MemoryInv, next' = next, prev' = prev, live' = live, owner' = owner
    PROVE  MemoryInv' /\ Lists' = Lists
<1>1. Represents(next', prev', live', owner', Lists)
  BY DEF MemoryInv
<1>2. QED
  BY <1>1, MemoryInvNext

LEMMA EndKept ==
    ASSUME MemoryInv, LoopEnd
    PROVE  MemoryInv' /\ Lists' = Lists
BY UnchangedMemory DEF LoopEnd, memory

\* The invariant is kept, and the sequences make a step of ListSeq or none.
ListStep == ListInv' /\ [Abstract!Next]_Lists

LEMMA OutsideLoop ==
    ASSUME ListInv, loop = NoLoop, NEW h \in Heads,
           \/ INIT_LIST_HEAD(h)
           \/ \E l \in Heads : list_splice(l, h)
           \/ \E e \in Entries : list_add(e, h) \/ list_add_tail(e, h)
    PROVE  ListStep
<1>1. MemoryInv /\ NoLoop' = NoLoop
  BY DEF ListInv, NoLoop
<1>2. CASE INIT_LIST_HEAD(h)
  <2>1. MemoryInv' /\ Lists' = Lists
    BY <1>1, <1>2, InitStep
  <2>2. loop' = loop
    BY <1>2 DEF INIT_LIST_HEAD
  <2>3. QED
    BY <1>1, <2>1, <2>2 DEF ListStep, ListInv
<1>3. ASSUME NEW l \in Heads, list_splice(l, h)
      PROVE  ListStep
  <2>1. MemoryInv' /\ loop' = loop /\ Abstract!Join(l, h)
    BY <1>1, <1>3, SpliceIsJoin
  <2>2. QED
    BY <1>1, <2>1 DEF ListStep, ListInv, Abstract!Next
<1>4. ASSUME NEW e \in Entries, list_add(e, h)
      PROVE  ListStep
  <2>1. MemoryInv' /\ loop' = loop /\ Abstract!AddFront(e, h)
    BY <1>1, <1>4, AddIsFront
  <2>2. QED
    BY <1>1, <2>1 DEF ListStep, ListInv, Abstract!Next
<1>5. ASSUME NEW e \in Entries, list_add_tail(e, h)
      PROVE  ListStep
  <2>1. MemoryInv' /\ loop' = loop /\ Abstract!AddBack(e, h)
    BY <1>1, <1>5, AddTailIsBack
  <2>2. QED
    BY <1>1, <2>1 DEF ListStep, ListInv, Abstract!Next
<1>6. QED
  BY <1>2, <1>3, <1>4, <1>5

LEMMA InLoop ==
    ASSUME ListInv, loop # NoLoop, LoopBody
    PROVE  ListStep
<1>1. MemoryInv /\ Looping(live, Lists, loop) /\ loop.pos # loop.head
  BY DEF ListInv, LoopBody
<1>2. CASE LoopKeep
  BY <1>1, <1>2, LoopKeepStep DEF ListStep, ListInv
<1>3. CASE LoopDelete
  <2>1. /\ MemoryInv' /\ Looping(live', Lists', loop')
        /\ loop.head \in Heads /\ loop.pos \in Entries
        /\ Abstract!Delete(loop.pos, loop.head)
    BY <1>1, <1>3, LoopDeleteIsDelete
  <2>2. QED
    BY <2>1 DEF ListStep, ListInv, Abstract!Next
<1>4. ASSUME NEW h \in Heads, LoopMove(h)
      PROVE  ListStep
  <2>1. /\ MemoryInv' /\ Looping(live', Lists', loop')
        /\ loop.head \in Heads /\ loop.pos \in Entries
        /\ Abstract!Move(loop.pos, loop.head, h)
    BY <1>1, <1>4, LoopMoveIsMove
  <2>2. QED
    BY <2>1 DEF ListStep, ListInv, Abstract!Next
<1>5. QED
  BY <1>2, <1>3, <1>4 DEF LoopBody

LEMMA ListInvStep ==
    ASSUME ListInv, [ListNext]_listVars
    PROVE  ListStep
<1>1. MemoryInv /\ NoLoop' = NoLoop
  BY DEF ListInv, NoLoop
<1>2. CASE UNCHANGED listVars
  <2>1. next' = next /\ prev' = prev /\ live' = live /\ owner' = owner /\ loop' = loop
    BY <1>2 DEF listVars
  <2>2. MemoryInv' /\ Lists' = Lists
    BY <1>1, <2>1, UnchangedMemory
  <2>3. QED
    BY <1>1, <2>1, <2>2 DEF ListStep, ListInv
<1>3. ASSUME loop = NoLoop, NEW e \in Entries, list_del(e) \/ list_del_init(e)
      PROVE  ListStep
  <2>1. /\ MemoryInv' /\ loop' = loop
        /\ owner[e] \in Heads /\ Abstract!Delete(e, owner[e])
    BY <1>1, <1>3, RemovalIsDelete
  <2>2. QED
    BY <1>1, <1>3, <2>1 DEF ListStep, ListInv, Abstract!Next
<1>4. ASSUME NEW h \in Heads, LoopStart(h)
      PROVE  ListStep
  BY <1>1, <1>4, LoopStartStep DEF ListStep, ListInv
<1>5. CASE LoopEnd
  <2>1. MemoryInv' /\ Lists' = Lists
    BY <1>1, <1>5, EndKept
  <2>2. loop' = NoLoop
    BY <1>5 DEF LoopEnd
  <2>3. QED
    BY <1>1, <2>1, <2>2 DEF ListStep, ListInv
<1>6. QED
  BY <1>2, <1>3, <1>4, <1>5, OutsideLoop, InLoop DEF ListNext

LEMMA PromisesKept ==
    ASSUME ListInv, [ListNext]_listVars
    PROVE  SeqStep
<1>1. MemoryInv
  BY DEF ListInv
<1>2. [Abstract!Next]_Lists
  BY ListInvStep DEF ListStep
<1>3. ASSUME loop.pos # loop.head
      PROVE  BodyKeepsPromise
  <2>1. loop # NoLoop
    BY <1>3 DEF NoLoop
  <2>2. Looping(live, Lists, loop)
    BY <2>1 DEF ListInv
  <2>3. QED
    BY <1>1, <1>3, <2>2, BodyKept
<1>4. LoopEnd => Lists' = Lists
  BY <1>1, EndKept
<1>5. QED
  BY <1>1, <1>2, <1>3, <1>4, CallsKept DEF SeqStep

-----------------------------------------------------------------------------
(* The theorems.                                                           *)

LEMMA ListInvariant == ListSpec => []ListInv
<1>1. ListInv /\ [ListNext]_listVars => ListInv'
  BY ListInvStep DEF ListStep
<1>2. QED
  BY ListInvInit, <1>1, PTL DEF ListSpec

(* At any time every list is the same forwards and backwards, ends where   *)
(* it began and holds exactly the entries that the caller has put there:   *)
(* the four pointers that __list_add, __list_del and list_splice write are *)
(* the right ones in lists of any length.                                  *)
THEOREM ListsStayIntact == ListSpec => []ListsIntact
<1>1. ListInv => ListsIntact
  <2> SUFFICES ASSUME ListInv, NEW h \in live
               PROVE  LET s == list_for_each(h)
                      IN  /\ list_for_each_prev(h) = Reverse(s)
                          /\ ToSet(s) = {e \in Entries : owner[e] = h}
                          /\ list_empty(h) <=> s = <<>>
    BY DEF ListsIntact
  <2>1. Represents(next, prev, live, owner, Lists)
    BY DEF ListInv, MemoryInv
  <2>2. PICK s : s = Lists[h]
    OBVIOUS
  <2>3. /\ h \in Heads /\ Ring(next, prev, h, s)
        /\ ToSet(s) = {e \in Entries : owner[e] = h}
    BY <2>1, <2>2, Neighbours
  <2>4. Along(next, h) = s /\ Along(prev, h) = Reverse(s)
    BY <2>3, RingRead
  <2>5. next[h] = h <=> s = <<>>
    BY <2>1, <2>2, HeadAlone
  <2>6. QED
    BY <2>3, <2>4, <2>5 DEF list_for_each, list_for_each_prev, list_empty
<1>2. QED
  BY ListInvariant, <1>1, PTL

(* list_for_each_safe meets the entries that were in the list when it      *)
(* began, each once and in order, although its body takes entries out of   *)
(* the list or moves them to another one.                                  *)
THEOREM SafeLoopIsComplete == ListSpec => []SafeLoopMeetsAll
<1>1. ListInv => SafeLoopMeetsAll
  <2> SUFFICES ASSUME ListInv, loop # NoLoop
               PROVE  /\ IsPrefix(loop.seen, loop.all)
                      /\ loop.pos = loop.head => loop.seen = loop.all
    BY DEF SafeLoopMeetsAll
  <2>1. Represents(next, prev, live, owner, Lists) /\ Looping(live, Lists, loop)
    BY DEF ListInv, MemoryInv
  <2>2. PICK h, s, seen, all : /\ h = loop.head /\ s = Lists[h]
                               /\ seen = loop.seen /\ all = loop.all
    OBVIOUS
  <2>3. /\ h \in live /\ seen \in Seq(Entries) /\ all \in Seq(Entries)
    BY <2>1, <2>2 DEF Looping, LoopState
  <2>4. /\ h \notin Entries /\ s \in Seq(Entries) /\ Len(s) \in Nat
    BY <2>1, <2>2, <2>3, Neighbours
  <2>5. PICK d \in 0 .. Len(s) :
           /\ Len(all) = Len(seen) + (Len(s) - d)
           /\ \A i \in 1 .. Len(seen) : seen[i] = all[i]
           /\ loop.pos = At(s, h, d + 1)
    BY <2>1, <2>2 DEF Looping, LoopAt
  <2>6. Len(seen) \in Nat /\ Len(all) \in Nat /\ Len(seen) <= Len(all)
    BY <2>3, <2>4, <2>5, LenProperties
  <2>7. SubSeq(seen, 1, Len(seen)) = SubSeq(all, 1, Len(seen))
    BY <2>3, <2>5, <2>6
  <2>8. ASSUME loop.pos = h
        PROVE  seen = all
    <3>1. d = Len(s)
      <4>1. SUFFICES ASSUME d + 1 \in 1 .. Len(s)
                     PROVE  FALSE
        BY <2>4
      <4>2. loop.pos \in Entries
        BY <2>4, <2>5, <4>1, ElementOfSeq DEF At
      <4>3. QED
        BY <2>4, <2>8, <4>2
    <3>2. Len(seen) = Len(all)
      BY <2>4, <2>5, <2>6, <3>1
    <3>3. QED
      BY <2>3, <2>5, <3>2, SeqEqual
  <2>9. QED
    BY <2>2, <2>6, <2>7, <2>8 DEF IsPrefix
<1>2. QED
  BY ListInvariant, <1>1, PTL

(* list.h implements lists of entries, for any entries and any heads, and  *)
(* each operation is the one that its comment says: list_add inserts after *)
(* the head and list_add_tail before it, list_del and list_del_init take   *)
(* out the entry that they are given, list_splice joins a list to the      *)
(* front of another.                                                       *)
THEOREM ListImplementsSequences == ListSpec => ListSeqSpec
<1>1. ListInit => Abstract!Init
  BY DEF ListInit, Abstract!Init, Lists
<1>2. ListInv /\ [ListNext]_listVars => SeqStep
  BY PromisesKept
<1>3. ListInv /\ [ListNext]_listVars => [Abstract!Next]_Lists
  BY <1>2 DEF SeqStep
<1>4. ListInv /\ [ListNext]_listVars
         => [/\ CallsKeepPromise
             /\ loop.pos # loop.head => BodyKeepsPromise
             /\ LoopEnd => UNCHANGED Lists]_listVars
  BY <1>2 DEF SeqStep
<1>5. QED
  BY ListInvariant, <1>1, <1>3, <1>4, PTL DEF ListSpec, ListSeqSpec, Abstract!Spec
=============================================================================
