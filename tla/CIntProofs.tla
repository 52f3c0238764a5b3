----------------------------- MODULE CIntProofs -----------------------------
(***************************************************************************)
(* Theorems about the two places where the result depends on what an int   *)
(* of C cannot hold: the configuration store, for any files and any order  *)
(* in which lua_next returns the entries, and atoi, for texts of any       *)
(* length; both for any INT_MAX.                                           *)
(*                                                                         *)
(* The store is rebuilt entry by entry: a global whose entry has been read *)
(* is what the entry makes of it, and the others are as the Lua libraries  *)
(* left them.  atoi adds digit after digit without ever leaving the class  *)
(* of numbers that are the same int as the value of the text.              *)
(***************************************************************************)
EXTENDS Config, Atoi, SequenceTheorems, WellFoundedInduction, TLAPS

-----------------------------------------------------------------------------
(* Numbers.                                                                *)

\* Every set of numbers has a least one.
LEMMA LeastNumber ==
    ASSUME NEW T, T \subseteq Nat, T # {}
    PROVE  \E x \in T : \A y \in T : x <= y
<1> DEFINE R == OpToRel(<, Nat)
<1>1. IsWellFoundedOn(R, Nat)
  BY NatLessThanWellFounded
<1>2. PICK x \in T : \A y \in T : ~(<<y, x>> \in R)
  <2> HIDE DEF R
  <2>1. QED
    BY <1>1, WFMin
<1>3. \A y \in T : <<y, x>> \in R <=> y < x
  BY DEF OpToRel
<1>4. \A y \in T : y \in Nat /\ x \in Nat /\ ~(y < x)
  BY <1>2, <1>3
<1>5. QED
  BY <1>4

\* Two functions that differ have a first difference.
LEMMA FirstDifference ==
    ASSUME NEW N \in Nat, NEW f, NEW g, \E k \in 0 .. N : f[k] # g[k]
    PROVE  \E k \in 0 .. N : /\ f[k] # g[k]
                             /\ \A j \in 0 .. N : j < k => f[j] = g[j]
<1> DEFINE D == {k \in 0 .. N : f[k] # g[k]}
<1>1. D \subseteq Nat /\ D # {}
  OBVIOUS
<1>2. PICK k \in D : \A j \in D : k <= j
  <2> HIDE DEF D
  <2>1. QED
    BY <1>1, LeastNumber
<1>3. \A j \in 0 .. N : j < k => f[j] = g[j]
  BY <1>2
<1>4. QED
  BY <1>2, <1>3

-----------------------------------------------------------------------------
(* Numbers that are the same int.                                          *)

Modulus == 2 * (INT_MAX + 1)

Ints == -(INT_MAX + 1) .. INT_MAX

Same(a, b) == \E q \in Int : a = b + q * Modulus

LEMMA ModulusPositive == Modulus \in Nat /\ Modulus > 0
BY CIntAssumption DEF Modulus

\* Multiples of the modulus do not show in the remainder.
LEMMA NoMultiple ==
    ASSUME NEW m \in Nat, m > 0, NEW r \in 0 .. m - 1, NEW t \in 0 .. m - 1,
           NEW k \in Int, r = t + k * m
    PROVE  r = t
<1>1. CASE k >= 1
  <2>1. k * m >= m
    BY <1>1
  <2>2. QED
    BY <2>1
<1>2. CASE k <= -1
  <2>1. k * m <= -m
    BY <1>2
  <2>2. QED
    BY <2>1
<1>3. CASE k = 0
  BY <1>3
<1>4. QED
  BY <1>1, <1>2, <1>3

LEMMA Remainder ==
    ASSUME NEW n \in Int, NEW m \in Nat, m > 0
    PROVE  n % m \in 0 .. m - 1
OBVIOUS

LEMMA Quotient ==
    ASSUME NEW n \in Int, NEW m \in Nat, m > 0
    PROVE  n \div m \in Int /\ n = (n % m) + (n \div m) * m
OBVIOUS

LEMMA CIntSame ==
    ASSUME NEW n \in Int
    PROVE  CInt(n) \in Ints /\ Same(CInt(n), n)
<1> DEFINE half == INT_MAX + 1
           w == n + half
<1>1. half \in Nat /\ w \in Int /\ Modulus = 2 * half
  BY CIntAssumption DEF Modulus
<1>2. CInt(n) = (w % Modulus) - half
  BY DEF CInt, Modulus
<1>3. Ints = -half .. half - 1
  BY CIntAssumption DEF Ints
<1> HIDE DEF half
<1>4. PICK q \in Int : w = (w % Modulus) + q * Modulus
  BY <1>1, ModulusPositive, Quotient
<1>5. w % Modulus \in 0 .. Modulus - 1
  BY <1>1, ModulusPositive, Remainder
<1>6. CInt(n) = n + (-q) * Modulus
  BY <1>1, <1>2, <1>4, <1>5, ModulusPositive
<1>7. CInt(n) \in Ints
  BY <1>1, <1>2, <1>3, <1>5
<1>8. QED
  BY <1>6, <1>7 DEF Same

LEMMA SameInt ==
    ASSUME NEW a \in Ints, NEW b \in Int, Same(a, b)
    PROVE  a = CInt(b)
<1> DEFINE c == CInt(b)
           half == INT_MAX + 1
<1>1. PICK p \in Int : a = b + p * Modulus
  BY DEF Same
<1>2. c \in Ints /\ \E q \in Int : c = b + q * Modulus
  BY CIntSame DEF Same
<1> HIDE DEF c
<1>3. PICK q \in Int : c = b + q * Modulus
  BY <1>2
<1>4. /\ half \in Nat /\ Ints = -half .. half - 1 /\ Modulus = 2 * half
  BY CIntAssumption DEF Ints, Modulus
<1> HIDE DEF half
<1>5. a + half \in 0 .. Modulus - 1 /\ c + half \in 0 .. Modulus - 1
  BY <1>2, <1>4
<1>6. /\ p - q \in Int
      /\ a + half = c + half + (p - q) * Modulus
  BY <1>1, <1>2, <1>3, <1>4
<1>7. a + half = c + half
  BY <1>5, <1>6, NoMultiple, ModulusPositive
<1>8. QED
  BY <1>2, <1>4, <1>7 DEF c

\* An int stays what it is when it is stored in an int again.
LEMMA CIntOnce ==
    ASSUME NEW n \in Int
    PROVE  CInt(n) \in Int /\ CInt(CInt(n)) = CInt(n)
<1>1. CInt(n) \in Ints /\ CInt(n) \in Int
  BY CIntSame, CIntAssumption DEF Ints
<1>2. CInt(n) = CInt(n) + 0 * Modulus
  BY <1>1, ModulusPositive
<1>3. Same(CInt(n), CInt(n))
  BY <1>2 DEF Same
<1>4. QED
  BY <1>1, <1>3, SameInt

-----------------------------------------------------------------------------
(* The configuration store: the inductive invariant.                       *)

Done == DOMAIN file \ todo

GoodEntry(k) == /\ k \notin NonStringKeys
                /\ ~Unusable(file[k])
                /\ k \notin LuaGlobals

\* What the Lua libraries left.
Fresh(k) == IF k \in LuaGlobals THEN LibraryValue ELSE Nil

StoreInv ==
    /\ file \in Files
    /\ config \in {"start", "reading", "ready", "segv", "unread", "exit1", "abort"}
    /\ todo \subseteq DOMAIN file
    /\ DOMAIN globals = Keys
    /\ config = "ready" => todo = {}
    /\ config \in {"reading", "ready"} =>
           /\ \A k \in Done : GoodEntry(k) /\ globals[k] = Stored(file[k])
           /\ \A k \in todo : globals[k] = Fresh(k)
    /\ config = "abort" => CollidingEntries(file) # {}
    /\ config = "exit1" => InvalidEntries(file) # {}

LEMMA StoreInit == ConfigInit => StoreInv
BY DEF ConfigInit, StoreInv

LEMMA FileFacts ==
    ASSUME StoreInv
    PROVE  /\ DOMAIN file \subseteq Keys
           /\ \A k \in DOMAIN file :
                 file[k] \in [type : STRING, int : Int, text : STRING]
BY FilesAssumption DEF StoreInv

LEMMA LoadStep ==
    ASSUME StoreInv, load
    PROVE  StoreInv'
<1>1. CASE config' \in {"segv", "unread"}
  BY <1>1, FileFacts DEF StoreInv, load
<1>2. CASE /\ config' = "reading"
           /\ todo' = DOMAIN file
           /\ globals' = [k \in Keys |-> IF k \in LuaGlobals THEN LibraryValue ELSE Nil]
  <2>1. file' = file
    BY DEF load
  <2>2. \A k \in DOMAIN file : globals'[k] = Fresh(k)
    BY <1>2, FileFacts DEF Fresh
  <2>3. QED
    BY <1>2, <2>1, <2>2 DEF StoreInv, Done
<1>3. QED
  BY <1>1, <1>2 DEF load

\* A fresh global is nil exactly when the libraries do not define it.
LEMMA FreshType ==
    ASSUME NEW k
    PROVE  Fresh(k).type = "nil" <=> k \notin LuaGlobals
BY DEF Fresh, LibraryValue, Nil, LuaValue

LEMMA EntryStep ==
    ASSUME StoreInv, NEW key \in todo, init_entry(key)
    PROVE  StoreInv'
<1>1. /\ config = "reading" /\ file' = file /\ todo' = todo \ {key}
      /\ key \in DOMAIN file /\ key \in Keys
      /\ globals[key] = Fresh(key)
  BY FileFacts DEF init_entry, StoreInv
<1>2. CASE /\ key \in NonStringKeys \/ Unusable(file[key])
           /\ config' = "exit1"
           /\ UNCHANGED globals
  <2>1. key \in InvalidEntries(file)
    BY <1>1, <1>2 DEF InvalidEntries
  <2>2. QED
    BY <1>1, <1>2, <2>1 DEF StoreInv
<1>3. CASE /\ key \notin NonStringKeys /\ ~Unusable(file[key])
           /\ globals[key].type = "nil"
           /\ globals' = [globals EXCEPT ![key] = Stored(file[key])]
           /\ UNCHANGED config
  <2>1. GoodEntry(key)
    BY <1>1, <1>3, FreshType DEF GoodEntry
  <2>2. /\ globals'[key] = Stored(file[key])
        /\ \A k \in Keys \ {key} : globals'[k] = globals[k]
        /\ DOMAIN globals' = Keys
    BY <1>1, <1>3 DEF StoreInv
  <2>3. \A k \in Done' : GoodEntry(k)' /\ globals'[k] = Stored(file'[k])
    BY <1>1, <2>1, <2>2, FileFacts DEF StoreInv, Done, GoodEntry
  <2>4. \A k \in todo' : globals'[k] = Fresh(k)
    BY <1>1, <2>2, FileFacts DEF StoreInv
  <2>5. QED
    BY <1>1, <1>3, <2>2, <2>3, <2>4 DEF StoreInv
<1>4. CASE /\ key \notin NonStringKeys /\ ~Unusable(file[key])
           /\ globals[key].type # "nil"
           /\ config' = "abort"
           /\ UNCHANGED globals
  <2>1. key \in CollidingEntries(file)
    BY <1>1, <1>4, FreshType DEF CollidingEntries, InvalidEntries
  <2>2. QED
    BY <1>1, <1>4, <2>1 DEF StoreInv
<1>5. QED
  BY <1>2, <1>3, <1>4 DEF init_entry, config_set

LEMMA StoreStep ==
    ASSUME StoreInv, [ConfigNext]_configVars
    PROVE  StoreInv'
<1>1. CASE init_done
  BY <1>1 DEF init_done, StoreInv, Done, GoodEntry
<1>2. CASE UNCHANGED configVars
  BY <1>2 DEF configVars, StoreInv, Done, GoodEntry
<1>3. QED
  BY <1>1, <1>2, LoadStep, EntryStep DEF ConfigNext

LEMMA StoreInvariant == ConfigSpec => []StoreInv
<1>1. StoreInv /\ [ConfigNext]_configVars => StoreInv'
  BY StoreStep
<1>2. QED
  BY StoreInit, <1>1, PTL DEF ConfigSpec

-----------------------------------------------------------------------------
(* The configuration store: the theorems.                                  *)

(* config_init succeeds only with a file without invalid or colliding      *)
(* entries, calls exit(1) for a table that it has read only when that has  *)
(* an invalid entry, and an assertion fails only for one with a colliding  *)
(* entry, in whatever order lua_next returns the entries (__init_config,   *)
(* config_set_int, config_set_string).                                     *)
THEOREM OutcomeIsOfFile == ConfigSpec => []OutcomeOfFile
<1>1. StoreInv => OutcomeOfFile
  <2> SUFFICES ASSUME StoreInv, config \in {"ready", "abort", "exit1"}
               PROVE  config \in Outcomes(file)
    BY DEF OutcomeOfFile
  <2>1. CASE config = "ready"
    <3>1. \A k \in DOMAIN file : GoodEntry(k)
      BY <2>1 DEF StoreInv, Done
    <3>2. InvalidEntries(file) \cup CollidingEntries(file) = {}
      BY <3>1 DEF GoodEntry, InvalidEntries, CollidingEntries
    <3>3. QED
      BY <2>1, <3>2 DEF Outcomes
  <2>2. CASE config = "abort"
    BY <2>2 DEF StoreInv, Outcomes
  <2>3. CASE config = "exit1"
    BY <2>3 DEF StoreInv, Outcomes
  <2>4. QED
    BY <2>1, <2>2, <2>3
<1>2. QED
  BY StoreInvariant, <1>1, PTL

(* After a successful config_init config_get_int and config_get_string     *)
(* give what the file says, for every key of it and any width of int: a    *)
(* number that has been cut to an int once stays what it is.               *)
THEOREM ConfigReadable == ConfigSpec => []ReadyConfigReadable
<1>1. StoreInv => ReadyConfigReadable
  <2> SUFFICES ASSUME StoreInv, config = "ready", NEW k \in DOMAIN file
               PROVE  /\ config_get_int(k) = IntOf(file, k)
                      /\ config_get_string(k) = StringOf(file, k)
                      /\ file[k].type # "string" =>
                             config_get_string(k) = ToString(config_get_int(k))
    BY DEF ReadyConfigReadable
  <2>1. globals[k] = Stored(file[k]) /\ file[k].int \in Int
    BY FileFacts DEF StoreInv, Done
  <2>2. config_get_string(k) = StringOf(file, k)
    BY <2>1 DEF config_get_string, StringOf
  <2>3. CASE file[k].type = "string"
    BY <2>1, <2>2, <2>3 DEF Stored, config_get_int, IntOf
  <2>4. CASE file[k].type # "string"
    <3>1. /\ globals[k].int = CInt(file[k].int)
          /\ globals[k].text = ToString(CInt(file[k].int))
      BY <2>1, <2>4 DEF Stored, Number, LuaValue
    <3>2. config_get_int(k) = CInt(file[k].int)
      BY <2>1, <3>1, CIntOnce DEF config_get_int
    <3>3. QED
      BY <2>2, <3>1, <3>2 DEF IntOf, config_get_string
  <2>5. QED
    BY <2>3, <2>4
<1>2. QED
  BY StoreInvariant, <1>1, PTL

-----------------------------------------------------------------------------
(* atoi: the value of a text.                                              *)

\* v[n] is the value of the first n digits.
IsUpTo(v, s, n) == /\ v \in [0 .. n -> Int]
                   /\ v[0] = 0
                   /\ \A m \in 1 .. n : v[m] = 10 * v[m - 1] + s[m]

LEMMA UpToExists ==
    ASSUME NEW s \in Seq(Digits), NEW n \in 0 .. Len(s)
    PROVE  \E v : IsUpTo(v, s, n)
<1> DEFINE T == {k \in 0 .. Len(s) : ~ \E v : IsUpTo(v, s, k)}
<1>1. SUFFICES ASSUME T # {}
               PROVE  FALSE
  OBVIOUS
<1>2. T \subseteq Nat
  OBVIOUS
<1>3. PICK k \in T : \A j \in T : k <= j
  <2> HIDE DEF T
  <2>1. QED
    BY <1>1, <1>2, LeastNumber
<1>4. k \in 0 .. Len(s) /\ Len(s) \in Nat
  BY <1>3
<1>5. k # 0
  <2>1. IsUpTo([j \in 0 .. 0 |-> 0], s, 0)
    BY DEF IsUpTo
  <2>2. QED
    BY <1>3, <2>1
<1>6. k - 1 \in 0 .. Len(s) /\ k - 1 \notin T
  BY <1>3, <1>4, <1>5
<1>7. PICK u : IsUpTo(u, s, k - 1)
  BY <1>6
<1> DEFINE v == [j \in 0 .. k |-> IF j = k THEN 10 * u[k - 1] + s[k] ELSE u[j]]
<1>8. s[k] \in Int /\ u[k - 1] \in Int
  <2>1. k \in 1 .. Len(s) /\ k - 1 \in 0 .. k - 1
    BY <1>4, <1>5
  <2>2. s[k] \in Digits
    BY <2>1
  <2>3. QED
    BY <1>7, <2>1, <2>2 DEF IsUpTo, Digits
<1>9. v \in [0 .. k -> Int]
  BY <1>4, <1>7, <1>8 DEF IsUpTo
<1>10. v[0] = 0
  BY <1>4, <1>5, <1>7 DEF IsUpTo
<1>11. ASSUME NEW m \in 1 .. k
       PROVE  v[m] = 10 * v[m - 1] + s[m]
  <2>1. CASE m = k
    BY <1>4, <1>5, <2>1
  <2>2. CASE m # k
    <3>1. m \in 1 .. k - 1 /\ m \in 0 .. k /\ m - 1 \in 0 .. k /\ m - 1 # k
      BY <1>4, <2>2
    <3>2. v[m] = u[m] /\ v[m - 1] = u[m - 1]
      BY <2>2, <3>1
    <3>3. QED
      BY <1>7, <3>1, <3>2 DEF IsUpTo
  <2>3. QED
    BY <2>1, <2>2
<1>12. IsUpTo(v, s, k)
  <2> HIDE DEF v
  <2>1. QED
    BY <1>9, <1>10, <1>11 DEF IsUpTo
<1>13. QED
  BY <1>3, <1>12

\* The recursive function that defines Value is that one.
LEMMA ValueUpTo ==
    ASSUME NEW s \in Seq(Digits)
    PROVE  \E v : IsUpTo(v, s, Len(s)) /\ Value(s) = v[Len(s)]
<1> DEFINE Step(f) == [n \in 0 .. Len(s) |-> IF n = 0 THEN 0 ELSE 10 * f[n - 1] + s[n]]
           UpTo == CHOOSE f : f = Step(f)
<1>1. Len(s) \in Nat /\ Len(s) \in 0 .. Len(s)
  OBVIOUS
<1>2. PICK v : IsUpTo(v, s, Len(s))
  BY <1>1, UpToExists
<1>3. v = Step(v)
  <2>1. \A n \in 0 .. Len(s) : v[n] = Step(v)[n]
    BY <1>1, <1>2 DEF IsUpTo
  <2>2. QED
    BY <1>2, <2>1 DEF IsUpTo
<1>4. UpTo = Step(UpTo)
  <2> HIDE DEF Step
  <2>1. QED
    BY <1>3
<1>5. Value(s) = UpTo[Len(s)]
  BY Zenon DEF Value
<1> HIDE DEF UpTo
<1>6. /\ UpTo = [n \in 0 .. Len(s) |-> UpTo[n]]
      /\ UpTo[0] = 0
      /\ \A n \in 1 .. Len(s) : UpTo[n] = 10 * UpTo[n - 1] + s[n]
  BY <1>1, <1>4
<1>7. UpTo = v
  <2>1. SUFFICES ASSUME \E n \in 0 .. Len(s) : UpTo[n] # v[n]
                 PROVE  FALSE
    BY <1>2, <1>6 DEF IsUpTo
  <2>2. PICK n \in 0 .. Len(s) : /\ UpTo[n] # v[n]
                                 /\ \A j \in 0 .. Len(s) : j < n => UpTo[j] = v[j]
    <3> DEFINE N == Len(s)
    <3>1. N \in Nat /\ \E n \in 0 .. N : UpTo[n] # v[n]
      BY <1>1, <2>1
    <3> HIDE DEF N
    <3>2. \E n \in 0 .. N : /\ UpTo[n] # v[n]
                             /\ \A j \in 0 .. N : j < n => UpTo[j] = v[j]
      <4>1. \A f, g : (\E n \in 0 .. N : f[n] # g[n]) =>
               \E n \in 0 .. N : /\ f[n] # g[n]
                                 /\ \A j \in 0 .. N : j < n => f[j] = g[j]
        BY <3>1, FirstDifference
      <4>2. QED
        BY <3>1, <4>1
    <3>3. QED
      BY <3>2 DEF N
  <2>3. n # 0 /\ n \in 1 .. Len(s) /\ UpTo[n - 1] = v[n - 1]
    BY <1>1, <1>2, <1>6, <2>2 DEF IsUpTo
  <2>4. QED
    BY <1>2, <1>6, <2>2, <2>3 DEF IsUpTo
<1>8. QED
  BY <1>2, <1>5, <1>7

-----------------------------------------------------------------------------
(* atoi: the inductive invariant and the theorem.                          *)

\* One digit moves from the part that is still to be read to the sum.
LEMMA DigitMoves ==
    ASSUME NEW s \in Int, NEW t \in Int, NEW d \in Int, NEW rest \in Int,
           NEW total \in Int, Same(t * (10 * rest + d) + s, total)
    PROVE  Same(CInt(t * 10) * rest + CInt(s + t * d), total)
<1>1. s + t * d \in Int /\ t * 10 \in Int
  OBVIOUS
<1>2. Same(CInt(s + t * d), s + t * d) /\ Same(CInt(t * 10), t * 10)
  BY <1>1, CIntSame
<1>3. PICK p \in Int : CInt(s + t * d) = s + t * d + p * Modulus
  BY <1>2 DEF Same
<1>4. PICK q \in Int : CInt(t * 10) = t * 10 + q * Modulus
  BY <1>2 DEF Same
<1>5. PICK r \in Int : t * (10 * rest + d) + s = total + r * Modulus
  BY DEF Same
<1>6. CInt(t * 10) * rest + CInt(s + t * d)
        = (t * 10 + q * Modulus) * rest + (s + t * d + p * Modulus)
  BY <1>3, <1>4
<1>7. @ = t * (10 * rest + d) + s + (q * rest + p) * Modulus
  BY ModulusPositive
<1>8. @ = total + (r + q * rest + p) * Modulus
  BY <1>5, ModulusPositive
<1>9. r + q * rest + p \in Int
  OBVIOUS
<1>10. QED
  BY <1>6, <1>7, <1>8, <1>9 DEF Same

AllDigits == ToSet(text) \subseteq Digits

\* What has been read is in the sum, with its place values: the rest times the
\* next place value and the sum are the value of the whole text.
AtoiInv ==
    /\ text \in Texts
    /\ i \in 0 .. Len(text)
    /\ sum \in Ints
    /\ times \in Int
    /\ \A k \in 0 .. i - 1 : text[Len(text) - k] \in Digits
    /\ AllDigits => \A v : IsUpTo(v, text, Len(text)) =>
                       Same(times * v[Len(text) - i] + sum, v[Len(text)])
    /\ result # Other => \/ AllDigits /\ i = Len(text) /\ result = sum
                         \/ ~AllDigits /\ result = 0

LEMMA TextFacts ==
    ASSUME NEW t \in Texts
    PROVE  /\ t \in Seq(Digits \cup {Other})
           /\ Len(t) \in Nat
           /\ ToSet(t) \subseteq Digits <=> \A k \in 1 .. Len(t) : t[k] \in Digits
           /\ ToSet(t) \subseteq Digits => t \in Seq(Digits)
<1>1. t \in Seq(Digits \cup {Other})
  BY AtoiAssumption DEF Digits
<1>2. Len(t) \in Nat /\ DOMAIN t = 1 .. Len(t)
  BY <1>1
<1>3. ToSet(t) \subseteq Digits <=> \A k \in 1 .. Len(t) : t[k] \in Digits
  BY <1>2 DEF ToSet
<1>4. (\A k \in 1 .. Len(t) : t[k] \in Digits) => t \in Seq(Digits)
  BY <1>1, <1>2
<1>5. QED
  BY <1>1, <1>2, <1>3, <1>4

LEMMA InitAtoi == AtoiInit => AtoiInv
<1> SUFFICES ASSUME AtoiInit
             PROVE  AtoiInv
  OBVIOUS
<1>1. Len(text) \in Nat /\ 0 \in Ints
  BY TextFacts, CIntAssumption DEF AtoiInit, Ints
<1>2. ASSUME NEW v, IsUpTo(v, text, Len(text))
      PROVE  Same(times * v[Len(text) - i] + sum, v[Len(text)])
  <2>1. v[Len(text)] \in Int
    BY <1>1, <1>2 DEF IsUpTo
  <2>2. times * v[Len(text) - i] + sum = v[Len(text)] + 0 * Modulus
    BY <1>1, <2>1, ModulusPositive DEF AtoiInit
  <2>3. QED
    BY <2>2 DEF Same
<1>3. QED
  BY <1>1, <1>2 DEF AtoiInit, AtoiInv

LEMMA DigitStep ==
    ASSUME AtoiInv, AddDigit
    PROVE  AtoiInv'
<1> DEFINE n == Len(text)
           d == text[n - i]
<1>1. /\ text' = text /\ result' = result /\ i' = i + 1
      /\ result = Other /\ i < n /\ d \in Digits
      /\ sum' = CInt(sum + times * d)
      /\ times' = CInt(times * 10)
  BY DEF AddDigit, Running, LastButI
<1>2. n \in Nat /\ i \in Nat /\ sum \in Int /\ times \in Int /\ d \in Int
  BY <1>1, TextFacts, CIntAssumption DEF AtoiInv, Ints, Digits
<1>3. sum' \in Ints /\ times' \in Int
  <2>1. sum + times * d \in Int /\ times * 10 \in Int
    BY <1>2
  <2>2. CInt(sum + times * d) \in Ints /\ CInt(times * 10) \in Ints
    BY <2>1, CIntSame
  <2>3. Ints \subseteq Int
    BY CIntAssumption DEF Ints
  <2>4. QED
    BY <1>1, <2>2, <2>3
<1>4. \A k \in 0 .. i' - 1 : text'[Len(text') - k] \in Digits
  BY <1>1, <1>2 DEF AtoiInv
<1>5. ASSUME AllDigits, NEW v, IsUpTo(v, text, n)
      PROVE  Same(times' * v[n - i'] + sum', v[n])
  <2>1. /\ n - i \in 1 .. n /\ n - i' = n - i - 1
        /\ v[n - i] = 10 * v[n - i - 1] + d
        /\ v[n - i - 1] \in Int /\ v[n] \in Int
    <3>1. /\ n - i \in 1 .. n /\ n - i' = n - i - 1
          /\ n - i - 1 \in 0 .. n /\ n \in 0 .. n
      BY <1>1, <1>2
    <3> HIDE DEF n
    <3>2. v[n - i] = 10 * v[n - i - 1] + d
      BY <1>5, <3>1 DEF IsUpTo
    <3>3. QED
      BY <1>5, <3>1, <3>2 DEF IsUpTo
  <2>2. Same(times * (10 * v[n - i - 1] + d) + sum, v[n])
    BY <1>5, <2>1 DEF AtoiInv
  <2>3. QED
    BY <1>1, <1>2, <2>1, <2>2, DigitMoves
<1>6. i' \in 0 .. Len(text')
  BY <1>1, <1>2
<1>7. text' \in Texts
  BY <1>1 DEF AtoiInv
<1>8. AllDigits' => AllDigits
  BY <1>1 DEF AllDigits
<1>9. QED
  BY <1>1, <1>3, <1>4, <1>5, <1>6, <1>7, <1>8 DEF AtoiInv

LEMMA ReturnStep ==
    ASSUME AtoiInv, Return
    PROVE  AtoiInv'
<1> DEFINE n == Len(text)
<1>1. UNCHANGED <<text, i, sum, times>>
  BY DEF Return
<1>2. /\ n \in Nat /\ i \in 0 .. n
      /\ AllDigits <=> \A k \in 1 .. n : text[k] \in Digits
  BY TextFacts DEF AtoiInv, AllDigits
<1>3. CASE i < n /\ text[n - i] \notin Digits /\ result' = 0
  <2>1. ~AllDigits
    BY <1>2, <1>3
  <2>2. QED
    BY <1>1, <1>3, <2>1 DEF AtoiInv, AllDigits
<1>4. CASE ~(i < n) /\ result' = sum
  <2>1. i = n
    BY <1>2, <1>4
  <2>2. ASSUME NEW k \in 1 .. n
        PROVE  text[k] \in Digits
    <3>1. n - k \in 0 .. i - 1 /\ n - (n - k) = k
      BY <1>2, <2>1
    <3>2. QED
      BY <3>1 DEF AtoiInv
  <2>3. AllDigits
    BY <1>2, <2>2
  <2>4. QED
    BY <1>1, <1>4, <2>1, <2>3 DEF AtoiInv, AllDigits
<1>5. QED
  BY <1>3, <1>4 DEF Return, Running, LastButI

LEMMA AtoiInvariant == AtoiSpec => []AtoiInv
<1>1. AtoiInv /\ [AtoiNext]_atoiVars => AtoiInv'
  <2>1. ASSUME AtoiInv, UNCHANGED atoiVars
        PROVE  AtoiInv'
    BY <2>1 DEF atoiVars, AtoiInv, AllDigits
  <2>2. QED
    BY <2>1, DigitStep, ReturnStep DEF AtoiNext
<1>2. QED
  BY InitAtoi, <1>1, PTL DEF AtoiSpec

(* atoi returns the value of every text of digits, of any length, wrapped  *)
(* like an int, although its place value overflows before the sum does;    *)
(* and 0 for any other text (the loop of src/utils/atoi.c).                *)
THEOREM AtoiCorrect == AtoiSpec => []AtoiIsValue
<1>1. AtoiInv => AtoiIsValue
  <2> SUFFICES ASSUME AtoiInv, result # Other
               PROVE  result = IF ToSet(text) \subseteq Digits
                               THEN CInt(Value(text)) ELSE 0
    BY DEF AtoiIsValue
  <2>1. CASE ~AllDigits
    BY <2>1 DEF AtoiInv, AllDigits
  <2>2. CASE AllDigits
    <3>1. text \in Seq(Digits) /\ Len(text) \in Nat
      BY <2>2, TextFacts DEF AtoiInv, AllDigits
    <3>2. PICK v : IsUpTo(v, text, Len(text)) /\ Value(text) = v[Len(text)]
      BY <3>1, ValueUpTo
    <3>3. i = Len(text) /\ result = sum /\ sum \in Ints /\ times \in Int
      BY <2>2 DEF AtoiInv
    <3>4. Same(times * v[Len(text) - i] + sum, v[Len(text)])
      BY <2>2, <3>2 DEF AtoiInv
    <3>5. Len(text) - i = 0 /\ v[0] = 0 /\ v[Len(text)] \in Int /\ sum \in Int
      BY <3>1, <3>2, <3>3, CIntAssumption DEF IsUpTo, Ints
    <3>6. times * v[Len(text) - i] + sum = sum
      BY <3>3, <3>5
    <3>7. Same(sum, Value(text))
      BY <3>2, <3>4, <3>6
    <3>8. result = CInt(Value(text))
      BY <3>2, <3>3, <3>5, <3>7, SameInt
    <3>9. QED
      BY <2>2, <3>8 DEF AllDigits
  <2>3. QED
    BY <2>1, <2>2
<1>2. QED
  BY AtoiInvariant, <1>1, PTL
=============================================================================
