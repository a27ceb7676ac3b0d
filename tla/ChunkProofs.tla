----------------------------- MODULE ChunkProofs -----------------------------
(***************************************************************************)
(* For any table, batch size, limit and offset: ChunkTx hands over rows in *)
(* ascending order and within its limit, loses none that stays in the      *)
(* table, and has the cursor ready whenever GORM reads it.                 *)
(*                                                                         *)
(* GORM counts batches and rows and gplus counts for itself; the invariant *)
(* says how the counters go together (Counted): while GORM has not shrunk  *)
(* its size every batch was full, and once it has the rest fits the limit. *)
(* What was jumped over so far is at most the offset (Skipped).            *)
(***************************************************************************)
EXTENDS Chunk, FiniteSetTheorems, SequenceTheorems, TLAPS

Ascending(s) == \A i \in DOMAIN s, j \in DOMAIN s : i < j => s[i] < s[j]

Initial == FirstSize(batchSize, limit)

(* Where the loop is in the scan.                                          *)
Position ==
    /\ pc # "stopped" => err = "none"
    /\ pc = "find" => /\ after = IF handed = <<>> THEN NoKey ELSE Last(handed)
                      /\ batchNo = 0 <=> handed = <<>>
    /\ pc \in {"callback", "advance"} => batchNo > 0 /\ got <= size /\ Read # <<>>
    /\ pc = "callback" => got = Len(batch) /\ got > 0 /\ batch \in Seq(Keys)

(* The counters.                                                           *)
Counted ==
    /\ pc = "find" =>
           \/ /\ size = Initial /\ Len(handed) = batchNo * Initial
              /\ limit > 0 => batchNo * Initial + Initial <= limit
           \/ limit > 0 /\ Len(handed) + size = limit
    /\ pc \in {"callback", "advance"} =>
           \/ /\ size = Initial /\ Len(Read) + Initial = batchNo * Initial + got
              /\ limit > 0 => batchNo * Initial <= limit
           \/ limit > 0 /\ Len(Read) + size = limit + got
    /\ limit > 0 => Len(Read) <= limit

(* After the callback the slice holds the last key when it is needed.      *)
Cursor ==
    pc = "advance" =>
        batch = IF got = batchSize /\ (limit = 0 \/ Len(handed) < limit)
                THEN <<Last(handed)>> ELSE <<0>>

(* Rows behind the cursor that were not handed over.                       *)
Missed == {k \in stable : Read # <<>> /\ k <= Last(Read)} \ ToSet(Read)
Skipped == pc # "stopped" => Cardinality(Missed) <= offset

(* A short batch reached the end of the table.                             *)
Complete ==
    pc \in {"callback", "advance"} /\ got < size => \A k \in stable : k <= Last(Read)

IInv == /\ TypeOK /\ Position /\ Counted /\ Cursor /\ Ascending(Read)
        /\ Skipped /\ Complete /\ NothingLost

-----------------------------------------------------------------------------
(* Keys in order.                                                          *)

LEMMA BeforeSmaller ==
    ASSUME NEW S \in SUBSET Nat, IsFiniteSet(S), NEW k \in S
    PROVE  /\ IsFiniteSet(Before(S, k)) /\ Cardinality(Before(S, k)) \in Nat
           /\ Cardinality(S) \in Nat /\ Cardinality(Before(S, k)) < Cardinality(S)
<1>1. Before(S, k) \in SUBSET S /\ k \notin Before(S, k)  BY DEF Before
<1>2. /\ IsFiniteSet(Before(S, k))
      /\ Cardinality(Before(S, k)) <= Cardinality(S)
      /\ Cardinality(S) = Cardinality(Before(S, k)) => S = Before(S, k)
  BY <1>1, FS_Subset
<1>3. Cardinality(Before(S, k)) \in Nat /\ Cardinality(S) \in Nat
  BY <1>2, FS_CardinalityType
<1> QED  BY <1>1, <1>2, <1>3

LEMMA BeforeGrows ==
    ASSUME NEW S \in SUBSET Nat, IsFiniteSet(S), NEW j \in S, NEW k \in S, j < k
    PROVE  Cardinality(Before(S, j)) < Cardinality(Before(S, k))
<1>1. /\ Before(S, k) \in SUBSET Nat /\ IsFiniteSet(Before(S, k)) /\ j \in Before(S, k)
  BY BeforeSmaller DEF Before
<1>2. \A x \in S : x < j => x < k  OBVIOUS
<1>3. Before(Before(S, k), j) = Before(S, j)  BY <1>2 DEF Before
<1> QED  BY <1>1, <1>3, BeforeSmaller

(* Every place from 1 to the size of the set is taken by one key.          *)
LEMMA PlaceTaken ==
    ASSUME NEW S \in SUBSET Nat, IsFiniteSet(S), NEW i \in 1..Cardinality(S)
    PROVE  \E k \in S : Cardinality(Before(S, k)) = i - 1
<1> DEFINE n == Cardinality(S)
           place == [k \in S |-> Cardinality(Before(S, k)) + 1]
<1>1. n \in Nat /\ IsFiniteSet(1..n) /\ Cardinality(1..n) = n
  BY FS_CardinalityType, FS_Interval
<1>2. \A k \in S : Cardinality(Before(S, k)) \in 0..n - 1
  BY BeforeSmaller
<1>3. place \in [S -> 1..n]  BY <1>1, <1>2
<1>4. \A j, k \in S : j # k => place[j] # place[k]
  <2> SUFFICES ASSUME NEW j \in S, NEW k \in S, j < k PROVE place[j] # place[k]
    OBVIOUS
  <2> QED  BY <1>2, BeforeGrows
<1>5. place \in Injection(S, 1..n)
  BY <1>3, <1>4 DEF Injection, IsInjective
<1>6. place \in Surjection(S, 1..n)
  <2> HIDE DEF place
  <2> QED  BY <1>1, <1>5, FS_Injection
<1>7. PICK k \in S : place[k] = i
  BY <1>6 DEF Surjection
<1> QED  BY <1>1, <1>2, <1>7

LEMMA InOrderProperties ==
    ASSUME NEW S \in SUBSET Nat, IsFiniteSet(S)
    PROVE  /\ Cardinality(S) \in Nat
           /\ InOrder(S) \in [1..Cardinality(S) -> S]
           /\ InOrder(S) \in Seq(S) /\ Len(InOrder(S)) = Cardinality(S)
           /\ Ascending(InOrder(S))
           /\ \A i \in 1..Cardinality(S) : Cardinality(Before(S, InOrder(S)[i])) = i - 1
           /\ \A k \in S : \E i \in 1..Cardinality(S) : InOrder(S)[i] = k
<1>1. Cardinality(S) \in Nat  BY FS_CardinalityType
<1>2. ASSUME NEW i \in 1..Cardinality(S)
      PROVE  InOrder(S)[i] \in S /\ Cardinality(Before(S, InOrder(S)[i])) = i - 1
  BY PlaceTaken DEF InOrder
<1>3. InOrder(S) \in [1..Cardinality(S) -> S]  BY <1>2 DEF InOrder
<1>4. InOrder(S) \in Seq(S) /\ Len(InOrder(S)) = Cardinality(S)  BY <1>1, <1>3
<1>5. \A j, k \in S : Cardinality(Before(S, j)) = Cardinality(Before(S, k)) => j = k
  <2> SUFFICES ASSUME NEW j \in S, NEW k \in S, j < k
               PROVE  Cardinality(Before(S, j)) # Cardinality(Before(S, k))
    OBVIOUS
  <2> QED  BY BeforeGrows, BeforeSmaller
<1>6. Ascending(InOrder(S))
  <2> SUFFICES ASSUME NEW i \in 1..Cardinality(S), NEW j \in 1..Cardinality(S), i < j,
                      ~(InOrder(S)[i] < InOrder(S)[j])
               PROVE  FALSE
    BY <1>3 DEF Ascending
  <2> PICK x \in S : x = InOrder(S)[i] /\ Cardinality(Before(S, x)) = i - 1  BY <1>2
  <2> PICK y \in S : y = InOrder(S)[j] /\ Cardinality(Before(S, y)) = j - 1  BY <1>2
  <2>1. x = y \/ y < x  OBVIOUS
  <2>2. CASE x = y  BY <2>2
  <2>3. CASE y < x
    <3>1. Cardinality(Before(S, y)) < Cardinality(Before(S, x))  BY <2>3, BeforeGrows
    <3> QED  BY <3>1
  <2> QED  BY <2>1, <2>2, <2>3
<1>7. ASSUME NEW k \in S PROVE \E i \in 1..Cardinality(S) : InOrder(S)[i] = k
  <2>1. Cardinality(Before(S, k)) + 1 \in 1..Cardinality(S)
    BY BeforeSmaller
  <2>2. Cardinality(Before(S, InOrder(S)[Cardinality(Before(S, k)) + 1]))
        = Cardinality(Before(S, k))
    BY <1>2, <2>1, BeforeSmaller
  <2> QED  BY <1>2, <1>5, <2>1, <2>2
<1> QED  BY <1>1, <1>2, <1>3, <1>4, <1>6, <1>7

(* A batch is cut out of the keys ahead of the cursor.                     *)
CutFrom(A, skip, n, rows) ==
    rows = SubSeq(InOrder(A), skip + 1, IF skip + n <= Len(InOrder(A)) THEN skip + n
                                                                       ELSE Len(InOrder(A)))

LEMMA BatchProperties ==
    ASSUME NEW A \in SUBSET Nat, IsFiniteSet(A), NEW skip \in Nat, NEW n \in Nat \ {0},
           NEW rows, CutFrom(A, skip, n, rows)
    PROVE  /\ rows \in Seq(A) /\ Len(rows) <= n /\ Ascending(rows)
           /\ rows = <<>> => Cardinality(A) <= skip
           /\ rows # <<>> =>
                 /\ Len(rows) > 0
                 /\ Cardinality(Before(A, rows[1])) = skip
                 /\ \A k \in A : k <= Last(rows) /\ k \notin ToSet(rows) => k < rows[1]
                 /\ Len(rows) < n => \A k \in A : k <= Last(rows)
<1> PICK keys : keys = InOrder(A)  OBVIOUS
<1> PICK m : m = Cardinality(A)  OBVIOUS
<1> PICK last : last = IF skip + n <= Len(keys) THEN skip + n ELSE Len(keys)  OBVIOUS
<1>1. /\ m \in Nat /\ keys \in [1..m -> A] /\ keys \in Seq(A) /\ Len(keys) = m
      /\ Ascending(keys)
      /\ \A i \in 1..m : Cardinality(Before(A, keys[i])) = i - 1
      /\ \A k \in A : \E i \in 1..m : keys[i] = k
  BY InOrderProperties
<1>2. last = (IF skip + n <= m THEN skip + n ELSE m) /\ rows = SubSeq(keys, skip + 1, last)
  BY <1>1 DEF CutFrom
<1>3. /\ rows \in Seq(A)
      /\ Len(rows) = IF skip + 1 <= last THEN last - skip ELSE 0
      /\ \A i \in 1 .. last - skip : rows[i] = keys[skip + i]
  <2>1. \A i \in skip + 1 .. last : keys[i] \in A  BY <1>1, <1>2
  <2>2. /\ SubSeq(keys, skip + 1, last) \in Seq(A)
        /\ Len(SubSeq(keys, skip + 1, last)) =
              IF skip + 1 <= last THEN last - (skip + 1) + 1 ELSE 0
        /\ \A i \in 1 .. last - (skip + 1) + 1 :
              SubSeq(keys, skip + 1, last)[i] = keys[skip + 1 + i - 1]
    BY <1>1, <1>2, <2>1, SubSeqProperties
  <2>3. /\ last - (skip + 1) + 1 = last - skip
        /\ \A i \in 1 .. last - skip : skip + 1 + i - 1 = skip + i
    BY <1>1, <1>2
  <2> QED  BY <1>1, <1>2, <2>2, <2>3
<1>4. Len(rows) <= n  BY <1>1, <1>2, <1>3
<1>8. \A i \in 1..m : keys[i] \in A /\ keys[i] \in Nat
  <2> SUFFICES ASSUME NEW i \in 1..m PROVE keys[i] \in A  OBVIOUS
  <2> QED  BY <1>1
<1>5. Ascending(rows)
  <2>0. DOMAIN rows = 1..Len(rows)
    <3>1. rows \in Seq(A)  BY <1>3
    <3> QED  BY <3>1, LenProperties
  <2> SUFFICES ASSUME NEW i \in 1..Len(rows), NEW j \in 1..Len(rows), i < j
               PROVE  rows[i] < rows[j]
    BY <2>0 DEF Ascending
  <2>1. i \in 1 .. last - skip /\ j \in 1 .. last - skip /\ skip + i \in 1..m /\ skip + j \in 1..m
    BY <1>1, <1>2, <1>3
  <2>2. keys[skip + i] < keys[skip + j]  BY <1>1, <2>1 DEF Ascending
  <2> QED  BY <1>3, <2>1, <2>2
<1>6. rows = <<>> => m <= skip  BY <1>1, <1>2, <1>3
<1>7. ASSUME rows # <<>>
      PROVE  /\ Len(rows) > 0 /\ skip + 1 <= last /\ last <= m
             /\ Cardinality(Before(A, rows[1])) = skip
             /\ \A k \in A : k <= Last(rows) /\ k \notin ToSet(rows) => k < rows[1]
             /\ Len(rows) < n => \A k \in A : k <= Last(rows)
  <2>1. /\ Len(rows) > 0 /\ skip + 1 <= last /\ last <= m /\ Len(rows) = last - skip
        /\ 1 \in 1 .. last - skip /\ last - skip \in 1 .. last - skip
    BY <1>1, <1>2, <1>3, <1>7, EmptySeq
  <2>2. rows[1] = keys[skip + 1] /\ Last(rows) = keys[last]
    <3>1. skip + (last - skip) = last  BY <1>1, <1>2
    <3> QED  BY <1>3, <2>1, <3>1 DEF Last
  <2>3. Cardinality(Before(A, rows[1])) = skip
    BY <1>1, <2>1, <2>2
  <2>4. ASSUME NEW k \in A, k <= Last(rows), k \notin ToSet(rows) PROVE k < rows[1]
    <3>1. PICK i \in 1..m : keys[i] = k  BY <1>1
    <3>2. CASE i <= skip  BY <1>1, <2>1, <2>2, <3>1, <3>2 DEF Ascending
    <3>3. CASE i > last
      <4>0. last \in 1..m /\ DOMAIN keys = 1..m  BY <1>1, <1>2, <2>1
      <4>1. keys[last] < keys[i] /\ keys[i] \in Nat /\ keys[last] \in Nat
        BY <1>8, <1>1, <3>1, <3>3, <4>0 DEF Ascending
      <4> QED  BY <2>2, <2>4, <3>1, <4>1
    <3>4. CASE i > skip /\ i <= last
      <4>1. i - skip \in 1 .. last - skip /\ skip + (i - skip) = i  BY <1>1, <2>1, <3>1, <3>4
      <4>2. rows[i - skip] = k /\ i - skip \in DOMAIN rows  BY <1>3, <2>1, <3>1, <4>1
      <4> QED  BY <2>4, <4>2 DEF ToSet
    <3> QED  BY <1>1, <2>1, <3>1, <3>2, <3>3, <3>4
  <2>5. ASSUME Len(rows) < n, NEW k \in A PROVE k <= Last(rows)
    <3>1. last = m  BY <1>1, <1>2, <2>1, <2>5
    <3>2. PICK i \in 1..m : keys[i] = k  BY <1>1
    <3>3. i = m \/ i < m  BY <1>1
    <3>4. keys[i] \in Nat /\ keys[m] \in Nat
      <4>1. m \in 1..m  BY <1>1, <1>2, <2>1
      <4> QED  BY <1>8, <4>1
    <3>5. i < m => keys[i] < keys[m]  BY <1>1, <2>1 DEF Ascending
    <3> QED  BY <2>2, <3>1, <3>2, <3>3, <3>4, <3>5
  <2> QED  BY <2>1, <2>3, <2>4, <2>5
<1> QED  BY <1>1, <1>3, <1>4, <1>5, <1>6, <1>7

-----------------------------------------------------------------------------
(* The parts of the state.                                                 *)

LEMMA TypeFacts ==
    ASSUME TypeOK
    PROVE  /\ batchSize \in Nat \ {0} /\ limit \in Nat /\ offset \in Nat
           /\ size \in Nat \ {0} /\ batchNo \in Nat /\ got \in Nat
           /\ Keys \subseteq Nat
           /\ \A S \in SUBSET Keys : IsFiniteSet(S) /\ Cardinality(S) \in Nat
           /\ Len(handed) \in Nat
           /\ Initial \in Nat \ {0} /\ Initial <= batchSize
           /\ limit = 0 => Initial = batchSize
           /\ limit > 0 => Initial <= limit /\ (Initial = batchSize \/ Initial = limit)
<1>1. batchSize \in Nat \ {0} /\ limit \in Nat /\ offset \in Nat
  BY ArgumentsAssumption DEF TypeOK
<1>2. \A S \in SUBSET Keys : IsFiniteSet(S) /\ Cardinality(S) \in Nat
  BY KeysAssumption, FS_Subset, FS_CardinalityType
<1>3. size \in Nat \ {0}  BY <1>1 DEF TypeOK
<1>4. Len(handed) \in Nat  BY DEF TypeOK
<1> QED
  BY <1>1, <1>2, <1>3, <1>4, KeysAssumption DEF TypeOK, Initial, FirstSize, Total

LEMMA ConcatFacts ==
    ASSUME NEW s \in Seq(Keys), NEW t \in Seq(Keys), t # <<>>
    PROVE  /\ s \o t \in Seq(Keys) /\ s \o t # <<>> /\ Len(s \o t) = Len(s) + Len(t)
           /\ Last(s \o t) = Last(t)
           /\ ToSet(s \o t) = ToSet(s) \cup ToSet(t)
           /\ Ascending(s) /\ Ascending(t) /\ (s = <<>> \/ \A i \in DOMAIN t : t[i] > Last(s)) =>
                  Ascending(s \o t)
<1> PICK u : u = s \o t  OBVIOUS
<1>1. /\ u \in Seq(Keys) /\ Len(u) = Len(s) + Len(t)
      /\ Len(s) \in Nat /\ Len(t) \in Nat \ {0}
      /\ DOMAIN s = 1..Len(s) /\ DOMAIN t = 1..Len(t) /\ DOMAIN u = 1 .. Len(s) + Len(t)
      /\ \A i \in 1 .. Len(s) + Len(t) : u[i] = IF i <= Len(s) THEN s[i] ELSE t[i - Len(s)]
  BY ConcatProperties, LenProperties, EmptySeq
<1>2. \A i \in 1..Len(s) : u[i] = s[i]  BY <1>1
<1>3. \A i \in 1..Len(t) : i + Len(s) \in 1 .. Len(s) + Len(t) /\ u[i + Len(s)] = t[i]
  <2> SUFFICES ASSUME NEW i \in 1..Len(t)
               PROVE  i + Len(s) \in 1 .. Len(s) + Len(t) /\ u[i + Len(s)] = t[i]
    OBVIOUS
  <2>1. i + Len(s) \in 1 .. Len(s) + Len(t) /\ ~(i + Len(s) <= Len(s)) /\ i + Len(s) - Len(s) = i
    BY <1>1
  <2> QED  BY <1>1, <2>1
<1>4. Last(u) = Last(t)
  <2>1. Len(t) \in 1..Len(t) /\ Len(t) + Len(s) = Len(u)  BY <1>1
  <2> QED  BY <1>3, <2>1 DEF Last
<1>5. ToSet(u) = ToSet(s) \cup ToSet(t)
  <2>1. ASSUME NEW i \in DOMAIN u PROVE u[i] \in ToSet(s) \cup ToSet(t)
    <3>1. CASE i <= Len(s)  BY <1>1, <2>1, <3>1 DEF ToSet
    <3>2. CASE ~(i <= Len(s))
      <4>1. i - Len(s) \in 1..Len(t) /\ u[i] = t[i - Len(s)]  BY <1>1, <2>1, <3>2
      <4> QED  BY <1>1, <4>1 DEF ToSet
    <3> QED  BY <3>1, <3>2
  <2>2. ASSUME NEW i \in DOMAIN s PROVE s[i] \in ToSet(u)
    <3>1. i \in DOMAIN u /\ u[i] = s[i]  BY <1>1, <1>2
    <3> QED  BY <3>1 DEF ToSet
  <2>3. ASSUME NEW i \in DOMAIN t PROVE t[i] \in ToSet(u)
    <3>1. i + Len(s) \in DOMAIN u /\ u[i + Len(s)] = t[i]  BY <1>1, <1>3
    <3> QED  BY <3>1 DEF ToSet
  <2>4. ToSet(u) \subseteq ToSet(s) \cup ToSet(t)
    <3> SUFFICES ASSUME NEW x \in ToSet(u) PROVE x \in ToSet(s) \cup ToSet(t)  OBVIOUS
    <3>1. PICK i \in DOMAIN u : x = u[i]  BY DEF ToSet
    <3> QED  BY <2>1, <3>1
  <2>5. ToSet(s) \subseteq ToSet(u)
    <3> SUFFICES ASSUME NEW x \in ToSet(s) PROVE x \in ToSet(u)  OBVIOUS
    <3>1. PICK i \in DOMAIN s : x = s[i]  BY DEF ToSet
    <3> QED  BY <2>2, <3>1
  <2>6. ToSet(t) \subseteq ToSet(u)
    <3> SUFFICES ASSUME NEW x \in ToSet(t) PROVE x \in ToSet(u)  OBVIOUS
    <3>1. PICK i \in DOMAIN t : x = t[i]  BY DEF ToSet
    <3> QED  BY <2>3, <3>1
  <2> QED  BY <2>4, <2>5, <2>6
<1>6. ASSUME Ascending(s), Ascending(t), s = <<>> \/ \A i \in DOMAIN t : t[i] > Last(s)
      PROVE  Ascending(u)
  <2> SUFFICES ASSUME NEW i \in 1 .. Len(s) + Len(t), NEW j \in 1 .. Len(s) + Len(t), i < j
               PROVE  u[i] < u[j]
    BY <1>1 DEF Ascending
  <2>1. CASE j <= Len(s)
    <3>1. i \in 1..Len(s) /\ j \in 1..Len(s)  BY <1>1, <2>1
    <3> QED  BY <1>1, <1>2, <1>6, <3>1 DEF Ascending
  <2>2. CASE i > Len(s)
    <3>1. /\ i - Len(s) \in 1..Len(t) /\ j - Len(s) \in 1..Len(t) /\ i - Len(s) < j - Len(s)
          /\ u[i] = t[i - Len(s)] /\ u[j] = t[j - Len(s)]
      BY <1>1, <2>2
    <3> QED  BY <1>1, <1>6, <3>1 DEF Ascending
  <2>3. CASE i <= Len(s) /\ ~(j <= Len(s))
    <3>1. /\ i \in 1..Len(s) /\ Len(s) \in 1..Len(s) /\ j - Len(s) \in 1..Len(t)
          /\ u[i] = s[i] /\ u[j] = t[j - Len(s)]
      BY <1>1, <2>3
    <3>2. s # <<>>  BY <3>1
    <3>3. t[j - Len(s)] > s[Len(s)]  BY <1>1, <1>6, <3>1, <3>2 DEF Last
    <3>4. i = Len(s) \/ s[i] < s[Len(s)]
      <4>0. Len(s) \in Nat  BY <1>1
      <4>1. i = Len(s) \/ i < Len(s)  BY <3>1, <4>0
      <4> QED  BY <1>1, <1>6, <3>1, <4>1 DEF Ascending
    <3>5. s[i] \in Nat /\ s[Len(s)] \in Nat /\ t[j - Len(s)] \in Nat
      BY <3>1, ElementOfSeq, KeysAssumption
    <3> QED  BY <3>1, <3>3, <3>4, <3>5
  <2> QED  BY <1>1, <2>1, <2>2, <2>3
<1> QED  BY <1>1, <1>4, <1>5, <1>6

LEMMA DivideFacts ==
    ASSUME NEW a \in Nat, NEW n \in Nat \ {0}, NEW b \in Nat, b * n < a
    PROVE  /\ a \div n = b => a % n = a - b * n /\ a % n > 0 /\ a % n < n
           /\ a \div n # b => b * n + n <= a
<1>1. a = n * (a \div n) + (a % n) /\ a % n \in 0 .. n - 1 /\ a \div n \in Nat
  OBVIOUS
<1> QED  BY <1>1

(* What a batch read from the table means for the rows that are there.     *)
AheadKeys == {k \in table : k > after}
Skip == IF batchNo = 0 THEN offset ELSE 0

LEMMA RowsRead ==
    ASSUME IInv, pc = "find", NEW rows, rows = Rows
    PROVE  /\ rows \in Seq(Keys) /\ Len(rows) \in Nat /\ Len(rows) <= size /\ Ascending(rows)
           /\ \A i \in DOMAIN rows : rows[i] > after /\ rows[i] \in table
           /\ rows = <<>> => Cardinality(stable \ ToSet(handed)) <= offset
           /\ rows # <<>> =>
                 /\ Len(rows) > 0
                 /\ Cardinality({k \in stable : k <= Last(rows)} \ (ToSet(handed) \cup ToSet(rows)))
                        <= offset
                 /\ Len(rows) < size => \A k \in stable : k <= Last(rows)
<1> PICK A : A = AheadKeys  OBVIOUS
<1> PICK skip : skip = Skip  OBVIOUS
<1>1. /\ TypeOK /\ size \in Nat \ {0} /\ offset \in Nat /\ skip \in Nat
      /\ Keys \subseteq Nat /\ \A S \in SUBSET Keys : IsFiniteSet(S) /\ Cardinality(S) \in Nat
  BY TypeFacts DEF IInv, Skip
<1>2. /\ A = {k \in table : k > after} /\ A \in SUBSET Nat /\ A \subseteq Keys /\ IsFiniteSet(A)
      /\ stable \subseteq table /\ table \subseteq Keys
  BY <1>1 DEF TypeOK, AheadKeys
<1>3. CutFrom(A, skip, size, rows)
  BY DEF CutFrom, Rows, AheadKeys, Skip
<1>4. /\ rows \in Seq(A) /\ Len(rows) <= size /\ Ascending(rows)
      /\ rows = <<>> => Cardinality(A) <= skip
      /\ rows # <<>> =>
            /\ Len(rows) > 0
            /\ Cardinality(Before(A, rows[1])) = skip
            /\ \A k \in A : k <= Last(rows) /\ k \notin ToSet(rows) => k < rows[1]
            /\ Len(rows) < size => \A k \in A : k <= Last(rows)
  BY <1>1, <1>2, <1>3, BatchProperties
<1>5. rows \in Seq(Keys) /\ Len(rows) \in Nat
  BY <1>2, <1>4, SeqMonotonic, LenProperties
<1>6. \A i \in DOMAIN rows : rows[i] \in A  BY <1>4, ElementOfSeq, LenProperties
<1>7. /\ after = IF handed = <<>> THEN NoKey ELSE Last(handed)
      /\ batchNo = 0 <=> handed = <<>>
      /\ after = NoKey \/ after \in Nat
  BY <1>1 DEF IInv, Position, TypeOK
<1>8. handed = <<>> => skip = offset /\ A = table /\ ToSet(handed) = {}
  <2> SUFFICES ASSUME handed = <<>> PROVE skip = offset /\ A = table /\ ToSet(handed) = {}
    OBVIOUS
  <2>1. skip = offset /\ after = -1  BY <1>7 DEF Skip, NoKey
  <2>2. \A k \in table : k > -1  BY <1>1, <1>2
  <2>3. A = table  BY <1>2, <2>1, <2>2
  <2>4. ToSet(handed) = {}  BY DEF ToSet
  <2> QED  BY <2>1, <2>3, <2>4
<1>9. handed # <<>> => /\ skip = 0 /\ after = Last(handed) /\ after \in Nat
                       /\ Cardinality({k \in stable : k <= after} \ ToSet(handed)) <= offset
  <2> SUFFICES ASSUME handed # <<>>
               PROVE  /\ skip = 0 /\ after = Last(handed) /\ after \in Nat
                      /\ Cardinality({k \in stable : k <= after} \ ToSet(handed)) <= offset
    OBVIOUS
  <2>1. skip = 0 /\ after = Last(handed) /\ Read = handed  BY <1>7 DEF Skip, Read
  <2>2. after \in Nat
    <3>1. handed \in Seq(Keys) /\ Len(handed) \in 1..Len(handed)  BY <1>1, EmptySeq DEF TypeOK
    <3> QED  BY <1>1, <2>1, <3>1, ElementOfSeq DEF Last
  <2>3. Missed = {k \in stable : k <= after} \ ToSet(handed)  BY <2>1 DEF Missed
  <2> QED  BY <2>1, <2>2, <2>3 DEF IInv, Skipped
<1>10. ASSUME rows = <<>> PROVE Cardinality(stable \ ToSet(handed)) <= offset
  <2>1. CASE handed = <<>>
    <3>1. stable \ ToSet(handed) \in SUBSET A  BY <1>2, <1>8, <2>1
    <3>2. Cardinality(stable \ ToSet(handed)) <= Cardinality(A)  BY <1>2, <3>1, FS_Subset
    <3> QED  BY <1>1, <1>2, <1>4, <1>8, <1>10, <2>1, <3>1, <3>2
  <2>2. CASE handed # <<>>
    <3>1. A = {}  BY <1>1, <1>2, <1>4, <1>9, <1>10, <2>2, FS_EmptySet
    <3>2. \A k \in stable : k <= after
      BY <1>1, <1>2, <1>9, <2>2, <3>1
    <3>3. stable \ ToSet(handed) = {k \in stable : k <= after} \ ToSet(handed)  BY <3>2
    <3> QED  BY <1>9, <2>2, <3>3
  <2> QED  BY <2>1, <2>2
<1>11. ASSUME rows # <<>>
       PROVE  Cardinality({k \in stable : k <= Last(rows)} \ (ToSet(handed) \cup ToSet(rows)))
                  <= offset
  <2> PICK M : M = {k \in stable : k <= Last(rows)} \ (ToSet(handed) \cup ToSet(rows))  OBVIOUS
  <2>1. \A k \in M : k \in A => k \in Before(A, rows[1])
    BY <1>4, <1>11 DEF Before
  <2>2. M \subseteq stable /\ M \subseteq Keys  BY <1>2
  <2>3. IsFiniteSet(Before(A, rows[1])) /\ Cardinality(Before(A, rows[1])) = skip
    <3>1. Before(A, rows[1]) \in SUBSET A  BY DEF Before
    <3> QED  BY <1>2, <1>4, <1>11, <3>1, FS_Subset
  <2>4. CASE handed = <<>>
    <3>1. M \in SUBSET Before(A, rows[1])  BY <1>2, <1>8, <2>1, <2>2, <2>4
    <3> QED  BY <1>8, <2>3, <2>4, <3>1, FS_Subset
  <2>5. CASE handed # <<>>
    <3>1. Before(A, rows[1]) = {}  BY <1>9, <2>3, <2>5, FS_EmptySet
    <3>2. \A k \in M : k <= after
      BY <1>1, <1>2, <1>9, <2>1, <2>2, <2>5, <3>1
    <3>3. M \in SUBSET ({k \in stable : k <= after} \ ToSet(handed))  BY <2>2, <3>2
    <3>4. {k \in stable : k <= after} \ ToSet(handed) \in SUBSET Keys  BY <1>2
    <3>5. Cardinality(M) <= Cardinality({k \in stable : k <= after} \ ToSet(handed))
      BY <1>1, <3>3, <3>4, FS_Subset
    <3> QED  BY <1>1, <1>9, <2>2, <2>5, <3>4, <3>5
  <2> QED  BY <2>4, <2>5
<1>12. ASSUME rows # <<>>, Len(rows) < size, NEW k \in stable PROVE k <= Last(rows)
  <2>1. CASE k \in A  BY <1>4, <1>12, <2>1
  <2>2. CASE k \notin A
    <3>1. k <= after /\ after \in Nat
      <4>1. k \in table /\ k \in Nat  BY <1>1, <1>2
      <4>2. handed # <<>>  BY <1>8, <2>2, <4>1
      <4> QED  BY <1>2, <1>9, <2>2, <4>1, <4>2
    <3>2. Last(rows) \in A
      <4>1. Len(rows) \in DOMAIN rows  BY <1>4, <1>12, LenProperties
      <4> QED  BY <1>6, <4>1 DEF Last
    <3> QED  BY <1>1, <1>2, <3>1, <3>2
  <2> QED  BY <2>1, <2>2
<1> QED  BY <1>2, <1>4, <1>5, <1>6, <1>10, <1>11, <1>12

-----------------------------------------------------------------------------
(* The steps.                                                              *)

LEMMA InitEstablishes == Init => IInv
<1> SUFFICES ASSUME Init PROVE IInv  OBVIOUS
<1>1. /\ batchSize \in Nat \ {0} /\ limit \in Nat /\ offset \in Nat
      /\ size = Initial /\ Initial \in 1..batchSize /\ (limit > 0 => Initial <= limit)
  BY ArgumentsAssumption DEF Init, Initial, FirstSize, Total
<1>2. TypeOK  BY <1>1, EmptySeq DEF Init, TypeOK, NoKey
<1>3. Read = <<>> /\ handed = <<>> /\ Len(handed) = 0 /\ pc = "find" /\ batchNo = 0
      /\ err = "none" /\ after = NoKey
  BY EmptySeq DEF Init, Read
<1>4. Position  BY <1>3 DEF Position
<1>5. Counted
  <2>1. 0 * Initial = 0  BY <1>1
  <2> QED  BY <1>1, <1>3, <2>1 DEF Counted
<1>6. Cursor /\ Complete /\ NothingLost  BY <1>3 DEF Cursor, Complete, NothingLost
<1>7. Ascending(Read)  BY <1>3 DEF Ascending
<1>8. Missed = {}  BY <1>3 DEF Missed
<1>9. Skipped  BY <1>1, <1>8, FS_EmptySet DEF Skipped
<1> QED  BY <1>2, <1>4, <1>5, <1>6, <1>7, <1>9 DEF IInv

LEMMA FindStep == ASSUME IInv, Find PROVE IInv'
<1> PICK rows : rows = Rows  OBVIOUS
<1>1. /\ pc = "find" /\ batch' = rows /\ batchNo' = batchNo + 1 /\ got' = Len(rows)
      /\ IF rows = <<>> THEN pc' = "stopped" /\ err' = "none" ELSE pc' = "callback" /\ err' = err
      /\ UNCHANGED <<batchSize, limit, offset, table, stable, size, after, handed>>
      /\ Read = handed /\ handed \in Seq(Keys) /\ Initial' = Initial
  BY DEF Find, Stop, args, Read, IInv, TypeOK, Initial
<1>2. /\ rows \in Seq(Keys) /\ Len(rows) \in Nat /\ Len(rows) <= size /\ Ascending(rows)
      /\ \A i \in DOMAIN rows : rows[i] > after /\ rows[i] \in table
      /\ rows = <<>> => Cardinality(stable \ ToSet(handed)) <= offset
      /\ rows # <<>> =>
            /\ Len(rows) > 0
            /\ Cardinality({k \in stable : k <= Last(rows)} \ (ToSet(handed) \cup ToSet(rows)))
                   <= offset
            /\ Len(rows) < size => \A k \in stable : k <= Last(rows)
  BY <1>1, RowsRead
<1>3. /\ batchSize \in Nat \ {0} /\ limit \in Nat /\ offset \in Nat
      /\ size \in Nat \ {0} /\ batchNo \in Nat /\ Len(handed) \in Nat /\ Initial \in Nat \ {0}
  BY TypeFacts DEF IInv
<1>4. TypeOK'
  <2>1. batch' \in Seq(Keys \cup {0})  BY <1>1, <1>2, SeqMonotonic
  <2> QED  BY <1>1, <1>2, <1>3, <2>1 DEF IInv, TypeOK
<1>5. CASE rows = <<>>
  <2>1. Read' = handed /\ pc' = "stopped"  BY <1>1, <1>5 DEF Read
  <2>2. Position' /\ Cursor' /\ Skipped' /\ Complete'
    BY <2>1 DEF Position, Cursor, Skipped, Complete
  <2>3. Counted'  BY <1>1, <2>1 DEF IInv, Counted
  <2>4. Ascending(Read)'  BY <1>1, <2>1 DEF IInv, Ascending
  <2>5. NothingLost'  BY <1>1, <1>2, <1>5 DEF NothingLost
  <2> QED  BY <1>4, <2>2, <2>3, <2>4, <2>5 DEF IInv
<1>6. CASE rows # <<>>
  <2>1. Read' = handed \o rows /\ pc' = "callback"  BY <1>1, <1>6 DEF Read
  <2>2. /\ Read' # <<>> /\ Len(Read') = Len(handed) + Len(rows) /\ Last(Read') = Last(rows)
        /\ ToSet(Read') = ToSet(handed) \cup ToSet(rows)
        /\ Ascending(handed) /\ Ascending(rows)
                /\ (handed = <<>> \/ \A i \in DOMAIN rows : rows[i] > Last(handed)) =>
               Ascending(handed \o rows)
    BY <1>1, <1>2, <1>6, <2>1, ConcatFacts
  <2>3. Position'
    BY <1>1, <1>2, <1>3, <1>6, <2>1, <2>2 DEF IInv, Position
  <2>4. Counted'
    <3>1. (batchNo + 1) * Initial = batchNo * Initial + Initial  BY <1>3
    <3>2. \/ /\ size = Initial /\ Len(handed) = batchNo * Initial
             /\ limit > 0 => batchNo * Initial + Initial <= limit
          \/ limit > 0 /\ Len(handed) + size = limit
      BY <1>1 DEF IInv, Counted
    <3>3. batchNo * Initial \in Nat  BY <1>3
    <3>4. limit > 0 => Len(handed) + Len(rows) <= limit
      BY <1>2, <1>3, <3>2, <3>3
    <3>5. \/ /\ size = Initial
             /\ Len(handed) + Len(rows) + Initial = batchNo * Initial + Initial + Len(rows)
             /\ limit > 0 => batchNo * Initial + Initial <= limit
          \/ limit > 0 /\ Len(handed) + Len(rows) + size = limit + Len(rows)
      BY <1>2, <1>3, <3>2, <3>3
    <3> QED  BY <1>1, <2>1, <2>2, <3>1, <3>4, <3>5 DEF Counted
  <2>5. Cursor' /\ NothingLost'  BY <2>1 DEF Cursor, NothingLost
  <2>6. Ascending(Read)'
    <3>1. Ascending(handed)  BY <1>1 DEF IInv
    <3>2. handed # <<>> => after = Last(handed)  BY <1>1 DEF IInv, Position
    <3>3. Ascending(Read')  BY <1>2, <2>1, <2>2, <3>1, <3>2
    <3> QED  BY <3>3 DEF Ascending
  <2>7. Skipped'
    <3>1. Missed' = {k \in stable : k <= Last(rows)} \ (ToSet(handed) \cup ToSet(rows))
      BY <1>1, <2>2 DEF Missed
    <3> QED  BY <1>1, <1>2, <1>6, <3>1 DEF Skipped
  <2>8. Complete'  BY <1>1, <1>2, <1>6, <2>2 DEF Complete
  <2> QED  BY <1>4, <2>3, <2>4, <2>5, <2>6, <2>7, <2>8 DEF IInv
<1> QED  BY <1>5, <1>6

(* What was read has been handed over.                                     *)
LEMMA HandedOver ==
    ASSUME IInv, pc = "callback", handed' = handed \o batch, pc' # "callback",
           UNCHANGED <<batchSize, limit, offset, table, stable, size, batchNo, got, after>>
    PROVE  /\ Read' = Read /\ handed' = Read /\ Read \in Seq(Keys) /\ Read # <<>>
           /\ Last(Read) = Last(batch) /\ Initial' = Initial /\ Missed' = Missed
           /\ Ascending(Read)'
<1>1. handed \in Seq(Keys) /\ batch \in Seq(Keys) /\ batch # <<>>
  BY EmptySeq DEF IInv, TypeOK, Position
<1>2. Read' = Read /\ handed' = Read /\ Read = handed \o batch  BY DEF Read
<1>3. Read \in Seq(Keys) /\ Read # <<>> /\ Last(Read) = Last(batch)
  BY <1>1, <1>2, ConcatFacts
<1>4. Missed' = Missed /\ Initial' = Initial  BY <1>2 DEF Missed, Initial
<1>5. Ascending(Read)'  BY <1>2 DEF IInv, Ascending
<1> QED  BY <1>2, <1>3, <1>4, <1>5

LEMMA CallbackStep == ASSUME IInv, Callback PROVE IInv'
<1>1. /\ pc = "callback" /\ handed' = handed \o batch /\ pc' = "advance" /\ err' = err
      /\ UNCHANGED <<batchSize, limit, offset, table, stable, size, batchNo, got, after>>
  BY DEF Callback, args, loop
<1>2. /\ Read' = Read /\ handed' = Read /\ Read \in Seq(Keys) /\ Read # <<>>
      /\ Last(Read) = Last(batch) /\ Initial' = Initial /\ Missed' = Missed
      /\ Ascending(Read)'
  BY <1>1, HandedOver
<1>3. /\ batchSize \in Nat \ {0} /\ limit \in Nat /\ Len(Read) \in Nat
  BY <1>2, TypeFacts, LenProperties DEF IInv
<1>4. got = Len(batch) /\ got > 0 /\ got <= size /\ batchNo > 0 /\ err = "none"
  BY <1>1 DEF IInv, Position
<1>5. batch' = IF got' = batchSize' /\ (limit' = 0 \/ Len(handed') < limit')
               THEN <<Last(handed')>> ELSE <<0>>
  <2>1. PICK changed \in Mutations(batch) : batch' = SliceAfter(batch, changed, Len(handed'))
    BY DEF Callback
  <2>2. limit <= 0 <=> limit = 0  BY <1>3
  <2> QED  BY <1>1, <1>2, <1>4, <2>1, <2>2 DEF SliceAfter, SavesCursor
<1>6. TypeOK'
  <2>1. Last(Read) \in Keys
    <3>1. Len(Read) \in 1..Len(Read)  BY <1>2, EmptySeq
    <3> QED  BY <1>2, <3>1, ElementOfSeq DEF Last
  <2>2. batch' \in Seq(Keys \cup {0})
    <3>1. batch' = <<Last(Read)>> \/ batch' = <<0>>  BY <1>2, <1>5
    <3>2. \A k \in Keys \cup {0} : <<k>> \in Seq(Keys \cup {0})  OBVIOUS
    <3> QED  BY <2>1, <3>1, <3>2
  <2>3. Len(batch') = 1  BY <1>5
  <2> QED  BY <1>1, <1>2, <1>4, <2>2, <2>3 DEF IInv, TypeOK
<1>7. Position'  BY <1>1, <1>2, <1>4 DEF Position
<1>8. Counted'  BY <1>1, <1>2 DEF IInv, Counted
<1>9. Cursor'  BY <1>5 DEF Cursor
<1>10. Skipped'  BY <1>1, <1>2 DEF IInv, Skipped
<1>11. Complete'  BY <1>1, <1>2 DEF IInv, Complete
<1>12. NothingLost'  BY <1>1 DEF NothingLost
<1> QED  BY <1>2, <1>6, <1>7, <1>8, <1>9, <1>10, <1>11, <1>12 DEF IInv

(* The two ways in which the call ends with the callback's batch.          *)
LEMMA EndsWithBatch == ASSUME IInv, CallbackFails \/ CursorFails PROVE IInv'
<1>1. /\ pc = "callback" /\ handed' = handed \o batch /\ pc' = "stopped"
      /\ err' \in {"fn", "cursor"} /\ batch' \in {batch, <<0>>}
      /\ UNCHANGED <<batchSize, limit, offset, table, stable, size, batchNo, got, after>>
  BY DEF CallbackFails, CursorFails, Stop, args, loop
<1>2. /\ Read' = Read /\ handed' = Read /\ Read \in Seq(Keys) /\ Read # <<>>
      /\ Last(Read) = Last(batch) /\ Initial' = Initial /\ Missed' = Missed
      /\ Ascending(Read)'
  BY <1>1, HandedOver
<1>3. TypeOK'
  <2>1. batch' \in Seq(Keys \cup {0})
    <3>1. <<0>> \in Seq(Keys \cup {0})  OBVIOUS
    <3> QED  BY <1>1, <3>1 DEF IInv, TypeOK
  <2> QED  BY <1>1, <1>2, <2>1 DEF IInv, TypeOK
<1>4. Position' /\ Cursor' /\ Skipped' /\ Complete' /\ NothingLost'
  BY <1>1 DEF Position, Cursor, Skipped, Complete, NothingLost
<1>5. Counted'  BY <1>1, <1>2 DEF IInv, Counted
<1> QED  BY <1>2, <1>3, <1>4, <1>5 DEF IInv

LEMMA FindFailsStep == ASSUME IInv, FindFails PROVE IInv'
<1>1. /\ pc = "find" /\ pc' = "stopped" /\ err' = "database"
      /\ UNCHANGED <<batchSize, limit, offset, table, stable, size, batchNo, got, after, batch, handed>>
  BY DEF FindFails, Stop, args, loop
<1>2. Read' = Read /\ Initial' = Initial  BY <1>1 DEF Read, Initial
<1>3. TypeOK' /\ Counted'  BY <1>1, <1>2 DEF IInv, TypeOK, Counted
<1>4. Position' /\ Cursor' /\ Skipped' /\ Complete' /\ NothingLost'
  BY <1>1 DEF Position, Cursor, Skipped, Complete, NothingLost
<1>5. Ascending(Read)'  BY <1>2 DEF IInv, Ascending
<1> QED  BY <1>3, <1>4, <1>5 DEF IInv

(* When GORM goes on, the batch was full, its size is still the one it     *)
(* began with, and this is gplus' batch size.                              *)
LEMMA GoesOn ==
    ASSUME IInv, pc = "advance", ~Exhausted
    PROVE  /\ got = size /\ size = Initial /\ Initial = batchSize
           /\ limit = 0 \/ Len(handed) < limit
           /\ Len(handed) = batchNo * Initial
           /\ handed # <<>> /\ batch = <<Last(handed)>>
<1>1. /\ batchSize \in Nat \ {0} /\ limit \in Nat /\ size \in Nat \ {0} /\ batchNo \in Nat
      /\ got \in Nat /\ Len(handed) \in Nat /\ Initial \in Nat \ {0}
      /\ limit = 0 => Initial = batchSize
      /\ limit > 0 => Initial <= limit /\ (Initial = batchSize \/ Initial = limit)
  BY TypeFacts DEF IInv
<1>2. Read = handed /\ got <= size /\ batchNo > 0 /\ handed # <<>>
  BY DEF IInv, Position, Read
<1>3. got = size  BY <1>1, <1>2 DEF Exhausted
<1>4. limit = 0 \/ Len(handed) < limit  BY <1>1 DEF Exhausted, Total
<1>5. \/ /\ size = Initial /\ Len(handed) + Initial = batchNo * Initial + got
         /\ limit > 0 => batchNo * Initial <= limit
      \/ limit > 0 /\ Len(handed) + size = limit + got
  BY <1>2 DEF IInv, Counted
<1>6. size = Initial /\ Len(handed) = batchNo * Initial
  <2>1. batchNo * Initial \in Nat  BY <1>1
  <2> QED  BY <1>1, <1>3, <1>4, <1>5, <2>1
<1>7. Initial = batchSize
  <2>1. Initial <= batchNo * Initial
    <3>1. batchNo * Initial = (batchNo - 1) * Initial + Initial /\ (batchNo - 1) * Initial \in Nat
      BY <1>1, <1>2
    <3> QED  BY <1>1, <3>1
  <2> QED  BY <1>1, <1>4, <1>6, <2>1
<1>8. batch = <<Last(handed)>>
  BY <1>3, <1>4, <1>6, <1>7 DEF IInv, Cursor
<1> QED  BY <1>2, <1>3, <1>4, <1>6, <1>7, <1>8

LEMMA AdvanceStep == ASSUME IInv, Advance PROVE IInv'
<1>1. /\ pc = "advance" /\ Read = handed /\ err = "none"
      /\ UNCHANGED <<batchSize, limit, offset, table, stable, batchNo, got, batch, handed>>
      /\ Initial' = Initial /\ Ascending(handed)
  BY DEF Advance, args, Read, Initial, IInv, Position
<1>2. /\ batchSize \in Nat \ {0} /\ limit \in Nat /\ offset \in Nat
      /\ size \in Nat \ {0} /\ batchNo \in Nat /\ got \in Nat /\ Keys \subseteq Nat
      /\ Len(handed) \in Nat /\ Initial \in Nat \ {0}
  BY TypeFacts DEF IInv
<1>3. CASE pc' = "stopped" /\ UNCHANGED <<size, after>>
           /\ (err' = "none" => Exhausted) /\ err' \in {"none", "ErrPrimaryKeyRequired"}
  <2>1. Read' = handed  BY <1>1, <1>3 DEF Read
  <2>2. TypeOK'  BY <1>1, <1>3 DEF IInv, TypeOK
  <2>3. Position' /\ Cursor' /\ Skipped' /\ Complete'
    BY <1>3 DEF Position, Cursor, Skipped, Complete
  <2>4. Counted'  BY <1>1, <1>3, <2>1 DEF IInv, Counted
  <2>5. Ascending(Read)'  BY <1>1, <2>1 DEF Ascending
  <2>6. NothingLost'
    <3> SUFFICES ASSUME err' = "none", limit = 0 \/ Len(handed) < limit
                 PROVE  Cardinality(stable \ ToSet(handed)) <= offset
      BY <1>1 DEF NothingLost
    <3>1. got < size  BY <1>2, <1>3 DEF Exhausted, Total
    <3>2. \A k \in stable : k <= Last(handed)  BY <1>1, <3>1 DEF IInv, Complete
    <3>3. handed # <<>>  BY <1>1 DEF IInv, Position
    <3>4. Missed = stable \ ToSet(handed)  BY <1>1, <3>2, <3>3 DEF Missed
    <3> QED  BY <1>1, <3>4 DEF IInv, Skipped
  <2> QED  BY <2>2, <2>3, <2>4, <2>5, <2>6 DEF IInv
<1>4. CASE ~Exhausted /\ Last(batch) # 0 /\ pc' = "find" /\ size' = NextSize(size)
           /\ after' = Last(batch) /\ err' = err
  <2>1. /\ got = size /\ size = Initial /\ Initial = batchSize
        /\ limit = 0 \/ Len(handed) < limit
        /\ Len(handed) = batchNo * Initial
        /\ handed # <<>> /\ batch = <<Last(handed)>>
    BY <1>1, <1>4, GoesOn
  <2>2. after' = Last(handed)  BY <1>4, <2>1 DEF Last
  <2>3. Last(handed) \in Keys
    <3>1. handed \in Seq(Keys) /\ Len(handed) \in 1..Len(handed)
      BY <2>1, EmptySeq DEF IInv, TypeOK
    <3> QED  BY <3>1, ElementOfSeq DEF Last
  <2>4. \/ /\ size' = Initial /\ (limit > 0 => batchNo * Initial + Initial <= limit)
        \/ limit > 0 /\ size' = limit - Len(handed) /\ size' > 0 /\ size' < Initial
    <3>1. CASE limit = 0  BY <1>4, <2>1, <3>1 DEF NextSize, Total
    <3>2. CASE limit > 0
      <4>1. batchNo * Initial < limit  BY <1>2, <2>1, <3>2
      <4>2. /\ limit \div Initial = batchNo =>
                  /\ limit % Initial = limit - batchNo * Initial
                  /\ limit % Initial > 0 /\ limit % Initial < Initial
            /\ limit \div Initial # batchNo => batchNo * Initial + Initial <= limit
        BY <1>2, <4>1, DivideFacts
      <4>3. size' = IF limit \div Initial = batchNo THEN limit % Initial ELSE Initial
        BY <1>4, <2>1, <3>2 DEF NextSize, Total
      <4> QED  BY <2>1, <3>2, <4>2, <4>3
    <3> QED  BY <1>2, <3>1, <3>2
  <2>5. size' \in 1..batchSize
    BY <1>2, <2>1, <2>4
  <2>6. TypeOK'  BY <1>1, <1>4, <2>2, <2>3, <2>5 DEF IInv, TypeOK
  <2>7. Read' = handed  BY <1>1, <1>4 DEF Read
  <2>8. Position'
    <3>1. batchNo > 0  BY <1>1 DEF IInv, Position
    <3> QED  BY <1>1, <1>2, <1>4, <2>1, <2>2, <3>1 DEF Position
  <2>9. Counted'
    <3>1. limit > 0 => Len(handed) <= limit  BY <1>1 DEF IInv, Counted
    <3>2. limit > 0 /\ size' = limit - Len(handed) => Len(handed) + size' = limit
      BY <1>2
    <3> QED  BY <1>1, <1>4, <2>1, <2>4, <2>7, <3>1, <3>2 DEF Counted
  <2>10. Cursor' /\ Complete' /\ NothingLost'  BY <1>4 DEF Cursor, Complete, NothingLost
  <2>11. Ascending(Read)'  BY <1>1, <2>7 DEF Ascending
  <2>12. Skipped'
    <3>1. Missed' = Missed  BY <1>1, <2>7 DEF Missed
    <3> QED  BY <1>1, <3>1 DEF IInv, Skipped
  <2> QED  BY <2>6, <2>8, <2>9, <2>10, <2>11, <2>12 DEF IInv
<1>5. \/ /\ pc' = "stopped" /\ UNCHANGED <<size, after>>
         /\ (err' = "none" => Exhausted) /\ err' \in {"none", "ErrPrimaryKeyRequired"}
      \/ /\ ~Exhausted /\ Last(batch) # 0 /\ pc' = "find" /\ size' = NextSize(size)
         /\ after' = Last(batch) /\ err' = err
  BY DEF Advance, Stop
<1> QED  BY <1>3, <1>4, <1>5

(* Rows that come and go elsewhere only shorten the list of stable ones.   *)
LEMMA TableStep ==
    ASSUME IInv, table' \in SUBSET Keys, stable' \subseteq stable, stable' \subseteq table',
           pc # "stopped",
           UNCHANGED <<args, loop, batch, handed, pc, err>>
    PROVE  IInv'
<1>1. /\ UNCHANGED <<batchSize, limit, offset, size, batchNo, got, after>>
      /\ Read' = Read /\ Initial' = Initial
  BY DEF args, loop, Read, Initial
<1>2. TypeOK'  BY <1>1 DEF IInv, TypeOK
<1>3. Position' /\ Counted' /\ Cursor' /\ Complete' /\ NothingLost' /\ Ascending(Read)'
  BY <1>1 DEF IInv, Position, Counted, Cursor, Complete, NothingLost, Ascending
<1>4. Skipped'
  <2>1. Missed' \in SUBSET Missed  BY <1>1 DEF Missed
  <2>2. Missed \in SUBSET Keys  BY DEF Missed, IInv, TypeOK
  <2>3. Cardinality(Missed') <= Cardinality(Missed)
    BY <2>1, <2>2, TypeFacts, FS_Subset DEF IInv
  <2>4. /\ Cardinality(Missed') \in Nat /\ Cardinality(Missed) \in Nat /\ offset \in Nat
        /\ Cardinality(Missed) <= offset
    BY <2>1, <2>2, TypeFacts DEF IInv, Skipped
  <2> QED  BY <1>1, <2>3, <2>4 DEF Skipped
<1> QED  BY <1>2, <1>3, <1>4 DEF IInv

LEMMA NextPreserves == IInv /\ [Next]_vars => IInv'
<1> SUFFICES ASSUME IInv, [Next]_vars PROVE IInv'  OBVIOUS
<1>1. CASE UNCHANGED vars
  <2>1. UNCHANGED <<batchSize, limit, offset, table, stable, size, batchNo, got, after,
                    batch, handed, pc, err>>
    BY <1>1 DEF vars, args, loop
  <2>2. TypeOK'  BY <2>1 DEF IInv, TypeOK
  <2>3. Position' /\ Counted' /\ Cursor'
    BY <2>1 DEF IInv, Position, Counted, Cursor, Read, Initial
  <2>4. Ascending(Read)' /\ Skipped' /\ Complete' /\ NothingLost'
    BY <2>1 DEF IInv, Ascending, Skipped, Missed, Complete, NothingLost, Read
  <2> QED  BY <2>2, <2>3, <2>4 DEF IInv
<1>2. ASSUME NEW k \in Keys, Insert(k) PROVE IInv'
  BY <1>2, TableStep DEF Insert, loop, IInv, TypeOK
<1>3. ASSUME NEW k \in Keys, Delete(k) PROVE IInv'
  BY <1>3, TableStep DEF Delete, IInv, TypeOK
<1> QED
  BY <1>1, <1>2, <1>3, FindStep, FindFailsStep, CallbackStep, EndsWithBatch, AdvanceStep
     DEF Next, Loop

-----------------------------------------------------------------------------
(* The theorems.                                                           *)

(* The inductive invariant holds in every behaviour of ChunkTx.            *)
THEOREM Inductive == Spec => []IInv
<1>1. Init => IInv  BY InitEstablishes
<1>2. IInv /\ [Next]_vars => IInv'  BY NextPreserves
<1> QED  BY <1>1, <1>2, PTL DEF Spec

(* Every variable has its type: GORM's size stays a batch size above zero, *)
(* its cursor is a key of the model.                                       *)
THEOREM Typed == Spec => []TypeOK
<1>1. IInv => TypeOK  BY DEF IInv
<1> QED  BY <1>1, Inductive, PTL

(* Query.Limit is the total over all batches, however the batches divide   *)
(* it, and no batch is larger than batchSize (README.md:405).              *)
THEOREM WithinLimit == Spec => []LimitHeld
<1>1. ASSUME IInv PROVE LimitHeld
  <2>1. /\ batchSize \in Nat \ {0} /\ limit \in Nat /\ size \in 1..batchSize
        /\ handed \in Seq(Keys) /\ Len(handed) \in Nat /\ (limit > 0 => Len(Read) <= limit)
    BY <1>1, TypeFacts DEF IInv, TypeOK, Counted
  <2>2. CASE pc = "callback"
    <3>1. /\ batch \in Seq(Keys) /\ Len(batch) \in Nat /\ Len(batch) <= size
          /\ Read = handed \o batch
      BY <1>1, <2>2 DEF IInv, Position, Read
    <3>2. Len(Read) = Len(handed) + Len(batch)  BY <2>1, <3>1, ConcatProperties
    <3> QED  BY <2>1, <3>1, <3>2 DEF LimitHeld
  <2>3. CASE pc # "callback"  BY <2>1, <2>3 DEF LimitHeld, Read
  <2> QED  BY <2>2, <2>3
<1> QED  BY <1>1, Inductive, PTL

(* A row that is there during the whole call is handed over, unless the    *)
(* limit was used up first; at most offset such rows are missing.          *)
THEOREM AllStableHanded == Spec => []NothingLost
<1>1. IInv => NothingLost  BY DEF IInv
<1> QED  BY <1>1, Inductive, PTL

(* Whenever GORM reads the cursor, the slice gplus left in its place holds *)
(* the key of the last row handed over.                                    *)
THEOREM CursorAtHand == Spec => []CursorReady
<1>1. IInv => CursorReady
  <2> SUFFICES ASSUME IInv, pc = "advance", ~Exhausted PROVE Last(batch) = Last(handed)
    BY DEF CursorReady
  <2>1. batch = <<Last(handed)>>  BY GoesOn
  <2> QED  BY <2>1 DEF Last
<1> QED  BY <1>1, Inductive, PTL

-----------------------------------------------------------------------------
(* The refinement: ChunkTx reads the table as OrderedScan does.            *)

LEMMA SameAhead ==
    ASSUME IInv, pc = "find" PROVE Scan!Ahead = InOrder(AheadKeys)
<1>1. \A k \in table : (Read = <<>> \/ k > Last(Read)) <=> k > after
  <2>1. Read = handed /\ after = IF handed = <<>> THEN NoKey ELSE Last(handed)
    BY DEF IInv, Position, Read
  <2>2. \A k \in table : k > -1  BY KeysAssumption DEF IInv, TypeOK
  <2> QED  BY <2>1, <2>2 DEF NoKey
<1>2. {k \in table : Read = <<>> \/ k > Last(Read)} = AheadKeys  BY <1>1 DEF AheadKeys
<1> PICK A : A = AheadKeys  OBVIOUS
<1>3. Scan!Ahead = Scan!InOrder(A)
  <2>1. {k \in table : Read = <<>> \/ k > Last(Read)} = A  BY <1>2
  <2> QED  BY <2>1 DEF Scan!Ahead, Scan!Last, Last
<1>4. Scan!InOrder(A) = InOrder(A)
  BY DEF Scan!InOrder, Scan!Before, Scan!Cardinality, InOrder, Before, Cardinality
<1> QED  BY <1>3, <1>4

LEMMA FindRefines ==
    ASSUME IInv, Find PROVE Scan!Deliver \/ Scan!Finish
<1> PICK rows : rows = Rows  OBVIOUS
<1> PICK keys : keys = InOrder(AheadKeys)  OBVIOUS
<1> PICK last : last = IF Skip + size <= Len(keys) THEN Skip + size ELSE Len(keys)  OBVIOUS
<1>1. /\ pc = "find" /\ batch' = rows /\ UNCHANGED <<table, handed>> /\ Read = handed
      /\ IF rows = <<>> THEN pc' = "stopped" ELSE pc' = "callback"
  BY DEF Find, Stop, Read
<1>2. CASE rows = <<>>
  <2>1. Read' = Read /\ pc' = "stopped"  BY <1>1, <1>2 DEF Read
  <2> QED  BY <1>1, <2>1 DEF Scan!Finish
<1>3. CASE rows # <<>>
  <2>1. /\ Scan!Ahead = keys /\ rows = SubSeq(keys, Skip + 1, last)
    BY <1>1, SameAhead DEF Rows, AheadKeys, Skip
  <2>2. Len(keys) \in Nat
    <3>1. AheadKeys \in SUBSET Keys /\ AheadKeys \in SUBSET Nat
      BY KeysAssumption DEF AheadKeys, IInv, TypeOK
    <3>2. IsFiniteSet(AheadKeys)  BY <3>1, KeysAssumption, FS_Subset
    <3> QED  BY <3>1, <3>2, InOrderProperties
  <2>3. Skip \in Nat /\ size \in Nat \ {0}  BY TypeFacts DEF IInv, Skip
  <2>4. Skip + 1 <= last /\ last <= Len(keys)
    BY <1>3, <2>1, <2>2, <2>3, SubSeqEmpty
  <2>5. Skip + 1 \in 1..Len(keys) /\ last \in 1..Len(keys)  BY <2>2, <2>3, <2>4
  <2>6. Read # <<>> => Skip + 1 = 1  BY <1>1 DEF Skip, IInv, Position
  <2>7. Read' = Read \o SubSeq(keys, Skip + 1, last)  BY <1>1, <1>3, <2>1 DEF Read
  <2>8. (pc = "stopped") = FALSE /\ (pc' = "stopped") = FALSE  BY <1>1, <1>3
  <2> QED  BY <1>1, <2>1, <2>4, <2>5, <2>6, <2>7, <2>8 DEF Scan!Deliver
<1> QED  BY <1>2, <1>3

LEMMA StepRefines ==
    IInv /\ [Next]_vars => [Scan!Deliver \/ Scan!Finish \/ Scan!Change]_(Scan!svars)
<1> SUFFICES ASSUME IInv, [Next]_vars
             PROVE  [Scan!Deliver \/ Scan!Finish \/ Scan!Change]_(Scan!svars)
  OBVIOUS
<1>1. CASE UNCHANGED vars  BY <1>1 DEF vars, Scan!svars, Read
<1>2. CASE Find  BY <1>2, FindRefines
<1>3. CASE Callback
  BY <1>3 DEF Callback, Read, Scan!svars
<1>4. CASE FindFails \/ CallbackFails \/ CursorFails
  BY <1>4 DEF FindFails, CallbackFails, CursorFails, Stop, Read, Scan!Finish
<1>5. CASE Advance
  BY <1>5 DEF Advance, Stop, Read, Scan!Finish, Scan!svars
<1>6. ASSUME NEW k \in Keys, Insert(k) \/ Delete(k) PROVE Scan!Change
  BY <1>6 DEF Insert, Delete, Read, Scan!Change, IInv, TypeOK
<1> QED  BY <1>1, <1>2, <1>3, <1>4, <1>5, <1>6 DEF Next, Loop

(* The rows arrive as OrderedScan says: ascending, none twice, none jumped *)
(* over, no matter how the callback changes the batches.                   *)
THEOREM Refines == Spec => ImplementsScan
<1>1. Init => Scan!SInit
  BY DEF Init, Scan!SInit, Read
<1>2. IInv /\ [Next]_vars => [Scan!Deliver \/ Scan!Finish \/ Scan!Change]_(Scan!svars)
  BY StepRefines
<1> QED  BY <1>1, <1>2, Inductive, PTL DEF Spec, ImplementsScan, Scan!Spec

=============================================================================
