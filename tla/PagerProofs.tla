----------------------------- MODULE PagerProofs -----------------------------
(***************************************************************************)
(* For every width of int, default size and table: an answer of Page shows *)
(* the page that was asked for, or is refused; pages follow each other     *)
(* without gap or repetition, and their total is what they show.           *)
(*                                                                         *)
(* The product of size and page is taken in ints.  The guard of Page lets  *)
(* a product pass only if it fits (NoOverflow), so limit and offset of an  *)
(* accepted page are the numbers arithmetic gives (Positioned), until      *)
(* another chain call changes them and asks for something else.            *)
(* The second invariant, Turned, adds what is known between calls: what    *)
(* was counted (Reading) and what a client has been shown (Shown).         *)
(***************************************************************************)
EXTENDS Pager, FiniteSetTheorems, SequenceTheorems, TLAPS

Ints == -MaxInt - 1 .. MaxInt

(* Pages and sizes that were asked for, after defaults.                    *)
PageAsked == asked = Custom \/ asked \in (1..MaxInt) \X (1..MaxInt)

(* The query is positioned on the page that was asked for.                 *)
Positioned ==
    asked # Custom /\ ~failed => limit = asked[2] /\ offset = (asked[1] - 1) * asked[2]

IInv == TypeOK /\ PageAsked /\ Positioned /\ PageAskedFor

(* An int is its own value.                                                *)
LEMMA InRange == ASSUME NEW n \in Ints PROVE Wrapped(n) = n
<1> USE IntAssumption
<1>1. n + MaxInt + 1 \in 0 .. 2 * (MaxInt + 1) - 1  BY DEF Ints
<1>2. (n + MaxInt + 1) % (2 * (MaxInt + 1)) = n + MaxInt + 1  BY <1>1, SMT
<1> QED  BY <1>2 DEF Wrapped, Ints

(* A product is at most a bound if one factor is at most the quotient.     *)
LEMMA Product ==
    ASSUME NEW m \in Nat, NEW s \in Nat \ {0}, NEW a \in Nat, a <= m \div s
    PROVE  s * a \in 0..m
<1>1. m \div s \in Nat /\ s * (m \div s) <= m  BY SMT
<1>2. s * a <= s * (m \div s)  BY <1>1, SMT
<1>3. s * a \in Nat  BY SMT
<1> QED  BY <1>1, <1>2, <1>3

(* query.go:154: what passes the guard is computed without wrapping.       *)
LEMMA NoOverflow ==
    ASSUME NEW page \in 1..MaxInt, NEW size \in 1..MaxInt, ~Overflows(page, size)
    PROVE  Start(page, size) = (page - 1) * size /\ Start(page, size) \in 0..MaxInt
<1> USE IntAssumption
<1>1. page - 1 \in Nat /\ size \in Nat \ {0} /\ MaxInt \in Nat  OBVIOUS
<1>2. MaxInt \div size \in Int  BY <1>1, SMT
<1>3. page - 1 <= MaxInt \div size  BY <1>1, <1>2 DEF Overflows
<1>4. size * (page - 1) \in 0..MaxInt  BY <1>1, <1>3, Product
<1>5. Wrapped(size * (page - 1)) = size * (page - 1)  BY <1>4, InRange DEF Ints
<1>6. size * (page - 1) = (page - 1) * size  BY <1>1, SMT
<1> QED  BY <1>4, <1>5, <1>6 DEF Start

LEMMA Defaults ==
    ASSUME NEW n \in Numbers PROVE PageNo(n) \in 1..MaxInt /\ Size(n) \in 1..MaxInt
BY IntAssumption DEF PageNo, Size

LEMMA InitEstablishes == Init => IInv
<1> SUFFICES ASSUME Init PROVE IInv  OBVIOUS
<1>1. 0 \in -MaxInt - 1 .. MaxInt  BY IntAssumption
<1>2. TypeOK  BY <1>1 DEF Init, TypeOK
<1>3. PageAsked /\ Positioned  BY DEF Init, PageAsked, Positioned
<1>4. PageAskedFor  BY DEF Init, PageAskedFor, Paged, Answered
<1> QED  BY <1>2, <1>3, <1>4 DEF IInv

(* Steps that leave the query alone keep its position.                     *)
LEMMA SamePosition ==
    ASSUME IInv, UNCHANGED <<query, asked>>, table' \in [Keys -> Values \cup {None}],
           pc' \in {"idle", "count", "list"}, pc' # "idle" => ~failed, PageAskedFor'
    PROVE  IInv'
BY DEF IInv, TypeOK, PageAsked, Positioned, query

LEMMA PageStep ==
    ASSUME IInv, NEW page \in Numbers, NEW size \in Numbers, Page(page, size),
           pc = "idle", answer' = None, UNCHANGED <<setting, table, call>>
    PROVE  IInv'
<1> DEFINE p == PageNo(page)  s == Size(size)
<1>1. p \in 1..MaxInt /\ s \in 1..MaxInt  BY Defaults
<1>2. asked' = <<p, s>> /\ pc' = "idle" /\ table' = table  BY DEF Page, call
<1>3. PageAskedFor'  BY DEF PageAskedFor, Paged, Answered
<1>4. PageAsked' /\ asked'[1] = p /\ asked'[2] = s  BY <1>1, <1>2 DEF PageAsked
<1>5. CASE Overflows(p, s)
  <2>1. failed' = TRUE /\ UNCHANGED <<limit, offset>>  BY <1>5 DEF Page
  <2> QED  BY <1>2, <1>3, <1>4, <2>1 DEF IInv, TypeOK, Positioned
<1>6. CASE ~Overflows(p, s)
  <2>1. limit' = s /\ offset' = Start(p, s) /\ failed' = failed  BY <1>6 DEF Page
  <2>2. offset' = (p - 1) * s /\ offset' \in 0..MaxInt  BY <1>1, <1>6, <2>1, NoOverflow
  <2>3. TypeOK'
    BY <1>1, <1>2, <2>1, <2>2, IntAssumption DEF IInv, TypeOK
  <2>4. Positioned'  BY <1>4, <2>1, <2>2 DEF Positioned
  <2> QED  BY <1>3, <1>4, <2>3, <2>4 DEF IInv
<1> QED  BY <1>5, <1>6

LEMMA BuildStep == ASSUME IInv, Build PROVE IInv'
<1>1. ASSUME NEW page \in Numbers, NEW size \in Numbers, Page(page, size) PROVE IInv'
  BY <1>1, PageStep DEF Build
<1>2. ASSUME (\E n \in Numbers : Limit(n) \/ Offset(n)) \/ Clear, asked' = Custom PROVE IInv'
  <2>1. limit' \in Ints /\ offset' \in Ints /\ failed' \in BOOLEAN
    <3>1. 0 \in Ints /\ Numbers \subseteq Ints  BY IntAssumption DEF Ints
    <3>2. limit \in Ints /\ offset \in Ints /\ failed \in BOOLEAN  BY DEF IInv, TypeOK, Ints
    <3>3. ASSUME NEW n \in Numbers, Limit(n) \/ Offset(n)
          PROVE  limit' \in Ints /\ offset' \in Ints /\ failed' \in BOOLEAN
      BY <3>1, <3>2, <3>3 DEF Limit, Offset
    <3>4. CASE Clear  BY <3>1, <3>4 DEF Clear
    <3> QED  BY <1>2, <3>3, <3>4
  <2>2. pc' = "idle" /\ table' = table /\ answer' = None  BY DEF Build, call
  <2>3. TypeOK'  BY <1>2, <2>1, <2>2 DEF IInv, TypeOK, Ints
  <2> QED  BY <1>2, <2>2, <2>3 DEF IInv, PageAsked, Positioned, PageAskedFor, Paged, Answered
<1> QED  BY <1>1, <1>2 DEF Build

(* An empty result has empty pages.                                        *)
LEMMA NothingToShow ==
    ASSUME NEW t, Len(Result(t)) = 0, NEW from \in Nat, NEW to \in Nat
    PROVE  Cut(Result(t), from, to) = <<>>
BY SubSeqEmpty DEF Cut

LEMMA CallStep == ASSUME IInv, NEW skipCount \in BOOLEAN, Call(skipCount) PROVE IInv'
<1>1. UNCHANGED <<query, asked>> /\ table' = table
  BY DEF Call, Returns, query, history
<1>2. pc' \in {"idle", "count", "list"} /\ (pc' # "idle" => ~failed)
  BY DEF Call, Returns
<1>3. PageAskedFor'
  BY DEF Call, Returns, PageAskedFor, Paged, Answered
<1> QED  BY <1>1, <1>2, <1>3, SamePosition DEF IInv, TypeOK

LEMMA CountStep == ASSUME IInv, Count PROVE IInv'
<1>1. UNCHANGED <<query, asked>> /\ table' = table
  BY DEF Count, Returns, query, history
<1>2. pc' \in {"idle", "count", "list"} /\ (pc' # "idle" => ~failed)
  BY DEF Count, Returns, IInv, TypeOK
<1>3. PageAskedFor'
  <2>1. CASE CountOf(table) = 0
    <3>1. answer'.seen = table /\ answer'.data = <<>>  BY <2>1 DEF Count, Returns
    <3>2. ASSUME asked # Custom
          PROVE  (asked[1] - 1) * asked[2] \in Nat /\ asked[1] * asked[2] \in Nat
      <4>1. asked[1] \in 1..MaxInt /\ asked[2] \in 1..MaxInt  BY <3>2 DEF IInv, PageAsked
      <4> DEFINE a == asked[1]  b == asked[2]
      <4>2. a - 1 \in Nat /\ a \in Nat /\ b \in Nat  BY <4>1, IntAssumption
      <4> HIDE DEF a, b
      <4>3. (a - 1) * b \in Nat /\ a * b \in Nat  BY <4>2, SMT
      <4> QED  BY <4>3 DEF a, b
    <3>3. asked' = asked /\ distinct' = distinct
      BY <1>1, <2>1 DEF Count, Returns, setting
    <3>4. ASSUME asked # Custom
          PROVE  Cut(Result(table), (asked[1] - 1) * asked[2], asked[1] * asked[2]) = <<>>
      BY <2>1, <3>2, <3>4, NothingToShow DEF CountOf
    <3> QED  BY <3>1, <3>3, <3>4 DEF PageAskedFor, Paged, Result
  <2>2. CASE CountOf(table) # 0
    BY <2>2 DEF Count, PageAskedFor, Paged, Answered
  <2> QED  BY <2>1, <2>2
<1> QED  BY <1>1, <1>2, <1>3, SamePosition DEF IInv, TypeOK

LEMMA ListStep == ASSUME IInv, List PROVE IInv'
<1>1. UNCHANGED <<query, asked>> /\ table' = table /\ pc' = "idle"
  BY DEF List, Returns, query
<1>2. answer'.data = ListOf(View, limit) /\ answer'.seen = View
  BY DEF List, Returns
<1>3. ASSUME asked # Custom
      PROVE  ListOf(View, limit) = Cut(Result(View), (asked[1] - 1) * asked[2], asked[1] * asked[2])
  <2> DEFINE a == asked[1]  b == asked[2]
  <2>1. a \in 1..MaxInt /\ b \in 1..MaxInt  BY <1>3 DEF IInv, PageAsked
  <2>2. limit = b /\ offset = (a - 1) * b /\ limit > 0 /\ offset >= 0
    BY <1>3 DEF IInv, TypeOK, Positioned, List
  <2> HIDE DEF a, b
  <2>3. a \in Int /\ b \in Int  BY <2>1, IntAssumption
  <2>4. (a - 1) * b + b = a * b /\ (a - 1) * b \in Int  BY <2>3, SMT
  <2>5. ListOf(View, limit) = Cut(Result(View), offset, offset + limit)
    <3>1. offset \in Int /\ (offset > 0 \/ offset = 0)  BY <2>2, <2>4
    <3>2. (IF offset > 0 THEN offset ELSE 0) = offset  BY <3>1
    <3> QED  BY <2>2, <3>2 DEF ListOf
  <2> QED  BY <2>2, <2>4, <2>5 DEF a, b
<1>4. asked' = asked /\ distinct' = distinct
  BY <1>1 DEF List, Returns, setting
<1>5. PageAskedFor'
  BY <1>2, <1>3, <1>4 DEF PageAskedFor, Paged, Result
<1> QED  BY <1>1, <1>5, SamePosition DEF IInv, TypeOK

LEMMA OtherStep ==
    ASSUME IInv, Fails \/ FindOneAs \/ \E k \in Keys, v \in Values \cup {None} : Change(k, v)
    PROVE  IInv'
<1>1. UNCHANGED <<query, asked>>
  BY DEF Fails, FindOneAs, Change, Returns, query, history
<1>2. pc' \in {"idle", "count", "list"} /\ (pc' # "idle" => ~failed)
  BY DEF Fails, FindOneAs, Change, Returns, IInv, TypeOK, call
<1>3. table' \in [Keys -> Values \cup {None}]
  BY DEF Fails, FindOneAs, Change, Returns, IInv, TypeOK
<1>4. PageAskedFor'
  <2>1. CASE Fails
    <3>1. answer'.err = "database"  BY <2>1 DEF Fails, Returns
    <3> QED  BY <3>1 DEF PageAskedFor, Paged, Answered
  <2>2. CASE FindOneAs
    <3>1. answer'.op = "FindOneAs"  BY <2>2 DEF FindOneAs, Returns
    <3> QED  BY <3>1 DEF PageAskedFor, Paged, Answered
  <2>3. CASE \E k \in Keys, v \in Values \cup {None} : Change(k, v)
    BY <2>3 DEF Change, PageAskedFor, Paged, Answered
  <2> QED  BY <2>1, <2>2, <2>3
<1> QED  BY <1>1, <1>2, <1>3, <1>4, SamePosition

LEMMA StepPreserves == IInv /\ [Next]_vars => IInv'
<1> SUFFICES ASSUME IInv, [Next]_vars PROVE IInv'  OBVIOUS
<1>1. CASE UNCHANGED vars
  BY <1>1 DEF vars, setting, query, call, history, IInv, TypeOK, PageAsked, Positioned,
              PageAskedFor, Paged, Answered, Result
<1>2. CASE Next
  BY <1>2, BuildStep, CallStep, CountStep, ListStep, OtherStep DEF Next
<1> QED  BY <1>1, <1>2

(* The position of the query is always that of the page asked for.         *)
THEOREM Inductive == Spec => []IInv
BY InitEstablishes, StepPreserves, PTL DEF Spec

(* The state is well formed; an accepted page has a limit and an offset.   *)
THEOREM Typed == Spec => []TypeOK
<1>1. IInv => TypeOK  BY DEF IInv
<1> QED  BY Inductive, <1>1, PTL

(* Every answer shows the page that was asked for (query.go:145), however  *)
(* wide an int is and however large the numbers were.                      *)
THEOREM PageShown == Spec => []PageAskedFor
<1>1. IInv => PageAskedFor  BY DEF IInv
<1> QED  BY Inductive, <1>1, PTL

-----------------------------------------------------------------------------
(* Turning the pages.                                                      *)

AllTables == [Keys -> Values \cup {None}]
IsSequence(s) == \E T : s \in Seq(T)

(* A COUNT that the list still has to follow: its total is the number of   *)
(* items it has seen, and unless an item has moved the snapshot is what    *)
(* the table is now.                                                       *)
Reading ==
    /\ pc # "list" => counted = None
    /\ counted # None => /\ counted \in AllTables /\ total = CountOf(counted)
                         /\ snapshot /\ ~moved => counted = table

(* What was shown is the beginning of the result, whatever the errors of   *)
(* the query.                                                              *)
Shown == IsSequence(shown) /\ (~moved => IsPrefix(shown, Result(table)))

Turned ==
    /\ IInv /\ moved \in BOOLEAN /\ snapshot \in BOOLEAN
    /\ Reading /\ Shown
    /\ PagesFollow /\ TotalAgrees /\ FirstIsFirst

LEMMA OrderIsSequence ==
    ASSUME NEW S, IsFiniteSet(S)
    PROVE  IsSequence(InOrder(S))
<1> PICK s : s = InOrder(S)  OBVIOUS
<1> PICK n : n = Cardinality(S)  OBVIOUS
<1>1. n \in Nat  BY FS_CardinalityType
<1>2. s = [i \in 1..n |-> CHOOSE k \in S : Cardinality(Before(S, k)) = i - 1]
  BY DEF InOrder
<1>3. s = [i \in 1..n |-> s[i]]  BY <1>2
<1>4. s \in [1..n -> {s[i] : i \in 1..n}]  BY <1>3
<1>5. s \in Seq({s[i] : i \in 1..n})  BY <1>1, <1>4
<1> QED  BY <1>5 DEF IsSequence

LEMMA ResultIsSequence ==
    ASSUME NEW t, NEW unique
    PROVE  IsSequence(Items(t, unique)) /\ Len(Items(t, unique)) \in Nat
<1> DEFINE keys == {k \in Keys : t[k] # None}
           values == {t[k] : k \in keys}
           f == [k \in keys |-> t[k]]
<1>1. IsFiniteSet(keys)  BY RowsAssumption, FS_Subset
<1>2. f \in Surjection(keys, values)  BY DEF Surjection
<1>3. IsFiniteSet(values)
  <2> HIDE DEF keys, values, f
  <2> QED  BY <1>1, <1>2, FS_Surjection
<1>4. IsFiniteSet(IF unique THEN values ELSE keys)  BY <1>1, <1>3
<1>5. Items(t, unique) = InOrder(IF unique THEN values ELSE keys)  BY DEF Items
<1>6. IsSequence(Items(t, unique))  BY <1>4, <1>5, OrderIsSequence
<1> QED  BY <1>6, LenProperties DEF IsSequence

(* A piece of a sequence, by its ends.                                     *)
LEMMA CutProperties ==
    ASSUME NEW T, NEW s \in Seq(T), NEW from \in Nat, NEW to \in Int
    PROVE  /\ Cut(s, from, to) \in Seq(T)
           /\ Len(Cut(s, from, to)) =
                 IF from < to /\ from < Len(s) THEN (IF to < Len(s) THEN to ELSE Len(s)) - from
                                               ELSE 0
           /\ \A i \in 1..Len(Cut(s, from, to)) : Cut(s, from, to)[i] = s[from + i]
<1> PICK n : n = Len(s)  OBVIOUS
<1> PICK m : m = IF to < n THEN to ELSE n  OBVIOUS
<1>1. n \in Nat /\ m \in Int /\ m <= n /\ \A i \in 1..n : s[i] \in T
  BY LenProperties, ElementOfSeq
<1>2. \A i \in from + 1 .. m : s[i] \in T  BY <1>1
<1> PICK c : c = SubSeq(s, from + 1, m)  OBVIOUS
<1>3. /\ c \in Seq(T)
      /\ Len(c) = IF from + 1 <= m THEN m - (from + 1) + 1 ELSE 0
      /\ \A i \in 1 .. m - (from + 1) + 1 : c[i] = s[from + 1 + i - 1]
  BY <1>1, <1>2, SubSeqProperties
<1>4. Cut(s, from, to) = c  BY DEF Cut
<1>5. Len(c) = IF from < m THEN m - from ELSE 0  BY <1>1, <1>3
<1>6. ASSUME NEW i \in 1..Len(c) PROVE c[i] = s[from + i]
  <2>1. i \in 1 .. m - (from + 1) + 1 /\ from + 1 + i - 1 = from + i
    BY <1>1, <1>5
  <2> QED  BY <1>3, <2>1
<1>7. Len(c) = IF from < to /\ from < n THEN m - from ELSE 0  BY <1>1, <1>5
<1> QED  BY <1>3, <1>4, <1>6, <1>7

LEMMA PrefixElements ==
    ASSUME NEW T, NEW s \in Seq(T), NEW r \in Seq(T)
    PROVE  IsPrefix(s, r) <=> Len(s) <= Len(r) /\ \A i \in 1..Len(s) : s[i] = r[i]
<1> PICK n : n = Len(s)  OBVIOUS
<1>1. n \in Nat /\ Len(r) \in Nat  BY LenProperties
<1>2. SubSeq(s, 1, n) = s  BY SubSeqFull
<1>3. ASSUME n <= Len(r)
      PROVE  SubSeq(s, 1, n) = SubSeq(r, 1, n) <=> \A i \in 1..n : s[i] = r[i]
  <2> PICK c : c = SubSeq(r, 1, n)  OBVIOUS
  <2>1. \A i \in 1..n : r[i] \in T  BY <1>1, <1>3, ElementOfSeq
  <2>2. /\ c \in Seq(T) /\ Len(c) = (IF 1 <= n THEN n - 1 + 1 ELSE 0)
        /\ \A i \in 1 .. n - 1 + 1 : c[i] = r[1 + i - 1]
    BY <1>1, <2>1, SubSeqProperties
  <2>3. Len(c) = n /\ \A i \in 1..n : c[i] = r[i]  BY <1>1, <2>2
  <2>4. c = s <=> \A i \in 1..n : s[i] = c[i]  BY <2>2, <2>3, SeqEqual
  <2> QED  BY <1>2, <2>3, <2>4
<1>4. IsPrefix(s, r) <=> n <= Len(r) /\ SubSeq(s, 1, n) = SubSeq(r, 1, n)
  BY DEF IsPrefix
<1> QED  BY <1>3, <1>4, Zenon

LEMMA Together ==
    ASSUME NEW s, NEW r, IsSequence(s), IsSequence(r)
    PROVE  \E T : s \in Seq(T) /\ r \in Seq(T)
<1>1. PICK A : s \in Seq(A)  BY DEF IsSequence
<1>2. PICK B : r \in Seq(B)  BY DEF IsSequence
<1>3. s \in Seq(A \cup B) /\ r \in Seq(A \cup B)  BY <1>1, <1>2, SeqMonotonic
<1> QED  BY <1>3

(* A page c, after `from` items and of `size`, continues what was shown;   *)
(* a page that is not full is the last one.                                *)
Continues(s, r, c, from, size) ==
    /\ Len(s) = from => IsPrefix(s \o c, r)
    /\ Len(s) = from /\ Len(c) < size => s \o c = r
    /\ Len(c) < size /\ Len(s) = from + Len(c) => (Len(s) # from => s = r)

LEMMA NextPage ==
    ASSUME NEW r, NEW s, IsSequence(r), IsSequence(s), IsPrefix(s, r),
           NEW from \in Nat, NEW size \in Nat, NEW c, c = Cut(r, from, from + size)
    PROVE  Continues(s, r, c, from, size)
<1>1. PICK T : s \in Seq(T) /\ r \in Seq(T)  BY Together
<1> PICK n : n = Len(s)  OBVIOUS
<1> PICK m : m = Len(r)  OBVIOUS
<1> PICK k : k = Len(c)  OBVIOUS
<1>2. n \in Nat /\ m \in Nat /\ n <= m /\ \A i \in 1..n : s[i] = r[i]
  BY <1>1, PrefixElements, LenProperties
<1>3. /\ c \in Seq(T)
      /\ k = IF from < from + size /\ from < m
             THEN (IF from + size < m THEN from + size ELSE m) - from ELSE 0
      /\ \A i \in 1..k : c[i] = r[from + i]
  BY <1>1, CutProperties
<1>4. ASSUME n = from
      PROVE  IsPrefix(s \o c, r) /\ (k < size => s \o c = r)
  <2>1. n + k <= m /\ k \in Nat /\ (k < size => n + k = m)
    BY <1>2, <1>3, <1>4
  <2> PICK u : u = s \o c  OBVIOUS
  <2>2. /\ u \in Seq(T) /\ Len(u) = n + k
        /\ \A i \in 1 .. n + k : u[i] = IF i <= n THEN s[i] ELSE c[i - n]
    BY <1>1, <1>3, ConcatProperties
  <2>3. ASSUME NEW i \in 1 .. n + k PROVE u[i] = r[i]
    <3>1. CASE i <= n
      <4>1. i \in 1..n  BY <1>2, <2>1, <3>1
      <4> QED  BY <1>2, <2>2, <3>1, <4>1
    <3>2. CASE ~(i <= n)
      <4>1. i - n \in 1..k /\ from + (i - n) = i  BY <1>2, <1>4, <2>1, <3>2
      <4> QED  BY <1>3, <2>2, <3>2, <4>1
    <3> QED  BY <3>1, <3>2
  <2>4. IsPrefix(u, r)  BY <1>1, <2>1, <2>2, <2>3, PrefixElements
  <2>5. k < size => u = r  BY <1>1, <2>1, <2>2, <2>3, SeqEqual
  <2> QED  BY <2>4, <2>5
<1>5. ASSUME k < size, n = from + k, n # from PROVE s = r
  <2>1. n = m  BY <1>2, <1>3, <1>5
  <2> QED  BY <1>1, <1>2, <2>1, SeqEqual
<1> QED  BY <1>4, <1>5 DEF Continues

LEMMA EmptyPrefix ==
    ASSUME NEW r, IsSequence(r)
    PROVE  IsSequence(<<>>) /\ IsPrefix(<<>>, r)
<1>1. PICK T : r \in Seq(T)  BY DEF IsSequence
<1>2. <<>> \in Seq(T) /\ Len(<<>>) = 0  BY EmptySeq
<1> PICK e : e = <<>>  OBVIOUS
<1>3. e \in Seq(T) /\ Len(e) = 0 /\ Len(r) \in Nat  BY <1>1, <1>2, LenProperties
<1>4. Len(e) <= Len(r) /\ \A i \in 1..Len(e) : e[i] = r[i]  BY <1>3
<1>5. IsPrefix(e, r)  BY <1>1, <1>3, <1>4, PrefixElements
<1> QED  BY <1>2, <1>5 DEF IsSequence

LEMMA TableTyped == IInv => table \in AllTables
BY DEF IInv, TypeOK, AllTables

(* An answer without items to check: of another operation, an error, none. *)
LEMMA NoAnswer ==
    ASSUME answer' = None \/ (answer'.op = "Page" /\ answer'.err # "none"), Shown'
    PROVE  PagesFollow' /\ TotalAgrees' /\ FirstIsFirst'
BY DEF Shown, PagesFollow, TotalAgrees, FirstIsFirst, Answered, Paged

LEMMA TurnedInit == Init => Turned
<1> SUFFICES ASSUME Init PROVE Turned  OBVIOUS
<1>1. IInv  BY InitEstablishes
<1>2. /\ moved = FALSE /\ snapshot \in BOOLEAN /\ shown = <<>> /\ answer = None
      /\ counted = None
  BY DEF Init
<1>3. Shown  BY <1>2, EmptyPrefix, ResultIsSequence DEF Shown, Result
<1>4. Reading  BY <1>2 DEF Reading
<1>5. PagesFollow /\ TotalAgrees /\ FirstIsFirst
  BY <1>2, <1>3 DEF Shown, PagesFollow, TotalAgrees, FirstIsFirst, Answered, Paged
<1> QED  BY <1>1, <1>2, <1>3, <1>4, <1>5 DEF Turned

LEMMA TurnedBuild == ASSUME Turned, Build PROVE Turned'
<1>1. IInv'  BY StepPreserves DEF Turned, Next
<1>2. /\ answer' = None /\ pc' = pc /\ counted' = counted /\ total' = total /\ pc = "idle"
      /\ table' = table /\ distinct' = distinct /\ snapshot' = snapshot
  BY DEF Build, setting, call
<1>3. (shown' = shown /\ moved' = moved) \/ (shown' = <<>> /\ moved' = FALSE)
  BY DEF Build, Page
<1>4. Result(table)' = Result(table)  BY <1>2 DEF Result
<1>5. Shown'
  <2>1. IsSequence(Result(table))  BY ResultIsSequence DEF Result
  <2> QED  BY <1>3, <1>4, <2>1, EmptyPrefix DEF Turned, Shown
<1>6. counted = None  BY <1>2 DEF Turned, Reading
<1>7. Reading'  BY <1>2, <1>6 DEF Reading
<1>8. moved' \in BOOLEAN /\ snapshot' \in BOOLEAN  BY <1>2, <1>3 DEF Turned
<1> QED  BY <1>1, <1>2, <1>5, <1>7, <1>8, NoAnswer DEF Turned

(* Steps that neither show nor move an item.                               *)
LEMMA SameShown ==
    ASSUME Turned, UNCHANGED <<table, setting, shown, moved>>
    PROVE  /\ Result(table)' = Result(table) /\ Shown'
           /\ moved' \in BOOLEAN /\ snapshot' \in BOOLEAN
<1>1. Result(table)' = Result(table)  BY DEF Result, setting
<1> QED  BY <1>1 DEF Turned, Shown, setting

LEMMA TurnedCall ==
    ASSUME Turned, NEW skipCount \in BOOLEAN, Call(skipCount)
    PROVE  Turned'
<1>1. IInv'  BY StepPreserves DEF Turned, Next
<1>2. /\ UNCHANGED <<table, setting, shown, moved>>
      /\ counted = None /\ counted' = None
      /\ answer' = None \/ (answer'.op = "Page" /\ answer'.err # "none")
  BY DEF Call, Returns, history, Turned, Reading
<1>3. Reading'  BY <1>2 DEF Reading
<1> QED  BY <1>1, <1>2, <1>3, SameShown, NoAnswer DEF Turned

LEMMA NoRest == \A o \in Int : 0 - (IF o > 0 THEN o ELSE 0) <= 0
OBVIOUS

LEMMA TurnedCount == ASSUME Turned, Count PROVE Turned'
<1>1. IInv'  BY StepPreserves DEF Turned, Next
<1>2. UNCHANGED <<table, setting, query, shown, moved, asked>> /\ pc = "count"
  BY DEF Count, Returns, history
<1>3. CASE CountOf(table) = 0
  <2>1. /\ answer' = [op |-> "Page", err |-> "none", total |-> 0, data |-> <<>>,
                      seen |-> table, counted |-> table]
        /\ counted' = None
    BY <1>3 DEF Count, Returns
  <2>2. Reading'  BY <2>1 DEF Reading
  <2>3. Shown' /\ Result(table)' = Result(table)  BY <1>2, SameShown
  <2>4. PagesFollow'
    <3> SUFFICES ASSUME ~moved' PROVE shown' = Result(table)'
      BY <2>3 DEF PagesFollow, Shown
    <3> PICK s : s = shown  OBVIOUS
    <3> PICK r : r = Result(table)  OBVIOUS
    <3>1. IsPrefix(s, r) /\ Len(r) = 0
      BY <1>2, <1>3 DEF Turned, Shown, CountOf
    <3>2. PICK T : s \in Seq(T) /\ r \in Seq(T)
      BY Together, ResultIsSequence DEF Turned, Shown, Result
    <3>3. Len(s) <= Len(r) /\ Len(s) \in Nat  BY <3>1, <3>2, PrefixElements, LenProperties
    <3>4. Len(s) = Len(r) /\ \A i \in 1..Len(s) : s[i] = r[i]  BY <3>1, <3>3
    <3>5. s = r  BY <3>2, <3>4, SeqEqual
    <3> QED  BY <1>2, <2>3, <3>5
  <2>5. TotalAgrees'
    <3>1. offset' \in Int  BY <1>1, IntAssumption DEF IInv, TypeOK
    <3>2. 0 - (IF offset' > 0 THEN offset' ELSE 0) <= 0  BY <3>1, NoRest
    <3>3. Len(<<>>) = 0  BY EmptySeq
    <3> QED  BY <2>1, <3>2, <3>3 DEF TotalAgrees
  <2>6. FirstIsFirst'  BY <2>1 DEF FirstIsFirst
  <2> QED  BY <1>1, <1>2, <2>2, <2>3, <2>4, <2>5, <2>6, SameShown DEF Turned
<1>4. CASE CountOf(table) # 0
  <2>1. answer' = None /\ pc' = "list" /\ counted' = table /\ total' = CountOf(table)
    BY <1>4 DEF Count
  <2>2. CountOf(counted)' = CountOf(table)
    BY <1>2, <2>1 DEF CountOf, Result, setting
  <2>3. Reading'
    BY <1>2, <2>1, <2>2, TableTyped DEF Reading, Turned, AllTables
  <2> QED  BY <1>1, <1>2, <2>1, <2>3, SameShown, NoAnswer DEF Turned
<1> QED  BY <1>3, <1>4

(* What a list statement delivers, and how much.                           *)
LEMMA ListDelivers ==
    ASSUME NEW t, NEW lim \in Int, offset \in Int
    PROVE  /\ IsSequence(ListOf(t, lim))
           /\ Len(ListOf(t, lim)) =
                 LET rest == Len(Result(t)) - (IF offset > 0 THEN offset ELSE 0)
                 IN  IF rest <= 0 THEN 0 ELSE IF lim > 0 /\ lim < rest THEN lim ELSE rest
           /\ \A i \in 1..Len(ListOf(t, lim)) :
                 ListOf(t, lim)[i] = Result(t)[(IF offset > 0 THEN offset ELSE 0) + i]
<1>1. PICK r : r = Result(t)  OBVIOUS
<1>2. PICK T : r \in Seq(T)  BY <1>1, ResultIsSequence DEF IsSequence, Result
<1>3. PICK n \in Nat : n = Len(r)  BY <1>2, LenProperties
<1>4. PICK from \in Nat : from = IF offset > 0 THEN offset ELSE 0  OBVIOUS
<1>5. (IF lim > 0 THEN from + lim ELSE n) \in Int  OBVIOUS
<1>6. PICK to \in Int : to = IF lim > 0 THEN from + lim ELSE n  BY <1>5
<1>7. PICK c : c = Cut(r, from, to)  OBVIOUS
<1>8. c = ListOf(t, lim)  BY <1>1, <1>3, <1>4, <1>6, <1>7 DEF ListOf
<1>9. /\ c \in Seq(T)
      /\ Len(c) = IF from < to /\ from < Len(r)
                  THEN (IF to < Len(r) THEN to ELSE Len(r)) - from ELSE 0
      /\ \A i \in 1..Len(c) : c[i] = r[from + i]
  BY <1>2, <1>7, CutProperties
<1>10. Len(c) = IF n - from <= 0 THEN 0
                ELSE IF lim > 0 /\ lim < n - from THEN lim ELSE n - from
  <2>1. CASE lim > 0  BY <1>3, <1>6, <1>9, <2>1
  <2>2. CASE ~(lim > 0)  BY <1>3, <1>6, <1>9, <2>2
  <2> QED  BY <2>1, <2>2
<1> QED  BY <1>1, <1>3, <1>4, <1>8, <1>9, <1>10 DEF IsSequence

(* On a page that was asked for it is that page of the table.              *)
LEMMA PageDelivers ==
    ASSUME IInv, pc = "list", asked # Custom, NEW t
    PROVE  /\ (asked[1] - 1) * asked[2] \in Nat /\ asked[2] \in Nat
           /\ ListOf(t, limit) = Cut(Result(t), (asked[1] - 1) * asked[2],
                                                (asked[1] - 1) * asked[2] + asked[2])
<1> PICK a : a = asked[1]  OBVIOUS
<1> PICK b : b = asked[2]  OBVIOUS
<1>1. a \in 1..MaxInt /\ b \in 1..MaxInt  BY DEF IInv, PageAsked
<1>2. limit = b /\ offset = (a - 1) * b /\ limit > 0 /\ offset >= 0
  BY DEF IInv, TypeOK, Positioned
<1>3. a \in Nat /\ a - 1 \in Nat /\ b \in Nat  BY <1>1, IntAssumption
<1>4. (a - 1) * b \in Nat  BY <1>3, SMT
<1>5. (IF offset > 0 THEN offset ELSE 0) = (a - 1) * b  BY <1>2, <1>4
<1>6. ListOf(t, limit) = Cut(Result(t), (a - 1) * b, (a - 1) * b + b)
  BY <1>2, <1>5 DEF ListOf
<1> QED  BY <1>3, <1>4, <1>6

LEMMA TurnedList == ASSUME Turned, List PROVE Turned'
<1>0. PICK data : data = ListOf(View, limit)  OBVIOUS
<1>1. IInv'  BY StepPreserves DEF Turned, Next
<1>2. /\ pc = "list" /\ UNCHANGED <<table, setting, query, asked, moved>>
      /\ answer' = [op |-> "Page", err |-> "none", total |-> total, data |-> data,
                    seen |-> View, counted |-> counted]
      /\ counted' = None
      /\ shown' = IF asked # Custom /\ Len(shown) = (asked[1] - 1) * asked[2]
                  THEN shown \o data ELSE shown
  BY <1>0 DEF List, Returns
<1>3. Reading'  BY <1>2 DEF Reading
<1>4. limit \in Int /\ offset \in Int  BY IntAssumption DEF Turned, IInv, TypeOK
<1>5. IsSequence(data) /\ IsSequence(shown)
  BY <1>0, <1>4, ListDelivers DEF Turned, Shown
<1>6. IsSequence(shown')
  <2>1. PICK T : data \in Seq(T) /\ shown \in Seq(T)  BY <1>5, Together
  <2>2. shown \o data \in Seq(T)  BY <2>1, ConcatProperties
  <2> QED  BY <1>2, <2>1, <2>2 DEF IsSequence
<1>7. Result(table)' = Result(table) /\ moved' \in BOOLEAN /\ snapshot' \in BOOLEAN
  BY <1>2 DEF Result, setting, Turned
<1>8. Shown' /\ PagesFollow'
  <2>1. CASE moved  BY <1>2, <1>6, <2>1 DEF Shown, PagesFollow
  <2>2. CASE ~moved
    <3>1. View = table  BY <2>2 DEF View, Turned, Reading
    <3>10. PICK s : s = shown  OBVIOUS
    <3>11. PICK r : r = Result(table)  OBVIOUS
    <3>2. IsPrefix(s, r) /\ IsSequence(s) /\ IsSequence(r)
      BY <1>5, <2>2, <3>10, <3>11, ResultIsSequence DEF Turned, Shown, Result
    <3>3. CASE asked = Custom
      <4>1. shown' = s  BY <1>2, <3>3, <3>10
      <4> QED  BY <1>2, <3>11, <1>6, <1>7, <3>2, <3>3, <4>1 DEF Shown, PagesFollow, Paged
    <3>4. CASE asked # Custom
      <4>1. PICK from \in Nat : from = (asked[1] - 1) * asked[2]
        BY <1>2, <3>4, PageDelivers DEF Turned
      <4>2. PICK size \in Nat : size = asked[2]
        BY <1>2, <3>4, PageDelivers DEF Turned
      <4>3. data = Cut(r, from, from + size)
        BY <1>0, <1>2, <3>1, <3>4, <3>11, <4>1, <4>2, PageDelivers DEF Turned
      <4>4. Continues(s, r, data, from, size)  BY <3>2, <4>3, NextPage
      <4>5. shown' = IF Len(s) = from THEN s \o data ELSE s  BY <1>2, <3>4, <3>10, <4>1
      <4>6. Shown'  BY <1>6, <1>7, <3>2, <3>11, <4>4, <4>5 DEF Continues, Shown
      <4>7. Len(data) < size /\ Len(shown') = from + Len(data) => shown' = r
        BY <4>4, <4>5 DEF Continues
      <4>8. /\ asked' = asked /\ answer'.data = data
            /\ (asked'[1] - 1) * asked'[2] = from /\ asked'[2] = size
        BY <1>2, <4>1, <4>2
      <4> HIDE <1>2
      <4>9. IsPrefix(shown', Result(table)') \/ moved'  BY <4>6 DEF Shown
      <4>10. PagesFollow'  BY <1>7, <3>11, <4>7, <4>8, <4>9 DEF PagesFollow
      <4> QED  BY <4>6, <4>10
    <3> QED  BY <3>3, <3>4
  <2> QED  BY <2>1, <2>2
<1>9. TotalAgrees'
  <2> SUFFICES ASSUME counted # None, snapshot \/ counted = View
               PROVE  Len(data) =
                         LET rest == total - (IF offset > 0 THEN offset ELSE 0)
                         IN  IF rest <= 0 THEN 0
                             ELSE IF limit > 0 /\ limit < rest THEN limit ELSE rest
    BY <1>2 DEF TotalAgrees, setting, query
  <2>1. View = counted  BY DEF View
  <2>2. total = Len(Result(View))  BY <2>1 DEF Turned, Reading, CountOf
  <2> QED  BY <1>0, <1>4, <2>2, ListDelivers
<1>10. FirstIsFirst'  BY <1>2 DEF FirstIsFirst
<1> QED  BY <1>1, <1>3, <1>7, <1>8, <1>9, <1>10 DEF Turned

LEMMA TurnedFails == ASSUME Turned, Fails PROVE Turned'
<1>1. IInv'  BY StepPreserves DEF Turned, Next
<1>2. /\ UNCHANGED <<table, setting, shown, moved>>
      /\ counted' = None
      /\ answer'.op = "Page" /\ answer'.err # "none"
  BY DEF Fails, Returns, history
<1>3. Reading'  BY <1>2 DEF Reading
<1> QED  BY <1>1, <1>2, <1>3, SameShown, NoAnswer DEF Turned

LEMMA TurnedFindOneAs == ASSUME Turned, FindOneAs PROVE Turned'
<1>1. IInv'  BY StepPreserves DEF Turned, Next
<1> PICK one : one = ListOf(table, 1)  OBVIOUS
<1> PICK r : r = Result(table)  OBVIOUS
<1>2. /\ UNCHANGED <<table, setting, shown, moved>>
      /\ counted' = None
      /\ answer'.op = "FindOneAs" /\ answer'.seen = table
      /\ answer'.err = "none" => ~Conflict /\ one # <<>> /\ answer'.data = one
  BY DEF FindOneAs, Returns, history
<1>3. Reading'  BY <1>2 DEF Reading
<1>4. Shown' /\ Result(table)' = r /\ moved' \in BOOLEAN /\ snapshot' \in BOOLEAN
  BY <1>2, SameShown
<1>5. PagesFollow' /\ TotalAgrees'
  BY <1>2, <1>4 DEF Shown, PagesFollow, TotalAgrees, Answered, Paged
<1>6. ASSUME ~Conflict, one # <<>> PROVE one = <<r[1]>>
  <2>1. offset \in Int /\ ~(offset > 0)
    BY <1>6, IntAssumption DEF Conflict, Turned, IInv, TypeOK
  <2>2. (IF offset > 0 THEN offset ELSE 0) = 0 /\ 1 \in Int  BY <2>1
  <2> PICK n : n = Len(r)  OBVIOUS
  <2>3. n \in Nat  BY ResultIsSequence DEF Result
  <2>4. /\ IsSequence(one)
        /\ Len(one) = IF n - 0 <= 0 THEN 0 ELSE IF 1 > 0 /\ 1 < n - 0 THEN 1 ELSE n - 0
        /\ \A i \in 1..Len(one) : one[i] = r[0 + i]
    BY <2>1, <2>2, ListDelivers
  <2>5. PICK T : one \in Seq(T)  BY <2>4 DEF IsSequence
  <2>6. Len(one) # 0  BY <1>6, <2>5, EmptySeq
  <2>7. Len(one) = 1  BY <2>3, <2>4, <2>6
  <2>8. one[1] = r[1]  BY <2>4, <2>7
  <2>9. one \in [1..1 -> T]  BY <2>5, <2>7, LenProperties
  <2> QED  BY <2>8, <2>9
<1>7. FirstIsFirst'
  <2>1. Result(answer.seen)' = r  BY <1>2, <1>4 DEF Result
  <2> QED  BY <1>2, <1>6, <2>1 DEF FirstIsFirst
<1> QED  BY <1>1, <1>3, <1>4, <1>5, <1>7 DEF Turned

LEMMA TurnedChange ==
    ASSUME Turned, NEW k \in Keys, NEW v \in Values \cup {None}, Change(k, v)
    PROVE  Turned'
<1>1. IInv'  BY StepPreserves DEF Turned, Next
<1>2. /\ answer' = None /\ UNCHANGED <<setting, call, shown>>
      /\ moved' = (moved \/ ~IsPrefix(shown, Result(table')) \/ (snapshot /\ counted # None))
  BY DEF Change
<1>3. moved' \in BOOLEAN /\ snapshot' \in BOOLEAN
  BY <1>2 DEF Turned, setting
<1>4. Result(table)' = Result(table')  BY <1>2 DEF Result, setting
<1>5. Shown'
  BY <1>2, <1>4 DEF Turned, Shown
<1>6. Reading'
  <2>1. CountOf(counted)' = CountOf(counted)
    BY <1>2 DEF CountOf, Result, setting, call
  <2> QED  BY <1>2, <2>1 DEF Turned, Reading, AllTables, setting, call
<1> QED  BY <1>1, <1>2, <1>3, <1>5, <1>6, NoAnswer DEF Turned

LEMMA TurnedStays == Turned /\ [Next]_vars => Turned'
<1> SUFFICES ASSUME Turned, [Next]_vars PROVE Turned'  OBVIOUS
<1>1. CASE Next
  BY <1>1, TurnedBuild, TurnedCall, TurnedCount, TurnedList, TurnedFails, TurnedFindOneAs,
     TurnedChange DEF Next
<1>2. CASE UNCHANGED vars
  <2>1. IInv'  BY <1>2, StepPreserves DEF Turned
  <2>2. /\ UNCHANGED <<table, setting, shown, moved>> /\ call' = call /\ answer' = answer
        /\ query' = query /\ asked' = asked
    BY <1>2 DEF vars, history
  <2>3. Shown' /\ Result(table)' = Result(table) /\ moved' \in BOOLEAN /\ snapshot' \in BOOLEAN
    BY <2>2, SameShown
  <2>4. Reading'
    BY <2>2 DEF Turned, Reading, CountOf, Result, setting, call
  <2>5. PagesFollow'
    BY <2>2, <2>3 DEF Turned, PagesFollow, Paged, Answered, query
  <2>6. TotalAgrees'
    BY <2>2 DEF Turned, TotalAgrees, Answered, setting, query
  <2>7. FirstIsFirst'
    BY <2>2 DEF Turned, FirstIsFirst, Result, setting
  <2> QED  BY <2>1, <2>3, <2>4, <2>5, <2>6, <2>7 DEF Turned
<1> QED  BY <1>1, <1>2

(* At every moment the client has seen the beginning of the result.        *)
THEOREM TurnedInductive == Spec => []Turned
BY TurnedInit, TurnedStays, PTL DEF Spec

(* A client that turns the pages sees every item once and in order, and    *)
(* with the first page that is not full it has seen them all.              *)
THEOREM NothingSkipped == Spec => []PagesFollow
<1>1. Turned => PagesFollow  BY DEF Turned
<1> QED  BY TurnedInductive, <1>1, PTL

(* The total of COUNT is the number of items the pages show, if nothing    *)
(* changes in between or the transaction reads a snapshot.                 *)
THEOREM TotalIsShown == Spec => []TotalAgrees
<1>1. Turned => TotalAgrees  BY DEF Turned
<1> QED  BY TurnedInductive, <1>1, PTL

(* FindOneAs returns the first row of the result or refuses.               *)
THEOREM OneIsFirst == Spec => []FirstIsFirst
<1>1. Turned => FirstIsFirst  BY DEF Turned
<1> QED  BY TurnedInductive, <1>1, PTL
=============================================================================
