-------------------------- MODULE WhereClauseProofs --------------------------
(***************************************************************************)
(* For every table, every number of conditions and every set of rules: no  *)
(* statement leaves what its rules, the soft-delete filter and its keys    *)
(* allow, rules only take rows away, and HAVING and JOIN conditions narrow *)
(* the result as their chains say.                                         *)
(*                                                                         *)
(* The properties speak of the last statement only, so the work is in the  *)
(* lemmas on lists: a list without OR selects the rows of all its parts, a *)
(* list that does not open with OR is left in its order by GORM, and the   *)
(* soft-delete filter yields such a list; merging OR conditions into the   *)
(* item before them keeps the requirements of a HAVING chain (Merged).     *)
(* The state contributes that a model without soft delete has no deleted   *)
(* rows.                                                                   *)
(***************************************************************************)
EXTENDS WhereClause, WellFoundedInduction, TLAPS

NoOr(exprs) == \A k \in DOMAIN exprs : ~exprs[k].isOr

(* A condition list of bounded length is a list of conditions.             *)
LEMMA ConditionLists ==
    /\ Conditions \subseteq Seq(Condition)
    /\ Scopes \subseteq Seq(Condition)
    /\ \A rows \in SUBSET Rows : And(rows) \in Condition /\ ~And(rows).isOr
<1>1. Conditions \subseteq Seq(Condition)
  <2> SUFFICES ASSUME NEW s \in Conditions PROVE s \in Seq(Condition)  OBVIOUS
  <2>1. PICK m \in 0..MaxConds : s \in [1..m -> Condition]
    BY DEF Conditions, BoundedSeq, SeqOf
  <2> QED  BY <2>1, MaxCondsAssumption
<1>2. Scopes \subseteq Seq(Condition)
  <2> SUFFICES ASSUME NEW s \in Scopes PROVE s \in Seq(Condition)  OBVIOUS
  <2>1. CASE s = <<>>  BY <2>1
  <2>2. ASSUME NEW c \in Condition, s = <<c>> PROVE s \in Seq(Condition)
    BY <2>2
  <2> QED  BY <2>1, <2>2 DEF Scopes
<1> QED  BY <1>1, <1>2 DEF And, Condition

LEMMA MinOfOne ==
    ASSUME NEW S \in SUBSET (Nat \ {0}), 1 \in S
    PROVE  Min(S) = 1
<1>1. \A y \in S : 1 =< y  OBVIOUS
<1>2. \A x \in S : (\A y \in S : x =< y) => x = 1
  <2> SUFFICES ASSUME NEW x \in S, x =< 1 PROVE x = 1  OBVIOUS
  <2> QED  OBVIOUS
<1> QED  BY <1>1, <1>2 DEF Min

(* A non-empty set of keys has a first one.                                *)
LEMMA MinInSet ==
    ASSUME NEW S \in SUBSET Rows, S # {}
    PROVE  Min(S) \in S
<1>1. S \subseteq Nat  BY RowsAssumption
<1>2. \E x \in S : \A y \in S : ~ (<<y, x>> \in OpToRel(<, Nat))
  BY <1>1, WFMin, NatLessThanWellFounded
<1>3. \A x, y \in Nat : <<y, x>> \in OpToRel(<, Nat) <=> y < x
  BY DEF OpToRel
<1>4. \E x \in S : \A y \in S : ~(y < x)
  BY <1>1, <1>2, <1>3, Zenon
<1>5. \E x \in S : \A y \in S : x =< y
  BY <1>1, <1>4
<1> QED  BY <1>5 DEF Min

(* GORM leaves a list alone that does not open with OR.                    *)
LEMMA NotReordered ==
    ASSUME NEW L \in Seq(Condition), L = <<>> \/ ~Head(L).isOr
    PROVE  Reordered(L) = L
<1>1. CASE L = <<>>  BY <1>1 DEF Reordered
<1>2. CASE L # <<>>
  <2>1. 1 \in DOMAIN L /\ ~L[1].isOr  BY <1>2
  <2>2. FirstPlain(L) = 1
    <3> DEFINE S == {k \in DOMAIN L : ~L[k].isOr}
    <3>1. S \in SUBSET (Nat \ {0}) /\ 1 \in S  BY <2>1
    <3> HIDE DEF S
    <3>2. Min(S) = 1  BY <3>1, MinOfOne
    <3> QED  BY <3>2 DEF FirstPlain, S
  <2>3. [k \in DOMAIN L |-> CASE k = 1             -> L[FirstPlain(L)]
                              [] k = FirstPlain(L) -> L[1]
                              [] OTHER             -> L[k]]
        = [k \in DOMAIN L |-> L[k]]
    BY <2>2
  <2> QED  BY <2>1, <2>3 DEF Reordered
<1> QED  BY <1>1, <1>2

(* A list without OR selects the rows every part is true of.               *)
LEMMA SatAll ==
    ASSUME NEW L \in Seq(Condition), NoOr(L)
    PROVE  Sat(L) = {r \in Rows : \A k \in DOMAIN L : r \in L[k].rows}
<1>1. ASSUME NEW r \in Sat(L), NEW k \in DOMAIN L PROVE r \in L[k].rows
  <2>1. PICK s \in DOMAIN L :
          /\ s = 1 \/ L[s].isOr
          /\ \A j \in DOMAIN L :
                j >= s /\ (\A i \in s + 1 .. j : ~L[i].isOr) => r \in L[j].rows
    BY <1>1 DEF Sat
  <2>2. s = 1 /\ k >= 1 /\ k \in Nat  BY <2>1 DEF NoOr
  <2>3. \A i \in s + 1 .. k : ~L[i].isOr  BY <2>2 DEF NoOr
  <2> QED  BY <2>1, <2>2, <2>3
<1>2. ASSUME NEW r \in Rows, \A k \in DOMAIN L : r \in L[k].rows PROVE r \in Sat(L)
  <2>1. CASE L = <<>>  BY <2>1 DEF Sat
  <2>2. CASE L # <<>>
    <3>1. 1 \in DOMAIN L  BY <2>2
    <3> QED  BY <1>2, <3>1 DEF Sat
  <2> QED  BY <2>1, <2>2
<1>3. Sat(L) \subseteq Rows  BY DEF Sat
<1> QED  BY <1>1, <1>2, <1>3

(* What applyWhere selects of a list not opening with OR: the list's rows  *)
(* that all rules let through.                                             *)
LEMMA Applied ==
    ASSUME NEW L \in Seq(Condition), L = <<>> \/ ~Head(L).isOr, NEW rs
    PROVE  applyWhere(L, rs) = Sat(L) \cap Permitted(rs)
<1>1. Sat(L) \subseteq Rows  BY DEF Sat
<1> QED  BY <1>1, NotReordered DEF applyWhere, Permitted

(* Whatever the list, nothing is selected that a rule hides.               *)
LEMMA RulesRestrict ==
    ASSUME NEW L, NEW rs
    PROVE  applyWhere(L, rs) \subseteq Rows \cap Permitted(rs)
BY DEF applyWhere, Permitted, Sat

(* The soft-delete filter: the list's rows that are live, as a list that   *)
(* has no OR, or none but those of the list itself when there is no filter.*)
LEMMA FilterSound ==
    ASSUME NEW L \in Seq(Condition), deleted \subseteq Rows, NEW unscoped \in BOOLEAN
    PROVE  /\ Filtered(L, unscoped) \in Seq(Condition)
           /\ softDelete /\ ~unscoped =>
                 /\ NoOr(Filtered(L, unscoped))
                 /\ Sat(Filtered(L, unscoped)) = Sat(L) \ deleted
           /\ ~(softDelete /\ ~unscoped) => Filtered(L, unscoped) = L
<1>1. CASE ~(softDelete /\ ~unscoped)  BY <1>1 DEF Filtered
<1>2. CASE softDelete /\ ~unscoped
  <2>0. Sat(L) \subseteq Rows  BY DEF Sat
  <2>1. And(Sat(L)) \in Condition /\ And(Rows \ deleted) \in Condition
        /\ ~And(Sat(L)).isOr /\ ~And(Rows \ deleted).isOr
    BY <2>0, ConditionLists
  <2>2. And(Sat(L)).rows = Sat(L) /\ And(Rows \ deleted).rows = Rows \ deleted
    BY DEF And
  <2>3. Filtered(L, unscoped) = LiveOnly(L)  BY <1>2 DEF Filtered
  <2>4. CASE ~NoOr(L)
    <3> DEFINE M == <<And(Sat(L)), And(Rows \ deleted)>>
    <3>1. LiveOnly(L) = M  BY <2>4 DEF LiveOnly, NoOr
    <3>2. M \in Seq(Condition) /\ DOMAIN M = {1, 2}
          /\ M[1] = And(Sat(L)) /\ M[2] = And(Rows \ deleted)
      BY <2>1
    <3> HIDE DEF M
    <3>3. NoOr(M)  BY <2>1, <3>2 DEF NoOr
    <3>4. Sat(M) = Sat(L) \ deleted
      BY <2>0, <2>2, <3>2, <3>3, SatAll
    <3> QED  BY <1>2, <2>3, <3>1, <3>2, <3>3, <3>4
  <2>5. CASE NoOr(L)
    <3> DEFINE M == Append(L, And(Rows \ deleted))
    <3>1. LiveOnly(L) = M  BY <2>5 DEF LiveOnly, NoOr
    <3>2. M \in Seq(Condition) /\ DOMAIN M = DOMAIN L \cup {Len(L) + 1}
          /\ (\A k \in DOMAIN L : M[k] = L[k]) /\ M[Len(L) + 1] = And(Rows \ deleted)
      BY <2>1
    <3> HIDE DEF M
    <3>3. NoOr(M)  BY <2>1, <2>5, <3>2 DEF NoOr
    <3>4. Sat(M) = {r \in Rows : \A k \in DOMAIN M : r \in M[k].rows}
          /\ Sat(L) = {r \in Rows : \A k \in DOMAIN L : r \in L[k].rows}
      BY <2>5, <3>2, <3>3, SatAll
    <3>5. Sat(M) = Sat(L) \ deleted
      BY <2>2, <3>2, <3>4
    <3> QED  BY <1>2, <2>3, <3>1, <3>2, <3>3, <3>5
  <2> QED  BY <2>4, <2>5
<1> QED  BY <1>1, <1>2

-----------------------------------------------------------------------------
(* HAVING.  The items merged so far, as a function of how many conditions  *)
(* of the list h have been read.                                           *)
Merging(f, h, m) ==
    f = [n \in 0..m |-> IF n = 0 THEN <<>> ELSE Merge(f[n - 1], h[n])]

(* There is such a function for every prefix of the list.                  *)
LEMMA MergingExists ==
    ASSUME NEW h, NEW m \in Nat
    PROVE  \E f : Merging(f, h, m)
<1> DEFINE Missing == {n \in Nat : ~\E f : Merging(f, h, n)}
<1> SUFFICES ASSUME Missing # {} PROVE FALSE  OBVIOUS
<1>1. \E n \in Missing : \A k \in Missing : ~(<<k, n>> \in OpToRel(<, Nat))
  BY WFMin, NatLessThanWellFounded
<1>2. PICK n \in Missing : \A k \in Missing : ~(k < n)
  <2>1. \A k, n \in Nat : <<k, n>> \in OpToRel(<, Nat) <=> k < n  BY DEF OpToRel
  <2>2. Missing \subseteq Nat  OBVIOUS
  <2> HIDE DEF Missing
  <2> QED  BY <1>1, <2>1, <2>2, Zenon
<1>3. CASE n = 0
  <2>1. Merging([i \in 0..0 |-> <<>>], h, 0)  BY DEF Merging
  <2> QED  BY <1>3, <2>1
<1>4. CASE n # 0
  <2>1. n \in Nat /\ n - 1 \in Nat /\ n - 1 < n  BY <1>4
  <2>2. PICK f : Merging(f, h, n - 1)  BY <1>2, <2>1
  <2>3. PICK g : g = [i \in 0..n |-> IF i = n THEN Merge(f[n - 1], h[n]) ELSE f[i]]
    OBVIOUS
  <2>4. ASSUME NEW i \in 0..n
        PROVE  g[i] = IF i = 0 THEN <<>> ELSE Merge(g[i - 1], h[i])
    <3>1. CASE i = n
      <4>1. g[i] = Merge(f[n - 1], h[n]) /\ n - 1 \in 0..n /\ n - 1 # n
        BY <2>1, <2>3, <3>1
      <4>2. g[n - 1] = f[n - 1]  BY <2>3, <4>1
      <4> QED  BY <1>4, <3>1, <4>1, <4>2
    <3>2. CASE i # n
      <4>1. i \in 0..n - 1 /\ g[i] = f[i] /\ (i # 0 => i - 1 \in 0..n /\ i - 1 # n)
        BY <2>1, <2>3, <3>2
      <4>2. f[i] = IF i = 0 THEN <<>> ELSE Merge(f[i - 1], h[i])
        BY <2>2, <4>1 DEF Merging
      <4>3. i # 0 => g[i - 1] = f[i - 1]  BY <2>3, <4>1
      <4> QED  BY <4>1, <4>2, <4>3
    <3> QED  BY <3>1, <3>2
  <2>5. g = [i \in 0..n |-> g[i]]  BY <2>3
  <2>6. Merging(g, h, n)  BY <2>4, <2>5 DEF Merging
  <2> QED  BY <1>2, <2>6
<1> QED  BY <1>3, <1>4

LEMMA MergingIsExprs ==
    ASSUME NEW h \in Seq(Condition)
    PROVE  \E f : Merging(f, h, Len(h)) /\ havingExprs(h) = f[Len(h)]
<1> DEFINE F == CHOOSE f : Merging(f, h, Len(h))
<1>1. Len(h) \in Nat  OBVIOUS
<1>2. \E f : Merging(f, h, Len(h))  BY <1>1, MergingExists
<1>3. Merging(F, h, Len(h))  BY <1>2
<1>4. havingExprs(h) = F[Len(h)]  BY DEF havingExprs, Merging
<1> QED  BY <1>3, <1>4

(* The requirement that begins at position s, as far as position m.        *)
Holds(h, m, s, r) ==
    \E k \in s..m : (\A j \in s + 1 .. k : h[j].isOr) /\ r \in h[k].rows
Opens(h, s) == s = 1 \/ ~h[s].isOr

(* Of the items e merged from the first m conditions the last one is the   *)
(* requirement still open, the others are the ones before it.              *)
LastOpen(h, m, e) ==
    \E p \in 1..m :
       /\ Opens(h, p) /\ \A j \in p + 1 .. m : h[j].isOr
       /\ \A r : r \in e[Len(e)] <=> Holds(h, m, p, r)
       /\ \A r : (\A k \in 1 .. Len(e) - 1 : r \in e[k])
                    <=> \A s \in 1 .. p - 1 : Opens(h, s) => Holds(h, m, s, r)
Merged(h, m, e) ==
    /\ e \in Seq(SUBSET Rows) /\ (m = 0 => e = <<>>)
    /\ m > 0 => e # <<>> /\ LastOpen(h, m, e)

(* Another OR condition is part of the requirement still open only.        *)
LEMMA HoldsOn ==
    ASSUME NEW h, NEW m \in Nat, NEW r, NEW p \in 1..m, Opens(h, p)
    PROVE  /\ \A s \in 1 .. p - 1 : Holds(h, m + 1, s, r) <=> Holds(h, m, s, r)
           /\ ~h[m + 1].isOr => \A s \in 1..m : Holds(h, m + 1, s, r) <=> Holds(h, m, s, r)
           /\ (\A j \in p + 1 .. m + 1 : h[j].isOr) =>
                 (Holds(h, m + 1, p, r) <=> Holds(h, m, p, r) \/ r \in h[m + 1].rows)
<1>1. ASSUME NEW s \in 1 .. p - 1 PROVE Holds(h, m + 1, s, r) <=> Holds(h, m, s, r)
  <2>1. ~h[p].isOr /\ p \in s + 1 .. m + 1 /\ s \in 1..m  BY <1>1 DEF Opens
  <2> QED  BY <2>1 DEF Holds
<1>2. ASSUME ~h[m + 1].isOr, NEW s \in 1..m
      PROVE  Holds(h, m + 1, s, r) <=> Holds(h, m, s, r)
  <2>1. m + 1 \in s + 1 .. m + 1  OBVIOUS
  <2> QED  BY <1>2, <2>1 DEF Holds
<1>3. ASSUME \A j \in p + 1 .. m + 1 : h[j].isOr
      PROVE  Holds(h, m + 1, p, r) <=> Holds(h, m, p, r) \/ r \in h[m + 1].rows
  BY <1>3 DEF Holds
<1> QED  BY <1>1, <1>2, <1>3

LEMMA MergeStep ==
    ASSUME NEW h \in Seq(Condition), NEW m \in Nat, m + 1 <= Len(h),
           NEW e, Merged(h, m, e)
    PROVE  Merged(h, m + 1, Merge(e, h[m + 1]))
<1> DEFINE c == h[m + 1]
<1>1. PICK n \in Nat : n = Len(e)  BY DEF Merged
<1>2. c \in Condition /\ c.rows \subseteq Rows /\ m + 1 \in Nat
  <2>1. m + 1 \in 1 .. Len(h) /\ m + 1 \in Nat  OBVIOUS
  <2>2. c \in Condition  BY <2>1
  <2> QED  BY <2>1, <2>2 DEF Condition
<1>3. e \in Seq(SUBSET Rows) /\ (m = 0 => e = <<>>) /\ (m > 0 => e # <<>>)  BY DEF Merged
<1>4. ASSUME m > 0
      PROVE  \E p \in 1..m :
                /\ Opens(h, p) /\ \A j \in p + 1 .. m : h[j].isOr
                /\ \A r : r \in e[n] <=> Holds(h, m, p, r)
                /\ \A r : (\A k \in 1 .. n - 1 : r \in e[k])
                             <=> \A s \in 1 .. p - 1 : Opens(h, s) => Holds(h, m, s, r)
  BY <1>1, <1>4 DEF Merged, LastOpen
<1> HIDE DEF c
<1>5. CASE m > 0 /\ c.isOr
  <2>1. PICK p \in 1..m :
            /\ Opens(h, p) /\ \A j \in p + 1 .. m : h[j].isOr
            /\ \A r : r \in e[n] <=> Holds(h, m, p, r)
            /\ \A r : (\A k \in 1 .. n - 1 : r \in e[k])
                         <=> \A s \in 1 .. p - 1 : Opens(h, s) => Holds(h, m, s, r)
    BY <1>4, <1>5
  <2>2. PICK u : u = [e EXCEPT ![n] = @ \cup c.rows]  OBVIOUS
  <2>3. Merge(e, c) = u  BY <1>1, <1>3, <1>5, <2>2 DEF Merge
  <2>4. /\ u \in Seq(SUBSET Rows) /\ Len(u) = n /\ n > 0
        /\ u[n] = e[n] \cup c.rows /\ \A k \in 1 .. n - 1 : u[k] = e[k]
    BY <1>1, <1>2, <1>3, <1>5, <2>2
  <2>5. \A j \in p + 1 .. m + 1 : h[j].isOr  BY <1>5, <2>1 DEF c
  <2>6. \A r : r \in u[n] <=> Holds(h, m + 1, p, r)
    BY <2>1, <2>4, <2>5, HoldsOn DEF c
  <2>7. ASSUME NEW r
        PROVE  (\A k \in 1 .. n - 1 : r \in u[k])
                  <=> \A s \in 1 .. p - 1 : Opens(h, s) => Holds(h, m + 1, s, r)
    <3>1. \A s \in 1 .. p - 1 : Holds(h, m + 1, s, r) <=> Holds(h, m, s, r)
      BY <2>1, HoldsOn
    <3> QED  BY <2>1, <2>4, <3>1
  <2>8. p \in 1 .. m + 1 /\ m + 1 > 0 /\ m + 1 # 0 /\ u # <<>>  BY <2>4
  <2>9. LastOpen(h, m + 1, u)
    BY <2>1, <2>4, <2>5, <2>6, <2>7, <2>8 DEF LastOpen
  <2>10. Merged(h, m + 1, u)  BY <2>4, <2>8, <2>9 DEF Merged
  <2> QED  BY <2>3, <2>10 DEF c
<1>6. CASE ~(m > 0 /\ c.isOr)
  <2>1. PICK u : u = Append(e, c.rows)  OBVIOUS
  <2>2. Merge(e, c) = u  BY <1>3, <1>6, <2>1 DEF Merge
  <2>3. /\ u \in Seq(SUBSET Rows) /\ Len(u) = n + 1
        /\ u[n + 1] = c.rows /\ \A k \in 1..n : u[k] = e[k]
    BY <1>1, <1>2, <1>3, <2>1
  <2>4. Opens(h, m + 1) /\ (m > 0 => ~h[m + 1].isOr)  BY <1>6 DEF Opens, c
  <2>5. \A r : r \in u[n + 1] <=> Holds(h, m + 1, m + 1, r)
    <3>1. \A r : Holds(h, m + 1, m + 1, r) <=> r \in h[m + 1].rows  BY DEF Holds
    <3> QED  BY <2>3, <3>1 DEF c
  <2>6. ASSUME NEW r
        PROVE  (\A k \in 1..n : r \in u[k])
                  <=> \A s \in 1..m : Opens(h, s) => Holds(h, m + 1, s, r)
    <3>1. CASE m = 0
      <4>1. n = 0  BY <1>1, <1>3, <3>1
      <4> QED  BY <3>1, <4>1
    <3>2. CASE m > 0
      <4>1. PICK p \in 1..m :
                /\ Opens(h, p) /\ \A j \in p + 1 .. m : h[j].isOr
                /\ \A x : x \in e[n] <=> Holds(h, m, p, x)
                /\ \A x : (\A k \in 1 .. n - 1 : x \in e[k])
                             <=> \A s \in 1 .. p - 1 : Opens(h, s) => Holds(h, m, s, x)
        BY <1>4, <3>2
      <4>2. \A s \in 1..m : Holds(h, m + 1, s, r) <=> Holds(h, m, s, r)
        BY <2>4, <3>2, <4>1, HoldsOn
      <4>3. n > 0  BY <1>1, <1>3, <3>2
      <4>4. (\A k \in 1..n : r \in e[k]) <=> (\A k \in 1 .. n - 1 : r \in e[k]) /\ r \in e[n]
        BY <4>3
      <4>5. (\A s \in 1..m : Opens(h, s) => Holds(h, m, s, r))
               <=> /\ \A s \in 1 .. p - 1 : Opens(h, s) => Holds(h, m, s, r)
                   /\ Holds(h, m, p, r)
        <5>1. \A s \in p + 1 .. m : ~Opens(h, s)  BY <4>1 DEF Opens
        <5> QED  BY <4>1, <5>1
      <4> QED  BY <2>3, <4>1, <4>2, <4>4, <4>5
    <3> QED  BY <3>1, <3>2
  <2>7. m + 1 \in 1 .. m + 1 /\ m + 1 > 0 /\ m + 1 # 0 /\ (m + 1) - 1 = m /\ (n + 1) - 1 = n /\ u # <<>>
        /\ (m + 1) + 1 .. m + 1 = {}
    BY <1>1, <2>3
  <2>8. LastOpen(h, m + 1, u)
    BY <2>3, <2>4, <2>5, <2>6, <2>7 DEF LastOpen
  <2>9. Merged(h, m + 1, u)  BY <2>3, <2>7, <2>8 DEF Merged
  <2> QED  BY <2>2, <2>9 DEF c
<1> QED  BY <1>5, <1>6

LEMMA MergedAll ==
    ASSUME NEW h \in Seq(Condition), NEW f, Merging(f, h, Len(h))
    PROVE  Merged(h, Len(h), f[Len(h)])
<1> DEFINE Bad == {n \in 0..Len(h) : ~Merged(h, n, f[n])}
<1>0. Len(h) \in Nat /\ Bad \subseteq Nat  OBVIOUS
<1>1. \A n \in 0..Len(h) : f[n] = IF n = 0 THEN <<>> ELSE Merge(f[n - 1], h[n])
  <2>1. f = [n \in 0..Len(h) |-> IF n = 0 THEN <<>> ELSE Merge(f[n - 1], h[n])]
    BY DEF Merging
  <2> QED  BY <2>1, Zenon
<1> SUFFICES ASSUME Bad # {} PROVE FALSE  BY <1>0
<1>2. PICK n \in Bad : \A k \in Bad : ~(k < n)
  <2>1. \A k, n \in Nat : <<k, n>> \in OpToRel(<, Nat) <=> k < n  BY DEF OpToRel
  <2> HIDE DEF Bad
  <2>2. \E n \in Bad : \A k \in Bad : ~(<<k, n>> \in OpToRel(<, Nat))
    BY <1>0, WFMin, NatLessThanWellFounded
  <2> QED  BY <1>0, <2>1, <2>2, Zenon
<1>3. CASE n = 0
  <2>1. f[0] = <<>>  BY <1>0, <1>1
  <2>2. Merged(h, 0, <<>>)  BY DEF Merged
  <2> QED  BY <1>2, <1>3, <2>1, <2>2
<1>4. CASE n # 0
  <2>1. n - 1 \in 0..Len(h) /\ n - 1 < n /\ (n - 1) + 1 = n /\ n - 1 \in Nat
        /\ (n - 1) + 1 <= Len(h) /\ n \in 0..Len(h)
    BY <1>0, <1>4
  <2>2. Merged(h, n - 1, f[n - 1])  BY <1>2, <2>1
  <2>3. Merged(h, (n - 1) + 1, Merge(f[n - 1], h[(n - 1) + 1]))
    BY <2>1, <2>2, MergeStep
  <2>4. f[n] = Merge(f[n - 1], h[n])  BY <1>1, <1>4, <2>1
  <2> QED  BY <1>2, <2>1, <2>3, <2>4
<1> QED  BY <1>3, <1>4

(* What GORM joins with AND is what the chain requires.                    *)
LEMMA HavingMeaning ==
    ASSUME NEW h \in Seq(Condition)
    PROVE  applyGroupHaving(h) = Required(h)
<1>1. PICK f : Merging(f, h, Len(h)) /\ havingExprs(h) = f[Len(h)]
  BY MergingIsExprs
<1>2. PICK e : e = havingExprs(h)  OBVIOUS
<1>3. PICK m \in Nat : m = Len(h)  OBVIOUS
<1>4. Merged(h, m, e)  BY <1>1, <1>2, <1>3, MergedAll
<1>5. ASSUME NEW r \in Rows
      PROVE  (\A k \in DOMAIN e : r \in e[k])
                <=> \A s \in 1..m : Opens(h, s) => Holds(h, m, s, r)
  <2>1. CASE m = 0
    <3>1. e = <<>>  BY <1>4, <2>1 DEF Merged
    <3> QED  BY <2>1, <3>1
  <2>2. CASE m > 0
    <3>1. e # <<>> /\ e \in Seq(SUBSET Rows)  BY <1>4, <2>2 DEF Merged
    <3>2. PICK p \in 1..m :
              /\ Opens(h, p) /\ \A j \in p + 1 .. m : h[j].isOr
              /\ \A x : x \in e[Len(e)] <=> Holds(h, m, p, x)
              /\ \A x : (\A k \in 1 .. Len(e) - 1 : x \in e[k])
                           <=> \A s \in 1 .. p - 1 : Opens(h, s) => Holds(h, m, s, x)
      BY <1>4, <2>2 DEF Merged, LastOpen
    <3>3. PICK n \in Nat : n = Len(e)  BY <3>1
    <3>4. n > 0 /\ DOMAIN e = 1..n  BY <3>1, <3>3
    <3>5. (\A k \in 1..n : r \in e[k]) <=> (\A k \in 1 .. n - 1 : r \in e[k]) /\ r \in e[n]
      BY <3>4
    <3>6. (\A s \in 1..m : Opens(h, s) => Holds(h, m, s, r))
             <=> /\ \A s \in 1 .. p - 1 : Opens(h, s) => Holds(h, m, s, r)
                 /\ Holds(h, m, p, r)
      <4>1. \A s \in p + 1 .. m : ~Opens(h, s)  BY <3>2 DEF Opens
      <4> QED  BY <3>2, <4>1
    <3> QED  BY <3>2, <3>3, <3>4, <3>5, <3>6
  <2> QED  BY <1>3, <2>1, <2>2
<1>6. DOMAIN h = 1..m  BY <1>3
<1>7. Required(h) = {r \in Rows : \A s \in 1..m : Opens(h, s) => Holds(h, m, s, r)}
  BY <1>3, <1>6 DEF Required, Opens, Holds
<1>8. applyGroupHaving(h) = {r \in Rows : \A k \in DOMAIN e : r \in e[k]}
  BY <1>2 DEF applyGroupHaving
<1> QED  BY <1>5, <1>7, <1>8

(* The conditions of an inner JOIN: equal columns, and what the further    *)
(* conditions select in SQL's own reading.                                 *)
LEMMA JoinMeaning ==
    ASSUME NEW equal \in SUBSET Rows, NEW on \in Seq(Condition)
    PROVE  applyJoins(equal, on) = {r \in equal : on = <<>> \/ r \in Sat(on)}
<1>0. Sat(on) \in SUBSET Rows  BY DEF Sat
<1>1. /\ And(equal) \in Condition /\ ~And(equal).isOr /\ And(equal).rows = equal
      /\ And(Sat(on)) \in Condition /\ ~And(Sat(on)).isOr /\ And(Sat(on)).rows = Sat(on)
  BY <1>0, ConditionLists DEF And
<1>2. CASE on = <<>>
  <2>1. PICK L : L = <<And(equal)>>  OBVIOUS
  <2>2. L \in Seq(Condition) /\ DOMAIN L = {1} /\ L[1] = And(equal)  BY <1>1, <2>1
  <2>3. Sat(L) = {r \in Rows : \A k \in DOMAIN L : r \in L[k].rows}
    BY <1>1, <2>2, SatAll DEF NoOr
  <2>4. applyJoins(equal, on) = Sat(L)  BY <1>2, <2>1 DEF applyJoins
  <2> QED  BY <1>1, <1>2, <2>2, <2>3, <2>4
<1>3. CASE on # <<>>
  <2>1. PICK L : L = <<And(equal), And(Sat(on))>>  OBVIOUS
  <2>2. L \in Seq(Condition) /\ DOMAIN L = {1, 2} /\ L[1] = And(equal) /\ L[2] = And(Sat(on))
    BY <1>1, <2>1
  <2>3. Sat(L) = {r \in Rows : \A k \in DOMAIN L : r \in L[k].rows}
    BY <1>1, <2>2, SatAll DEF NoOr
  <2>4. applyJoins(equal, on) = Sat(L)  BY <1>3, <2>1 DEF applyJoins
  <2> QED  BY <1>1, <1>3, <2>2, <2>3, <2>4
<1> QED  BY <1>2, <1>3

-----------------------------------------------------------------------------
(* What the properties say of a statement sent while the context's rules   *)
(* are rs and the rows of ds are deleted.                                  *)
WithinRows(stmt) ==
    /\ stmt.rows \subseteq Rows /\ stmt.ids \subseteq Rows
    /\ stmt.err \in {"none", "ErrMissingWhereClause", "ErrRecordNotFound"}
    /\ stmt.err # "none" => stmt.rows = {}
Restricted(stmt) ==
    stmt.op \in {"Find", "DeleteByCond", "UpdateByCond"} /\ ~stmt.leadingOr
        => stmt.rows = stmt.asked \cap Permitted(stmt.rules)
Hides(stmt) ==
    stmt.op \notin {"Restore", "RestoreByCond"} => stmt.rows \cap stmt.hidden = {}
Keyed(stmt) == ~stmt.mixed => stmt.rows \subseteq stmt.ids
Narrowed(stmt) ==
    stmt.op \in {"FindGrouped", "FindJoined"} /\ ~stmt.leadingOr
        => stmt.rows = stmt.asked \cap Permitted(stmt.rules) \cap stmt.kept

Good(stmt) ==
    /\ WithinRows(stmt)
    /\ stmt.rows \subseteq Permitted(stmt.rules)
    /\ Restricted(stmt) /\ Hides(stmt) /\ Keyed(stmt) /\ Narrowed(stmt)

(* A statement that nothing narrows further is exactly what was asked for. *)
Exact(stmt) == ~stmt.leadingOr => stmt.rows = stmt.asked \cap Permitted(stmt.rules)

IInv == TypeOK /\ (~softDelete => deleted = {}) /\ Good(last)

(* A failed operation touches nothing.                                     *)
LEMMA FailedGood ==
    ASSUME NEW op, NEW rs, NEW e \in {"none", "ErrMissingWhereClause", "ErrRecordNotFound"}
    PROVE  Good(Failed(op, rs, e))
BY DEF Failed, Good, WithinRows, Restricted, Hides, Keyed, Narrowed

(* A statement is good if, when its list has no OR, one of its parts keeps *)
(* it within its keys.                                                     *)
LEMMA StatementGood ==
    ASSUME IInv, NEW op, NEW ids \in SUBSET Rows, NEW L \in Seq(Condition),
           NEW rs, NEW unscoped \in BOOLEAN, NEW r,
           \/ ids = Rows
           \/ \E k \in DOMAIN L : L[k].rows \subseteq ids
    PROVE  /\ Good(Statement(op, ids, L, rs, unscoped))
           /\ Exact(Statement(op, ids, L, rs, unscoped))
<1> DEFINE F == Filtered(L, unscoped)
           stmt == Statement(op, ids, L, rs, unscoped)
<1>1. deleted \subseteq Rows /\ table \subseteq Rows /\ (~softDelete => deleted = {})
  BY DEF IInv, TypeOK
<1>2. /\ F \in Seq(Condition)
      /\ softDelete /\ ~unscoped => NoOr(F) /\ Sat(F) = Sat(L) \ deleted
      /\ ~(softDelete /\ ~unscoped) => F = L
  BY <1>1, FilterSound
<1>3. /\ stmt.op = op /\ stmt.ids = ids /\ stmt.rules = rs /\ stmt.err = "none"
      /\ stmt.leadingOr = (L # <<>> /\ Head(L).isOr)
      /\ stmt.mixed = (\E k \in DOMAIN L : L[k].isOr)
      /\ stmt.asked = Live(unscoped) \cap Sat(L)
      /\ stmt.rows = table \cap applyWhere(F, rs)
      /\ stmt.hidden = (IF unscoped THEN {} ELSE deleted) /\ stmt.kept = Rows
  BY DEF Statement
<1> HIDE DEF F, stmt
<1>4. applyWhere(F, rs) \subseteq Rows \cap Permitted(rs)  BY RulesRestrict
<1>5. ASSUME F = <<>> \/ ~Head(F).isOr
      PROVE  applyWhere(F, rs) = Sat(F) \cap Permitted(rs)
  BY <1>2, <1>5, Applied
<1>6. NoOr(F) => F = <<>> \/ ~Head(F).isOr
  BY <1>2 DEF NoOr
<1>7. Exact(stmt)
  <2>1. CASE softDelete /\ ~unscoped
    <3>1. stmt.rows = table \cap ((Sat(L) \ deleted) \cap Permitted(rs))
      BY <1>2, <1>3, <1>5, <1>6, <2>1
    <3>2. stmt.asked = (table \ deleted) \cap Sat(L)
      BY <1>3, <2>1 DEF Live
    <3> QED  BY <1>3, <3>1, <3>2 DEF Exact
  <2>2. CASE ~(softDelete /\ ~unscoped)
    <3>1. stmt.asked = table \cap Sat(L)
      BY <1>3, <2>2 DEF Live
    <3>2. ~stmt.leadingOr => applyWhere(F, rs) = Sat(L) \cap Permitted(rs)
      BY <1>2, <1>3, <1>5, <2>2
    <3> QED  BY <1>3, <3>1, <3>2 DEF Exact
  <2> QED  BY <2>1, <2>2
<1>8. Hides(stmt)
  <2>1. CASE softDelete /\ ~unscoped
    BY <1>2, <1>3, <1>5, <1>6, <2>1 DEF Hides
  <2>2. CASE ~(softDelete /\ ~unscoped)
    BY <1>1, <1>3, <2>2 DEF Hides
  <2> QED  BY <2>1, <2>2
<1>9. Keyed(stmt)
  <2> SUFFICES ASSUME NoOr(L) PROVE stmt.rows \subseteq ids
    BY <1>3 DEF Keyed, NoOr
  <2>1. NoOr(F)  BY <1>2
  <2>2. applyWhere(F, rs) \subseteq Sat(F)
    BY <1>5, <1>6, <2>1
  <2>3. Sat(F) \subseteq Sat(L)  BY <1>2
  <2>4. Sat(L) = {x \in Rows : \A k \in DOMAIN L : x \in L[k].rows}
    BY SatAll
  <2>5. Sat(L) \subseteq ids  BY <2>4
  <2> QED  BY <1>3, <2>2, <2>3, <2>5
<1>10. WithinRows(stmt)  BY <1>1, <1>3 DEF WithinRows
<1>11. stmt.rows \subseteq Permitted(stmt.rules)  BY <1>3, <1>4
<1>12. Restricted(stmt) /\ Narrowed(stmt)
  <2>1. stmt.rows \subseteq stmt.kept  BY <1>3, <1>10 DEF WithinRows
  <2> QED  BY <1>7, <2>1 DEF Exact, Restricted, Narrowed
<1> QED  BY <1>7, <1>8, <1>9, <1>10, <1>11, <1>12 DEF Good, stmt

(* The two ways to use it: a statement that names all rows, and one whose  *)
(* k-th part is true of no rows but those it names.                        *)
LEMMA UnkeyedGood ==
    ASSUME IInv, NEW op, NEW L \in Seq(Condition), NEW unscoped \in BOOLEAN
    PROVE  /\ Good(Statement(op, Rows, L, rules, unscoped))
           /\ Exact(Statement(op, Rows, L, rules, unscoped))
<1>1. Rows \in SUBSET Rows  OBVIOUS
<1> QED  BY <1>1, StatementGood

LEMMA KeyedGood ==
    ASSUME IInv, NEW op, NEW ids \in SUBSET Rows, NEW L \in Seq(Condition),
           NEW unscoped \in BOOLEAN, NEW k \in DOMAIN L, L[k].rows \subseteq ids
    PROVE  Good(Statement(op, ids, L, rules, unscoped))
<1>1. \E j \in DOMAIN L : L[j].rows \subseteq ids  OBVIOUS
<1> QED  BY <1>1, StatementGood

(* The update of FirstOrUpdate: the key comes last in the list.            *)
LEMMA FirstOrUpdateGood ==
    ASSUME IInv, NEW conds \in Seq(Condition), NEW updConds \in Seq(Condition),
           NEW updRules, NEW moves \in BOOLEAN,
           FirstOrUpdate(conds, updConds, updRules, moves)
    PROVE  Good(last') /\ UNCHANGED <<softDelete, rules, table, deleted>>
<1> DEFINE found   == table \cap applyWhere(Filtered(conds, FALSE), rules)
           key     == Min(found)
           F       == Filtered(updConds, FALSE)
           L       == Append(F, And({key}))
           updated == table \cap applyWhere(L, updRules)
           lost    == moves /\ rules # {} /\ key \in updated
           stmt    == [Statement("FirstOrUpdate", {key}, updConds, updRules, FALSE)
                         EXCEPT !.rows = updated]
<1>1. /\ last' = IF found = {} THEN Failed("Create", rules, "none")
                 ELSE IF lost THEN Failed("FirstOrUpdate", rules, "ErrRecordNotFound")
                 ELSE stmt
      /\ UNCHANGED <<softDelete, rules, table, deleted>>
  BY DEF FirstOrUpdate, Read
<1>2. CASE found = {} \/ lost
  <2>1. Good(Failed("Create", rules, "none"))  BY FailedGood
  <2>2. Good(Failed("FirstOrUpdate", rules, "ErrRecordNotFound"))  BY FailedGood
  <2> HIDE DEF found, key, lost, stmt
  <2> QED  BY <1>1, <1>2, <2>1, <2>2
<1>3. CASE found # {} /\ ~lost
  <2>1. deleted \subseteq Rows /\ table \subseteq Rows /\ (~softDelete => deleted = {})
    BY DEF IInv, TypeOK
  <2>2. key \in Rows
    <3>1. found \subseteq Rows  BY <2>1
    <3> HIDE DEF found
    <3>2. Min(found) \in found  BY <1>3, <3>1, MinInSet
    <3> QED  BY <3>1, <3>2
  <2>3. /\ F \in Seq(Condition)
        /\ softDelete => NoOr(F) /\ Sat(F) = Sat(updConds) \ deleted
        /\ ~softDelete => F = updConds
    BY <2>1, FilterSound
  <2>4. /\ stmt.op = "FirstOrUpdate" /\ stmt.ids = {key} /\ stmt.rules = updRules
        /\ stmt.err = "none" /\ stmt.rows = updated
        /\ stmt.mixed = (\E k \in DOMAIN updConds : updConds[k].isOr)
        /\ stmt.hidden = deleted
    BY DEF Statement
  <2>5. last' = stmt  BY <1>1, <1>3
  <2>6. And({key}) \in Condition /\ ~And({key}).isOr /\ And({key}).rows = {key}
    BY <2>2, ConditionLists DEF And
  <2> HIDE DEF F, key
  <2>7. /\ L \in Seq(Condition) /\ DOMAIN L = DOMAIN F \cup {Len(F) + 1}
        /\ (\A k \in DOMAIN F : L[k] = F[k]) /\ L[Len(F) + 1] = And({key})
    BY <2>3, <2>6
  <2> HIDE DEF L
  <2>8. applyWhere(L, updRules) \subseteq Rows \cap Permitted(updRules)
    BY RulesRestrict
  <2>9. NoOr(F) => applyWhere(L, updRules) \subseteq {key} /\ applyWhere(L, updRules) \subseteq Sat(F)
    <3> SUFFICES ASSUME NoOr(F)
                 PROVE  applyWhere(L, updRules) \subseteq {key}
                        /\ applyWhere(L, updRules) \subseteq Sat(F)
      OBVIOUS
    <3>1. NoOr(L)  BY <2>6, <2>7 DEF NoOr
    <3>2. L = <<>> \/ ~Head(L).isOr
      <4> SUFFICES ASSUME L # <<>> PROVE ~Head(L).isOr  OBVIOUS
      <4>1. 1 \in DOMAIN L /\ Head(L) = L[1]  BY <2>7
      <4> QED  BY <3>1, <4>1 DEF NoOr
    <3>3. applyWhere(L, updRules) \subseteq Sat(L)  BY <2>7, <3>2, Applied
    <3>4. Sat(L) = {r \in Rows : \A k \in DOMAIN L : r \in L[k].rows}
      BY <2>7, <3>1, SatAll
    <3>5. Sat(F) = {r \in Rows : \A k \in DOMAIN F : r \in F[k].rows}
      BY <2>3, SatAll
    <3>6. Sat(L) \subseteq {key}  BY <2>6, <2>7, <3>4
    <3>7. Sat(L) \subseteq Sat(F)  BY <2>7, <3>4, <3>5
    <3> QED  BY <3>3, <3>6, <3>7
  <2>10. Hides(stmt)
    <3>1. CASE softDelete  BY <2>3, <2>4, <2>9, <3>1 DEF Hides
    <3>2. CASE ~softDelete  BY <2>1, <2>4, <3>2 DEF Hides
    <3> QED  BY <3>1, <3>2
  <2>11. Keyed(stmt)
    <3> SUFFICES ASSUME NoOr(updConds) PROVE updated \subseteq {key}
      BY <2>4 DEF Keyed, NoOr
    <3>1. NoOr(F)  BY <2>3
    <3> QED  BY <2>9, <3>1
  <2>12. WithinRows(stmt)
    <3>1. updated \subseteq Rows  BY <2>1
    <3> HIDE DEF updated, stmt
    <3> QED  BY <2>2, <2>4, <3>1 DEF WithinRows
  <2>13. Restricted(stmt) /\ Narrowed(stmt)  BY <2>4 DEF Restricted, Narrowed
  <2>14. stmt.rows \subseteq Permitted(stmt.rules)  BY <2>4, <2>8
  <2> QED
    BY <1>1, <2>5, <2>10, <2>11, <2>12, <2>13, <2>14 DEF Good
<1> QED  BY <1>2, <1>3

-----------------------------------------------------------------------------
(* What a statement touches exists.                                        *)
LEMMA TouchesTable ==
    ASSUME NEW op, NEW ids, NEW L, NEW rs, NEW unscoped
    PROVE  Statement(op, ids, L, rs, unscoped).rows \subseteq table
BY DEF Statement

(* A step that leaves the data as it is and records a good statement.      *)
LEMMA ReadStep ==
    ASSUME IInv, Good(last'), UNCHANGED <<softDelete, rules, table, deleted>>
    PROVE  IInv'
<1>1. TypeOK'  BY DEF IInv, TypeOK, Good, WithinRows
<1>2. Good(last)'
  BY DEF Good, WithinRows, Restricted, Hides, Keyed, Narrowed, Permitted
<1> QED  BY <1>1, <1>2 DEF IInv

(* A step that records a good statement and marks, unmarks or removes the  *)
(* rows it touched.                                                        *)
LEMMA WriteStep ==
    ASSUME IInv, Good(last'), UNCHANGED <<softDelete, rules>>,
           last'.rows \subseteq table,
           \/ softDelete /\ deleted' = deleted \cup last'.rows /\ table' = table
           \/ deleted' = deleted \ last'.rows /\ table' \in {table, table \ last'.rows}
    PROVE  IInv'
<1>1. TypeOK'  BY DEF IInv, TypeOK, Good, WithinRows
<1>2. Good(last)'
  BY DEF Good, WithinRows, Restricted, Hides, Keyed, Narrowed, Permitted
<1>3. ~softDelete' => deleted' = {}  BY DEF IInv
<1> QED  BY <1>1, <1>2, <1>3 DEF IInv

LEMMA DeleteStep ==
    ASSUME IInv, NEW stmt, NEW unscoped, Delete(stmt, unscoped), Good(stmt),
           stmt.rows \subseteq table
    PROVE  IInv'
BY WriteStep DEF Delete

LEMMA UndeleteStep ==
    ASSUME IInv, NEW stmt, Undelete(stmt), Good(stmt), stmt.rows \subseteq table
    PROVE  IInv'
BY WriteStep DEF Undelete

(* A by-condition write sends a good statement or is refused.              *)
LEMMA WriteGood ==
    ASSUME IInv, NEW op \in {"DeleteByCond", "UpdateByCond"}, NEW L \in Seq(Condition),
           NEW unscoped \in BOOLEAN
    PROVE  Good(Write(op, L, unscoped)) /\ Write(op, L, unscoped).rows \subseteq table
<1>1. CASE MissingWhere(L, rules)
  <2>1. Good(Failed(op, rules, "ErrMissingWhereClause"))
    BY <1>1, FailedGood DEF MissingWhere
  <2>2. Failed(op, rules, "ErrMissingWhereClause").rows = {}  BY DEF Failed
  <2> QED  BY <1>1, <2>1, <2>2 DEF Write
<1>2. CASE ~MissingWhere(L, rules)
  <2>1. Good(Statement(op, Rows, L, rules, unscoped))
    BY UnkeyedGood
  <2> QED  BY <1>2, <2>1, TouchesTable DEF Write
<1> QED  BY <1>1, <1>2

(* A HAVING or a JOIN narrows a good statement to another good one.        *)
LEMMA NarrowedGood ==
    ASSUME IInv, NEW op \in {"FindGrouped", "FindJoined"}, NEW L \in Seq(Condition),
           NEW unscoped \in BOOLEAN, NEW rows, NEW kept,
           rows = Statement(op, Rows, L, rules, unscoped).rows \cap kept
    PROVE  Good([Statement(op, Rows, L, rules, unscoped) EXCEPT !.rows = rows, !.kept = kept])
<1> DEFINE stmt == Statement(op, Rows, L, rules, unscoped)
           narrowed == [stmt EXCEPT !.rows = rows, !.kept = kept]
<1>1. Good(stmt) /\ Exact(stmt)  BY UnkeyedGood
<1>2. /\ narrowed.rows = rows /\ narrowed.kept = kept /\ narrowed.asked = stmt.asked
      /\ narrowed.leadingOr = stmt.leadingOr /\ narrowed.op = op /\ narrowed.ids = stmt.ids
      /\ narrowed.rules = stmt.rules /\ narrowed.hidden = stmt.hidden
      /\ narrowed.mixed = stmt.mixed /\ stmt.op = op /\ narrowed.err = stmt.err
  BY DEF Statement
<1>3. rows = stmt.rows \cap kept  OBVIOUS
<1> HIDE DEF stmt, narrowed
<1>4. Good(narrowed)
  BY <1>1, <1>2, <1>3 DEF Good, Exact, WithinRows, Restricted, Hides, Keyed, Narrowed
<1> QED  BY <1>4 DEF stmt, narrowed

LEMMA ReadsStep == ASSUME IInv, Reads PROVE IInv'
<1>1. ASSUME NEW conds \in Conditions, NEW scopes \in Scopes, NEW unscoped \in BOOLEAN,
             Find(conds, scopes, unscoped)
      PROVE  IInv'
  <2>1. conds \o scopes \in Seq(Condition)  BY ConditionLists
  <2>2. Good(Statement("Find", Rows, conds \o scopes, rules, unscoped))
    BY <2>1, UnkeyedGood
  <2> QED  BY <1>1, <2>2, ReadStep DEF Find, Read
<1>2. ASSUME NEW ids \in SUBSET Rows, GetByIds(ids) PROVE IInv'
  <2>1. <<And(ids)>> \in Seq(Condition) /\ 1 \in DOMAIN <<And(ids)>>
        /\ <<And(ids)>>[1].rows = ids
    BY ConditionLists DEF And
  <2>2. Good(Statement("GetByIds", ids, <<And(ids)>>, rules, FALSE))
    BY <2>1, KeyedGood
  <2> QED  BY <1>2, <2>2, ReadStep DEF GetByIds, Read
<1>3. ASSUME NEW conds \in Scopes, NEW havings \in BoundedSeq(Condition, MaxConds + 1),
             NEW unscoped \in BOOLEAN, FindGrouped(conds, havings, unscoped)
      PROVE  IInv'
  <2> DEFINE stmt == Statement("FindGrouped", Rows, conds, rules, unscoped)
             rows == stmt.rows \cap applyGroupHaving(havings)
  <2>0. havings \in Seq(Condition)
    <3>1. PICK m \in 0 .. MaxConds + 1 : havings \in [1..m -> Condition]
      BY DEF BoundedSeq, SeqOf
    <3> QED  BY <3>1, MaxCondsAssumption
  <2>1. Good([stmt EXCEPT !.rows = rows, !.kept = Required(havings)])
    BY <2>0, ConditionLists, HavingMeaning, NarrowedGood
  <2>2. last' = [stmt EXCEPT !.rows = rows, !.kept = Required(havings)]
        /\ UNCHANGED <<softDelete, rules, table, deleted>>
    BY <1>3 DEF FindGrouped, Read
  <2> HIDE DEF stmt, rows
  <2> QED  BY <2>1, <2>2, ReadStep
<1>4. ASSUME NEW conds \in Scopes, NEW inner \in BOOLEAN, NEW equal \in SUBSET Rows,
             NEW on \in Conditions, FindJoined(conds, inner, equal, on)
      PROVE  IInv'
  <2> DEFINE stmt == Statement("FindJoined", Rows, conds, rules, FALSE)
             rows == IF inner THEN stmt.rows \cap applyJoins(equal, on) ELSE stmt.rows
             kept == IF inner THEN {r \in equal : on = <<>> \/ r \in Sat(on)} ELSE Rows
  <2>1. rows = stmt.rows \cap kept
    <3>1. inner => applyJoins(equal, on) = kept  BY ConditionLists, JoinMeaning
    <3>2. stmt.rows \subseteq Rows  BY TouchesTable DEF IInv, TypeOK
    <3> QED  BY <3>1, <3>2
  <2>3. Good([stmt EXCEPT !.rows = rows, !.kept = kept])
    BY <2>1, ConditionLists, NarrowedGood
  <2>2. last' = [stmt EXCEPT !.rows = rows, !.kept = kept]
        /\ UNCHANGED <<softDelete, rules, table, deleted>>
    BY <1>4 DEF FindJoined, Read
  <2> HIDE DEF stmt, rows, kept
  <2> QED  BY <2>2, <2>3, ReadStep
<1> QED  BY <1>1, <1>2, <1>3, <1>4 DEF Reads

LEMMA DeletesStep == ASSUME IInv, Deletes PROVE IInv'
<1>1. ASSUME NEW conds \in Conditions, NEW scopes \in Scopes, NEW unscoped \in BOOLEAN,
             DeleteByCond(conds, scopes, unscoped)
      PROVE  IInv'
  <2>1. conds \o scopes \in Seq(Condition)  BY ConditionLists
  <2> QED  BY <1>1, <2>1, WriteGood, DeleteStep DEF DeleteByCond
<1>2. ASSUME NEW ids \in SUBSET Rows, DeleteByIds(ids) PROVE IInv'
  <2>1. <<And(ids)>> \in Seq(Condition) /\ 1 \in DOMAIN <<And(ids)>>
        /\ <<And(ids)>>[1].rows = ids
    BY ConditionLists DEF And
  <2>2. Good(Statement("DeleteByIds", ids, <<And(ids)>>, rules, FALSE))
    BY <2>1, KeyedGood
  <2> QED  BY <1>2, <2>2, TouchesTable, DeleteStep DEF DeleteByIds
<1> QED  BY <1>1, <1>2 DEF Deletes

LEMMA UpdatesStep == ASSUME IInv, Updates PROVE IInv'
<1>0. deleted \subseteq Rows  BY DEF IInv, TypeOK
<1>1. ASSUME NEW conds \in Conditions, NEW scopes \in Scopes, UpdateByCond(conds, scopes)
      PROVE  IInv'
  <2>1. conds \o scopes \in Seq(Condition)  BY ConditionLists
  <2>2. Good(Write("UpdateByCond", conds \o scopes, FALSE))
    BY <2>1, WriteGood
  <2> QED  BY <1>1, <2>2, ReadStep DEF UpdateByCond, Read
<1>2. ASSUME NEW ids \in SUBSET Rows, NEW conds \in Conditions, UpdateByIds(ids, conds)
      PROVE  IInv'
  <2> DEFINE L == <<And(ids)>> \o conds
  <2>1. L \in Seq(Condition) /\ 1 \in DOMAIN L /\ L[1] = And(ids)
    BY ConditionLists
  <2> HIDE DEF L
  <2>2. L[1].rows \subseteq ids  BY <2>1 DEF And
  <2>3. Good(Statement("UpdateByIds", ids, L, rules, FALSE))
    BY <2>1, <2>2, KeyedGood
  <2> QED  BY <1>2, <2>3, ReadStep DEF UpdateByIds, Read, L
<1>3. ASSUME NEW id \in Rows, Restore(id) PROVE IInv'
  <2> DEFINE L == <<And({id}), And(deleted)>>
  <2>1. L \in Seq(Condition) /\ 1 \in DOMAIN L /\ L[1] = And({id})
    BY <1>0, ConditionLists
  <2> HIDE DEF L
  <2>2. L[1].rows \subseteq {id}  BY <2>1 DEF And
  <2>3. Good(Statement("Restore", {id}, L, rules, TRUE))
    BY <2>1, <2>2, KeyedGood
  <2> QED  BY <1>3, <2>3, TouchesTable, UndeleteStep DEF Restore, L
<1>4. ASSUME NEW conds \in Conditions, RestoreByCond(conds) PROVE IInv'
  <2> DEFINE L == <<And(deleted)>> \o conds
  <2>1. L \in Seq(Condition) /\ 1 \in DOMAIN L /\ L[1] = And(deleted)
    BY <1>0, ConditionLists
  <2> HIDE DEF L
  <2>2. L[1].rows \subseteq deleted  BY <2>1 DEF And
  <2>3. Good(Statement("RestoreByCond", deleted, L, rules, TRUE))
    BY <1>0, <2>1, <2>2, KeyedGood
  <2> QED  BY <1>4, <2>3, TouchesTable, UndeleteStep DEF RestoreByCond, L
<1>5. ASSUME NEW conds \in Conditions, NEW updConds \in Conditions,
             NEW updRules \in {{}, rules}, NEW moves \in BOOLEAN,
             FirstOrUpdate(conds, updConds, updRules, moves)
      PROVE  IInv'
  BY <1>5, ConditionLists, FirstOrUpdateGood, ReadStep
<1> QED  BY <1>1, <1>2, <1>3, <1>4, <1>5 DEF Updates

-----------------------------------------------------------------------------
(* The inductive invariant holds of every behaviour.                       *)
THEOREM Inductive == Spec => []IInv
<1>1. Init => IInv
  <2> SUFFICES ASSUME Init PROVE IInv  OBVIOUS
  <2>1. Good(last)  BY FailedGood DEF Init
  <2>2. TypeOK /\ (~softDelete => deleted = {})
    BY DEF Init, TypeOK, Failed
  <2> QED  BY <2>1, <2>2 DEF IInv
<1>2. IInv /\ [Next]_vars => IInv'
  <2> SUFFICES ASSUME IInv, [Next]_vars PROVE IInv'  OBVIOUS
  <2>1. CASE Result
    <3>1. Good(Nothing)  BY FailedGood DEF Nothing
    <3> QED  BY <2>1, <3>1, ReadStep DEF Result, Read
  <2>2. CASE UNCHANGED vars
    <3>1. Good(last')  BY <2>2 DEF vars, IInv
    <3> QED  BY <2>2, <3>1, ReadStep DEF vars
  <2> QED  BY <2>1, <2>2, ReadsStep, DeletesStep, UpdatesStep DEF Next
<1> QED  BY <1>1, <1>2, PTL DEF Spec

(* Type correctness; the deleted rows of a table are rows it has, and an   *)
(* operation that fails has touched nothing.                               *)
THEOREM Typed == Spec => []TypeOK
<1>1. IInv => TypeOK  BY DEF IInv
<1> QED  BY <1>1, Inductive, PTL

(* No statement touches a row that a rule hides.                           *)
THEOREM RulesAlwaysHold == Spec => []RulesHold
<1>1. IInv => RulesHold  BY DEF IInv, Good, RulesHold
<1> QED  BY <1>1, Inductive, PTL

(* Rules take rows away and change nothing else.                           *)
THEOREM OnlyRestricted == Spec => []RulesOnlyRestrict
<1>1. IInv => RulesOnlyRestrict  BY DEF IInv, Good, Restricted, RulesOnlyRestrict
<1> QED  BY <1>1, Inductive, PTL

(* Soft-deleted rows are out of reach unless they are asked for.           *)
THEOREM DeletedHidden == Spec => []DeletedStayHidden
<1>1. IInv => DeletedStayHidden  BY DEF IInv, Good, Hides, DeletedStayHidden
<1> QED  BY <1>1, Inductive, PTL

(* Operations on keys stay within their keys unless an OR is added.        *)
THEOREM KeysHold == Spec => []KeysBound
<1>1. IInv => KeysBound  BY DEF IInv, Good, Keyed, KeysBound
<1> QED  BY <1>1, Inductive, PTL

(* HAVING and JOIN conditions keep exactly the rows their chains require   *)
(* of what WHERE, the rules and the soft-delete filter have left.          *)
THEOREM FiltersOnlyNarrow == Spec => []FiltersNarrow
<1>1. IInv => FiltersNarrow  BY DEF IInv, Good, Narrowed, FiltersNarrow
<1> QED  BY <1>1, Inductive, PTL
=============================================================================
