-------------------------- MODULE AliasChainProofs --------------------------
(***************************************************************************)
(* For any number of queries, models, names and calls, also when aliases   *)
(* are called like tables: a field of an instance never means a column of  *)
(* another one, and revoked names belong to nobody else, both up to the    *)
(* exceptions the properties name.                                         *)
(*                                                                         *)
(* The chain of a query is defined by recursion over its outer queries.    *)
(* Its lemmas speak of any function that satisfies the equation of Chain,  *)
(* so that they hold before and after a step.  The invariant says when two *)
(* queries of a chain can have registered the same name (Unique), and that *)
(* recorded references and joined instances stay known to the query that   *)
(* gave them their name (Recorded, JoinedKnown).  Of a table's name that   *)
(* the alias's own model has, Unique says nothing: what Calls and Mixed    *)
(* say of it takes its place.                                              *)
(***************************************************************************)
EXTENDS AliasChain, WellFoundedInduction, TLAPS

Entries == {NoEntry} \cup [model : Models, revoked : BOOLEAN]
References == [inst : Instance, name : AllNames \cup {Bare}, via : {"cache", "chain"}]

Typing ==
    /\ TypeOK
    /\ entries \in [Queries -> [AllNames -> Entries]]
    /\ refs \in [Queries -> SUBSET References]

(* Queries are made in order, below queries that exist.                    *)
Order ==
    /\ \A q \in Queries, r \in Queries : r < q /\ q \in Created => r \in Created
    /\ \A q \in Queries :
          outer[q] # NoQuery => q \in Created /\ outer[q] \in Created /\ outer[q] < q

(* What does not exist yet has nothing.                                    *)
Blank ==
    \A q \in Queries \ Created :
        /\ \A n \in AllNames : entries[q][n] = NoEntry
        /\ joined[q] = {} /\ refs[q] = {} /\ mainAlias[q] = NoName

(* The name of an instance was registered for its model.                   *)
Has(q, n, X) == entries[q][n] # NoEntry /\ entries[q][n].model = X
Known(i) == Has(i.owner, i.name, i.model)

MainKnown == \A q \in Queries : mainAlias[q] # NoName => Has(q, mainAlias[q], model[q])

(* A name other than its own table's is in one chain twice only after an   *)
(* error or a clash.                                                       *)
Unique ==
    \A q \in Queries, n \in AllNames : \A p \in Chain[q] \ {q}, X \in Models \ {n} :
        Has(q, n, X) /\ entries[p][n] # NoEntry => failed[q] \/ n \in clashes

(* What is recorded in q: a field of an alias goes by the alias, while the *)
(* chain of q is whole; a canonical field by the table of a query of the   *)
(* chain, or, found in the cache, by the table of q or no name at all.     *)
InOrder(q, r) ==
    /\ r.inst.owner # Registry =>
          /\ r.via = "chain" /\ r.name = r.inst.name /\ Known(r.inst)
          /\ q \notin stale => r.inst.owner \in Chain[q]
    /\ r.inst.owner = Registry => r.inst = Canonical(r.inst.model)
    /\ r.inst.owner = Registry /\ r.via = "chain" =>
          /\ r.name = r.inst.model
          /\ q \notin stale => \E p \in Chain[q] : model[p] = r.inst.model
    /\ r.via = "cache" => /\ r.name \in {model[q], Bare}
                          /\ r.name = Bare => mainAlias[q] = NoName
Recorded == \A q \in Queries : \A r \in refs[q] : InOrder(q, r)

JoinInOrder(q, a) ==
    a.owner # Registry /\ Known(a) /\ (q \notin stale => a.owner \in Chain[q])
JoinedKnown == \A q \in Queries : \A a \in joined[q] : JoinInOrder(q, a)

IInv == /\ Typing /\ Order /\ Blank /\ MainKnown
        /\ Unique /\ Recorded /\ JoinedKnown

-----------------------------------------------------------------------------
(* Chains.                                                                 *)

Outers == [Queries -> Queries \cup {NoQuery}]
Follows(C, out) ==
    C = [q \in Queries |-> {q} \cup (IF out[q] = NoQuery THEN {} ELSE C[out[q]])]
Downward(out) == \A q \in Queries : out[q] # NoQuery => out[q] \in Queries /\ out[q] < q

LEMMA LeastQuery ==
    ASSUME NEW B \in SUBSET Queries, B # {}
    PROVE  \E q \in B : \A r \in B : ~(r < q)
<1>1. B \subseteq Nat  BY NullsAssumption
<1>2. \E x \in B : \A y \in B : ~ (<<y, x>> \in OpToRel(<, Nat))
  BY <1>1, WFMin, NatLessThanWellFounded
<1>3. \A x, y \in Nat : <<y, x>> \in OpToRel(<, Nat) <=> y < x
  BY DEF OpToRel
<1> QED  BY <1>1, <1>2, <1>3, Zenon

(* The queries at the end of a path of outer queries satisfy the equation. *)
Path(out, q, p, n, s) ==
    /\ s \in [0..n -> Queries] /\ s[0] = q /\ s[n] = p
    /\ \A i \in 0 .. n - 1 : out[s[i]] = s[i + 1]
Ends(out, q) == {p \in Queries : \E n \in Nat : \E s \in [0..n -> Queries] : Path(out, q, p, n, s)}

LEMMA EndsFollow ==
    ASSUME NEW out \in Outers, NEW q \in Queries
    PROVE  Ends(out, q) = {q} \cup (IF out[q] = NoQuery THEN {} ELSE Ends(out, out[q]))
<1>1. q \in Ends(out, q)
  <2> DEFINE s == [i \in 0..0 |-> q]
  <2>1. s \in [0..0 -> Queries] /\ Path(out, q, q, 0, s)  BY DEF Path
  <2> QED  BY <2>1 DEF Ends
<1>2. ASSUME out[q] # NoQuery, NEW p \in Ends(out, out[q]) PROVE p \in Ends(out, q)
  <2> PICK o : o = out[q]  OBVIOUS
  <2>0. p \in Ends(out, o)  BY <1>2
  <2>9. PICK n \in Nat : \E t \in [0..n -> Queries] : Path(out, o, p, n, t)
    BY <2>0, Zenon DEF Ends
  <2>1. PICK t \in [0..n -> Queries] : Path(out, o, p, n, t)
    BY <2>9, Zenon
  <2> DEFINE s == [i \in 0 .. n + 1 |-> IF i = 0 THEN q ELSE t[i - 1]]
  <2>2. s \in [0 .. n + 1 -> Queries] /\ s[0] = q /\ s[n + 1] = p
    BY <2>1 DEF Path
  <2>3. ASSUME NEW i \in 0..n PROVE out[s[i]] = s[i + 1]
    <3>1. CASE i = 0  BY <2>1, <3>1 DEF Path
    <3>2. CASE i # 0
      <4>1. i - 1 \in 0 .. n - 1 /\ (i - 1) + 1 = i /\ i + 1 \in 0 .. n + 1 /\ i + 1 # 0
        BY <3>2
      <4>2. out[t[i - 1]] = t[i]  BY <2>1, <4>1 DEF Path
      <4>3. s[i] = t[i - 1] /\ s[i + 1] = t[i]  BY <3>2, <4>1
      <4> QED  BY <4>2, <4>3
    <3> QED  BY <3>1, <3>2
  <2>4. n + 1 \in Nat /\ (n + 1) - 1 = n /\ p \in Queries  BY <1>2 DEF Ends
  <2> HIDE DEF s
  <2>5. Path(out, q, p, n + 1, s)  BY <2>2, <2>3, <2>4 DEF Path
  <2> QED  BY <2>2, <2>4, <2>5 DEF Ends
<1>3. ASSUME NEW p \in Ends(out, q), p # q PROVE out[q] # NoQuery /\ p \in Ends(out, out[q])
  <2>9. PICK n \in Nat : \E s \in [0..n -> Queries] : Path(out, q, p, n, s)
    BY <1>3, Zenon DEF Ends
  <2>1. PICK s \in [0..n -> Queries] : Path(out, q, p, n, s)
    BY <2>9, Zenon
  <2>2. n # 0  BY <1>3, <2>1 DEF Path
  <2>3. n - 1 \in Nat /\ 0 \in 0 .. n - 1 /\ 0 + 1 = 1 /\ 1 \in 0..n  BY <2>2
  <2>4. out[q] = s[1] /\ s[1] \in Queries  BY <2>1, <2>3 DEF Path
  <2> DEFINE t == [i \in 0 .. n - 1 |-> s[i + 1]]
  <2>5. t \in [0 .. n - 1 -> Queries] /\ t[0] = out[q] /\ t[n - 1] = p
    <3>1. (n - 1) + 1 = n /\ n - 1 \in 0 .. n - 1 /\ \A i \in 0 .. n - 1 : i + 1 \in 0..n
      BY <2>2
    <3> QED  BY <2>1, <2>3, <2>4, <3>1 DEF Path
  <2>6. ASSUME NEW i \in 0 .. (n - 1) - 1 PROVE out[t[i]] = t[i + 1]
    <3>1. i \in 0 .. n - 1 /\ i + 1 \in 0 .. n - 1  OBVIOUS
    <3> QED  BY <2>1, <3>1 DEF Path
  <2> HIDE DEF t
  <2>7. Path(out, out[q], p, n - 1, t)  BY <2>5, <2>6 DEF Path
  <2> QED  BY <1>3, <2>3, <2>4, <2>5, <2>7, NullsAssumption DEF Ends
<1> QED  BY <1>1, <1>2, <1>3

LEMMA ChainExists == ASSUME NEW out \in Outers PROVE \E C : Follows(C, out)
<1> DEFINE C == [q \in Queries |-> Ends(out, q)]
<1>1. \A q \in Queries : C[q] = {q} \cup (IF out[q] = NoQuery THEN {} ELSE C[out[q]])
  BY EndsFollow DEF Outers
<1>2. C = [q \in Queries |-> C[q]]  OBVIOUS
<1> HIDE DEF C
<1>3. Follows(C, out)  BY <1>1, <1>2 DEF Follows
<1> QED  BY <1>3

LEMMA ChainFollows == outer \in Outers => Follows(Chain, outer)
BY ChainExists, Zenon DEF Chain, Follows

LEMMA ChainFollowsNext == outer' \in Outers => Follows(Chain', outer')
BY ChainExists, Zenon DEF Chain, Follows

LEMMA Unfold ==
    ASSUME NEW out, NEW C, Follows(C, out), NEW q \in Queries
    PROVE  C[q] = {q} \cup (IF out[q] = NoQuery THEN {} ELSE C[out[q]])
<1>1. C = [x \in Queries |-> {x} \cup (IF out[x] = NoQuery THEN {} ELSE C[out[x]])]
  BY DEF Follows
<1> QED  BY <1>1, Zenon

(* A chain consists of queries not younger than the one it starts from,    *)
(* and goes on with the chains of all of them.                             *)
LEMMA ChainMembers ==
    ASSUME NEW out, NEW C, Follows(C, out), Downward(out), NEW q \in Queries
    PROVE  /\ q \in C[q] /\ C[q] \subseteq Queries
           /\ \A p \in C[q] : p <= q /\ C[p] \subseteq C[q]
<1> DEFINE Good(x) == /\ x \in C[x] /\ C[x] \subseteq Queries
                      /\ \A p \in C[x] : p <= x /\ C[p] \subseteq C[x]
           B == {x \in Queries : ~Good(x)}
<1>1. ASSUME B # {} PROVE FALSE
  <2>1. PICK x \in B : \A y \in B : ~(y < x)  BY <1>1, LeastQuery
  <2>2. C[x] = {x} \cup (IF out[x] = NoQuery THEN {} ELSE C[out[x]])  BY Unfold
  <2>3. x \in Queries /\ x <= x  BY NullsAssumption
  <2>4. CASE out[x] = NoQuery
    <3>1. C[x] = {x}  BY <2>2, <2>4
    <3> QED  BY <2>3, <3>1
  <2>5. CASE out[x] # NoQuery
    <3> PICK o : o = out[x]  OBVIOUS
    <3>1. o \in Queries /\ o < x  BY <2>3, <2>5 DEF Downward
    <3>2. Good(o)  BY <2>1, <3>1
    <3>3. C[x] = {x} \cup C[o]  BY <2>2, <2>5
    <3>4. ASSUME NEW p \in C[o] PROVE p <= x
      <4>1. p <= o /\ p \in Nat /\ o \in Nat /\ x \in Nat
        BY <2>3, <3>1, <3>2, NullsAssumption
      <4> QED  BY <3>1, <4>1
    <3> QED  BY <2>3, <3>2, <3>3, <3>4
  <2> QED  BY <2>4, <2>5
<1> QED  BY <1>1

(* Two queries of one chain: one is in the chain of the other.             *)
LEMMA ChainLinear ==
    ASSUME NEW out, NEW C, Follows(C, out), Downward(out), NEW q \in Queries,
           NEW S \in SUBSET C[q], S # {}
    PROVE  \E p \in S : S \subseteq C[p]
<1> DEFINE B == {x \in Queries : S \subseteq C[x]}
<1>1. q \in B  OBVIOUS
<1>2. PICK x \in B : \A y \in B : ~(y < x)  BY <1>1, LeastQuery
<1>3. x \in Queries /\ S \subseteq C[x]  OBVIOUS
<1>4. x \in S
  <2> SUFFICES ASSUME x \notin S PROVE FALSE  OBVIOUS
  <2>1. C[x] = {x} \cup (IF out[x] = NoQuery THEN {} ELSE C[out[x]])  BY <1>3, Unfold
  <2>2. out[x] # NoQuery /\ S \subseteq C[out[x]]  BY <1>3, <2>1
  <2>3. out[x] \in Queries /\ out[x] < x  BY <1>3, <2>2 DEF Downward
  <2> QED  BY <1>2, <2>2, <2>3
<1> QED  BY <1>3, <1>4

(* A change of outer queries elsewhere does not change a chain; cutting    *)
(* links only shortens chains.                                             *)
LEMMA ChainSame ==
    ASSUME NEW out, NEW C, Follows(C, out), Downward(out),
           NEW new, NEW D, Follows(D, new),
           NEW q \in Queries, \A p \in C[q] : new[p] = out[p]
    PROVE  D[q] = C[q]
<1> DEFINE B == {x \in C[q] : D[x] # C[x]}
<1>1. q \in C[q] /\ C[q] \subseteq Queries  BY ChainMembers
<1>2. ASSUME B # {} PROVE FALSE
  <2>1. B \in SUBSET Queries  BY <1>1
  <2>2. PICK x \in B : \A y \in B : ~(y < x)  BY <1>2, <2>1, LeastQuery
  <2>3. x \in Queries /\ x \in C[q] /\ new[x] = out[x]  BY <1>1
  <2>4. /\ C[x] = {x} \cup (IF out[x] = NoQuery THEN {} ELSE C[out[x]])
        /\ D[x] = {x} \cup (IF out[x] = NoQuery THEN {} ELSE D[out[x]])
    BY <2>3, Unfold
  <2>5. CASE out[x] = NoQuery  BY <2>4, <2>5
  <2>6. CASE out[x] # NoQuery
    <3> PICK o : o = out[x]  OBVIOUS
    <3>1. o \in Queries /\ o < x  BY <2>3, <2>6 DEF Downward
    <3>2. o \in C[o] /\ C[o] \subseteq C[x]  BY <2>4, <2>6, <3>1, ChainMembers
    <3>3. C[x] \subseteq C[q]  BY <2>3, ChainMembers
    <3>4. D[o] = C[o]  BY <2>2, <3>1, <3>2, <3>3
    <3> QED  BY <2>4, <3>4
  <2> QED  BY <2>5, <2>6
<1> QED  BY <1>1, <1>2

LEMMA ChainShrinks ==
    ASSUME NEW out, NEW C, Follows(C, out), Downward(out),
           NEW new, NEW D, Follows(D, new),
           NEW q \in Queries, \A p \in Queries : new[p] \in {out[p], NoQuery}
    PROVE  D[q] \subseteq C[q]
<1> DEFINE B == {x \in Queries : ~(D[x] \subseteq C[x])}
<1>1. ASSUME B # {} PROVE FALSE
  <2>1. PICK x \in B : \A y \in B : ~(y < x)  BY <1>1, LeastQuery
  <2>2. x \in Queries  OBVIOUS
  <2>3. /\ C[x] = {x} \cup (IF out[x] = NoQuery THEN {} ELSE C[out[x]])
        /\ D[x] = {x} \cup (IF new[x] = NoQuery THEN {} ELSE D[new[x]])
    BY <2>2, Unfold
  <2>4. CASE new[x] = NoQuery  BY <2>3, <2>4
  <2>5. CASE new[x] # NoQuery
    <3>1. new[x] = out[x] /\ out[x] \in Queries /\ out[x] < x
      BY <2>2, <2>5 DEF Downward
    <3>2. D[out[x]] \subseteq C[out[x]]  BY <2>1, <3>1
    <3> QED  BY <2>3, <2>5, <3>1, <3>2
  <2> QED  BY <2>4, <2>5
<1> QED  BY <1>1

LEMMA ChainNow ==
    ASSUME Typing, Order
    PROVE  Follows(Chain, outer) /\ Downward(outer) /\ outer \in Outers
<1>1. outer \in Outers  BY DEF Typing, TypeOK, Outers
<1>2. Downward(outer)  BY DEF Order, Downward, Created
<1> QED  BY <1>1, <1>2, ChainFollows

(* A step that changes no outer query changes no chain.                    *)
LEMMA ChainStays ==
    ASSUME Typing, Order, outer' = outer
    PROVE  Chain' = Chain
<1>1. Follows(Chain, outer) /\ Downward(outer) /\ outer \in Outers  BY ChainNow
<1>2. Follows(Chain', outer)  BY <1>1, ChainFollowsNext
<1>3. \A q \in Queries : Chain'[q] = Chain[q]  BY <1>1, <1>2, ChainSame
<1>4. /\ Chain = [q \in Queries |-> Chain[q]]
      /\ Chain' = [q \in Queries |-> Chain'[q]]
  BY <1>1, <1>2, Zenon DEF Follows
<1> QED  BY <1>3, <1>4, Zenon

LEMMA ChainFacts ==
    ASSUME Typing, Order, NEW q \in Queries
    PROVE  /\ q \in Chain[q] /\ Chain[q] \subseteq Queries
           /\ \A p \in Chain[q] : Chain[p] \subseteq Chain[q]
           /\ q \in Created => Chain[q] \subseteq Created
           /\ outer[q] = NoQuery => Chain[q] = {q}
           /\ outer[q] # NoQuery => Chain[q] = {q} \cup Chain[outer[q]]
<1>1. Follows(Chain, outer) /\ Downward(outer)  BY ChainNow
<1>2. /\ q \in Chain[q] /\ Chain[q] \subseteq Queries
      /\ \A p \in Chain[q] : p <= q /\ Chain[p] \subseteq Chain[q]
  BY <1>1, ChainMembers
<1>3. Chain[q] = {q} \cup (IF outer[q] = NoQuery THEN {} ELSE Chain[outer[q]])
  BY <1>1, Unfold
<1>4. ASSUME q \in Created, NEW p \in Chain[q] PROVE p \in Created
  <2>1. p \in Queries /\ p <= q /\ p \in Nat /\ q \in Nat  BY <1>2, NullsAssumption
  <2>2. p = q \/ p < q  BY <2>1
  <2> QED  BY <1>4, <2>1, <2>2 DEF Order
<1> QED  BY <1>2, <1>3, <1>4

(* Of two queries of one chain one is below the other.                     *)
LEMMA Comparable ==
    ASSUME Typing, Order, NEW q \in Queries, NEW o \in Chain[q], NEW w \in Chain[q]
    PROVE  o \in Chain[w] \/ w \in Chain[o]
<1>1. Follows(Chain, outer) /\ Downward(outer)  BY ChainNow
<1>2. PICK S : S = {o, w}  OBVIOUS
<1>3. S \in SUBSET Chain[q] /\ S # {}  BY <1>2
<1>4. \E p \in S : S \subseteq Chain[p]  BY <1>1, <1>3, ChainLinear
<1> QED  BY <1>2, <1>4

LEMMA NearestMember ==
    ASSUME Typing, Order, NEW q \in Queries, NEW S \in SUBSET Chain[q], S # {}
    PROVE  Nearest(S) \in S
<1>1. Follows(Chain, outer) /\ Downward(outer)  BY ChainNow
<1>2. \E p \in S : S \subseteq Chain[p]  BY <1>1, ChainLinear
<1> QED  BY <1>2 DEF Nearest

-----------------------------------------------------------------------------
(* What the steps do, each kind once.                                      *)

Named(q, n, X) ==
    /\ entries' = [entries EXCEPT ![q][n] = [model |-> X, revoked |-> FALSE]]
    /\ clashes' = IF TakenBelow(q, n) THEN clashes \cup {n} ELSE clashes

(* Constructors, without an alias and with one.                            *)
Made(q, X, p) ==
    /\ q \notin Created /\ X \in Models /\ p \in Created \cup {NoQuery}
    /\ \A r \in Queries : r < q => r \in Created
    /\ model' = [model EXCEPT ![q] = X]
    /\ outer' = [outer EXCEPT ![q] = p]
    /\ failed' = failed \/ Fail(q)
    /\ UNCHANGED <<joined, refs, stale, clears>>
MadePlain(q) ==
    UNCHANGED <<entries, mainAlias, clashes>> /\ outer'[q] = NoQuery
MadeNamed(q, X, p, n) ==
    /\ Named(q, n, X)
    /\ \/ n \in Names /\ mainAlias' = [mainAlias EXCEPT ![q] = n]
       \/ n = X /\ mainAlias' = mainAlias
    /\ p # NoQuery /\ n # X /\ TakenAbove(p, n) => Fail(q)

Added(q, X, n) ==
    /\ X \in Models /\ n \in Names /\ ~TakenAbove(q, n)
    /\ Named(q, n, X)
    /\ UNCHANGED <<model, outer, mainAlias, joined, refs, failed, stale, clears>>

Failing(q) ==
    /\ Fail(q)
    /\ UNCHANGED <<model, outer, entries, mainAlias, joined, refs, clashes, stale, clears>>

NewReference(q, r) ==
    /\ r \in References
    /\ r.inst.owner # Registry =>
          r.via = "chain" /\ r.name = r.inst.name /\ InChain(q, r.inst)
    /\ r.inst.owner = Registry => r.inst = Canonical(r.inst.model)
    /\ r.inst.owner = Registry /\ r.via = "chain" =>
          r.name = r.inst.model /\ \E p \in Chain[q] : model[p] = r.inst.model
    /\ r.via = "cache" => /\ r.name \in {model[q], Bare}
                          /\ r.name = Bare => Registered(q) = {}
NewJoin(q, a) == a \in Instance /\ a.owner # Registry /\ InChain(q, a)

Called(q, new, add) ==
    /\ q \in Created
    /\ \A r \in new : NewReference(q, r)
    /\ \A a \in add : NewJoin(q, a)
    /\ refs' = [refs EXCEPT ![q] = @ \cup new]
    /\ joined' = [joined EXCEPT ![q] = @ \cup add]
    /\ UNCHANGED <<model, outer, entries, mainAlias, failed, clashes, stale, clears>>

LEMMA InstancesTyped ==
    ASSUME Typing
    PROVE  /\ Instances \subseteq Instance
           /\ \A i \in Instances : i.owner = Registry => i = Canonical(i.model)
<1>1. \A X \in Models : Canonical(X) \in Instance
  BY DEF Canonical, Instance, AllNames, Tables
<1>2. ASSUME NEW q \in Created, NEW n \in Registered(q)
      PROVE  [owner |-> q, name |-> n, model |-> entries[q][n].model] \in Instance
  <2>1. q \in Queries /\ n \in AllNames /\ entries[q][n] # NoEntry
    BY DEF Created, Registered
  <2>2. entries[q][n] \in [model : Models, revoked : BOOLEAN]
    BY <2>1 DEF Typing, Entries
  <2> QED  BY <2>1, <2>2 DEF Instance
<1>3. ASSUME NEW i \in Instances, i.owner = Registry PROVE i = Canonical(i.model)
  <2>1. ASSUME NEW q \in Created, NEW n \in Registered(q),
               i = [owner |-> q, name |-> n, model |-> entries[q][n].model]
        PROVE  FALSE
    BY <1>3, <2>1, NullsAssumption DEF Created
  <2>2. PICK X \in Models : i = Canonical(X)  BY <1>3, <2>1 DEF Instances
  <2> QED  BY <2>2 DEF Canonical
<1> QED  BY <1>1, <1>2, <1>3 DEF Instances

LEMMA NamesDiffer ==
    /\ Unresolved \notin AllNames /\ Bare \notin AllNames /\ NoName \notin AllNames
    /\ \A X \in Models : X \in AllNames /\ X # Unresolved
BY NamesAssumption DEF AllNames, Tables

(* A pointer that resolves gives a reference of the kind the invariant     *)
(* speaks of.                                                              *)
LEMMA LooseReference ==
    ASSUME Typing, NEW q \in Created, NEW ids, ids \subseteq Instances,
           NEW r \in Loose(q, ids), r.name # Unresolved
    PROVE  NewReference(q, r)
<1>1. PICK i \in ids : r = Reference(i, LooseName(q, i),
                                     IF i.owner = Registry THEN "cache" ELSE "chain")
  BY DEF Loose
<1>2. /\ i \in Instance /\ i.name \in AllNames
      /\ i.owner = Registry => i = Canonical(i.model)
  BY InstancesTyped DEF Instance
<1>3. model[q] \in Models /\ model[q] \in AllNames
  BY NamesDiffer DEF Typing, TypeOK, Created
<1>4. /\ r.inst = i /\ r.name = LooseName(q, i)
      /\ r.via = IF i.owner = Registry THEN "cache" ELSE "chain"
  BY <1>1 DEF Reference
<1>5. LooseName(q, i) \in AllNames \cup {Bare}
      /\ (i.owner # Registry => InChain(q, i) /\ LooseName(q, i) = i.name)
      /\ (i.owner = Registry => /\ LooseName(q, i) \in {model[q], Bare}
                                /\ LooseName(q, i) = Bare => Registered(q) = {})
  BY <1>2, <1>3, <1>4, NamesDiffer DEF LooseName
<1>6. r \in References
  BY <1>1, <1>2, <1>5 DEF References, Reference
<1> QED  BY <1>2, <1>4, <1>5, <1>6 DEF NewReference

LEMMA StrictReference ==
    ASSUME Typing, NEW q \in Created, NEW ids, ids \subseteq Instances, NEW grouped,
           NEW r \in Strict(q, ids, grouped), r.name # Unresolved
    PROVE  NewReference(q, r)
<1>1. PICK i \in ids : r = Reference(i, StrictName(q, i, grouped), "chain")
  BY DEF Strict
<1>2. /\ i \in Instance /\ i.name \in AllNames /\ i.model \in Models
      /\ i.owner = Registry => i = Canonical(i.model)
  BY InstancesTyped DEF Instance
<1>4. r.inst = i /\ r.name = StrictName(q, i, grouped) /\ r.via = "chain"
  BY <1>1 DEF Reference
<1>5. /\ i.owner # Registry => InChain(q, i) /\ r.name = i.name
      /\ i.owner = Registry => r.name = i.model /\ \E p \in Chain[q] : model[p] = i.model
  BY <1>4 DEF StrictName
<1>6. r.name \in AllNames  BY <1>2, <1>5, NamesDiffer
<1>7. r \in References
  BY <1>1, <1>2, <1>4, <1>6 DEF References, Reference
<1> QED  BY <1>2, <1>4, <1>5, <1>7 DEF NewReference

LEMMA CallEffects ==
    ASSUME Typing, NEW q \in Queries, NEW i \in Instances,
           \/ Condition(q, i) \/ \E grouped \in BOOLEAN : EqColumn(q, i, grouped)
           \/ JoinAs(q, i) \/ JoinAsOn(q, i)
    PROVE  \E new, add : Called(q, new, add)
<1>0. joined \in [Queries -> SUBSET Instance]  BY DEF Typing, TypeOK
<1>1. {} \subseteq Instance /\ joined = [joined EXCEPT ![q] = @ \cup {}]
  BY <1>0
<1>2. ASSUME Condition(q, i) PROVE \E new, add : Called(q, new, add)
  <2> PICK new : new = Loose(q, {i})  OBVIOUS
  <2>1. Record(q, new) /\ joined' = joined  BY <1>2 DEF Condition
  <2>2. q \in Created /\ \A r \in new : NewReference(q, r)
    BY <2>1, LooseReference DEF Record
  <2>3. Called(q, new, {})  BY <1>1, <2>1, <2>2 DEF Called, Record
  <2> QED  BY <2>3
<1>3. ASSUME NEW grouped \in BOOLEAN, EqColumn(q, i, grouped)
      PROVE  \E new, add : Called(q, new, add)
  <2> PICK new : new = Strict(q, {i}, grouped)  OBVIOUS
  <2>1. Record(q, new) /\ joined' = joined  BY <1>3 DEF EqColumn
  <2>2. q \in Created /\ \A r \in new : NewReference(q, r)
    BY <2>1, StrictReference DEF Record
  <2>3. Called(q, new, {})  BY <1>1, <2>1, <2>2 DEF Called, Record
  <2> QED  BY <2>3
<1>4. ASSUME JoinAs(q, i) PROVE \E new, add : Called(q, new, add)
  <2>1. PICK ids \in {{}} \cup {{c} : c \in Instances} : Record(q, Loose(q, ids))
    BY <1>4 DEF JoinAs
  <2> PICK new : new = Loose(q, ids)  OBVIOUS
  <2>2. ids \subseteq Instances /\ Record(q, new)  BY <2>1
  <2>3. q \in Created /\ \A r \in new : NewReference(q, r)
    BY <2>2, LooseReference DEF Record
  <2>4. Join(q, i) /\ NewJoin(q, i)
    BY <1>4, InstancesTyped DEF JoinAs, Join, NewJoin
  <2>5. Called(q, new, {i})  BY <2>2, <2>3, <2>4 DEF Called, Record, Join
  <2> QED  BY <2>5
<1>5. ASSUME JoinAsOn(q, i) PROVE \E new, add : Called(q, new, add)
  <2>1. PICK c \in Instances : Record(q, Strict(q, {c}, FALSE))
    BY <1>5 DEF JoinAsOn
  <2> PICK new : new = Strict(q, {c}, FALSE)  OBVIOUS
  <2>2. Record(q, new)  BY <2>1
  <2>3. q \in Created /\ \A r \in new : NewReference(q, r)
    BY <2>2, StrictReference DEF Record
  <2>4. Join(q, i) /\ NewJoin(q, i)
    BY <1>5, InstancesTyped DEF JoinAsOn, Join, NewJoin
  <2>5. Called(q, new, {i})  BY <2>2, <2>3, <2>4 DEF Called, Record, Join
  <2> QED  BY <2>5
<1> QED  BY <1>2, <1>3, <1>4, <1>5

LEMMA ConstructEffects ==
    ASSUME Typing, NEW q \in Queries, NEW X \in Models
    PROVE  /\ NewQuery(q, X) => Made(q, X, NoQuery) /\ MadePlain(q)
           /\ \A n \in Names : NewQueryAs(q, X, n) =>
                  Made(q, X, NoQuery) /\ MadeNamed(q, X, NoQuery, n)
           /\ \A p \in Queries : SubQuery(q, p, X) => Made(q, X, p) /\ MadeNamed(q, X, p, X)
           /\ \A p \in Queries, n \in Names : SubQueryAs(q, p, X, n) =>
                  Made(q, X, p) /\ MadeNamed(q, X, p, n)
<1>0. outer \in [Queries -> Queries \cup {NoQuery}]  BY DEF Typing, TypeOK
<1>1. NewQuery(q, X) => Made(q, X, NoQuery) /\ MadePlain(q)
  BY <1>0 DEF NewQuery, Construct, Made, MadePlain
<1>2. \A n \in Names : NewQueryAs(q, X, n) =>
          Made(q, X, NoQuery) /\ MadeNamed(q, X, NoQuery, n)
  BY DEF NewQueryAs, Construct, Made, MadeNamed, Register, Named
<1>3. \A p \in Queries : SubQuery(q, p, X) => Made(q, X, p) /\ MadeNamed(q, X, p, X)
  BY NamesDiffer DEF SubQuery, Construct, Made, MadeNamed, Register, Named
<1>4. \A p \in Queries, n \in Names : SubQueryAs(q, p, X, n) =>
          Made(q, X, p) /\ MadeNamed(q, X, p, n)
  BY DEF SubQueryAs, Construct, Made, MadeNamed, Register, Named
<1> QED  BY <1>1, <1>2, <1>3, <1>4

LEMMA AsEffects ==
    ASSUME NEW q \in Queries, NEW X \in Models, NEW n \in Names, As(q, X, n)
    PROVE  q \in Created /\ (Added(q, X, n) \/ Failing(q))
BY DEF As, Added, Failing, Register, Named

(* The kinds of step.                                                      *)
Kinds ==
    \E q \in Queries :
        \/ \E X \in Models, p \in Created \cup {NoQuery} :
              Made(q, X, p) /\ (MadePlain(q) \/ \E n \in AllNames : MadeNamed(q, X, p, n))
        \/ q \in Created /\ \E X \in Models, n \in Names : Added(q, X, n)
        \/ q \in Created /\ Failing(q)
        \/ \E new, add : Called(q, new, add)
        \/ Clear(q)

LEMMA StepKinds ==
    ASSUME Typing, Next
    PROVE  Kinds
<1>0. \A n \in Names : n \in AllNames  BY DEF AllNames
<1>1. PICK q \in Queries : ChainCall(q) \/ Refused(q) \/ Clear(q)  BY DEF Next
<1>2. CASE ChainCall(q)
  <2>1. CASE \E i \in Instances :
                \/ Condition(q, i) \/ \E grouped \in BOOLEAN : EqColumn(q, i, grouped)
                \/ JoinAs(q, i) \/ JoinAsOn(q, i)
    BY <2>1, CallEffects, Zenon DEF Kinds
  <2>2. CASE \E X \in Models :
                \/ NewQuery(q, X)
                \/ \E n \in Names : NewQueryAs(q, X, n) \/ As(q, X, n)
                \/ \E p \in Queries :
                       SubQuery(q, p, X) \/ \E n \in Names : SubQueryAs(q, p, X, n)
    <3>1. PICK X \in Models :
                \/ NewQuery(q, X)
                \/ \E n \in Names : NewQueryAs(q, X, n) \/ As(q, X, n)
                \/ \E p \in Queries :
                       SubQuery(q, p, X) \/ \E n \in Names : SubQueryAs(q, p, X, n)
      BY <2>2
    <3>2. X \in AllNames  BY NamesDiffer
    <3>3. CASE NewQuery(q, X)
      BY <3>3, ConstructEffects DEF Kinds
    <3>4. ASSUME NEW n \in Names, NewQueryAs(q, X, n) PROVE Kinds
      <4>1. Made(q, X, NoQuery) /\ MadeNamed(q, X, NoQuery, n)
        BY <3>4, ConstructEffects
      <4> QED  BY <4>1, <1>0 DEF Kinds
    <3>5. ASSUME NEW n \in Names, As(q, X, n) PROVE Kinds
      <4>1. q \in Created /\ (Added(q, X, n) \/ Failing(q))  BY <3>5, AsEffects
      <4> QED  BY <4>1 DEF Kinds
    <3>6. ASSUME NEW p \in Queries, SubQuery(q, p, X) PROVE Kinds
      <4>1. Made(q, X, p) /\ MadeNamed(q, X, p, X) /\ p \in Created
        BY <3>6, ConstructEffects DEF SubQuery
      <4> QED  BY <4>1, <3>2 DEF Kinds
    <3>7. ASSUME NEW p \in Queries, NEW n \in Names, SubQueryAs(q, p, X, n) PROVE Kinds
      <4>1. Made(q, X, p) /\ MadeNamed(q, X, p, n) /\ p \in Created
        BY <3>7, ConstructEffects DEF SubQueryAs
      <4> QED  BY <4>1, <1>0 DEF Kinds
    <3> QED  BY <3>1, <3>3, <3>4, <3>5, <3>6, <3>7
  <2> QED  BY <1>2, <2>1, <2>2 DEF ChainCall
<1>3. CASE Refused(q)
  BY <1>3 DEF Refused, Failing, Kinds
<1>4. CASE Clear(q)
  BY <1>4 DEF Kinds
<1> QED  BY <1>1, <1>2, <1>3, <1>4

-----------------------------------------------------------------------------
(* Typing, and entries that are never given to another model.              *)

LEMMA EntriesNamed ==
    ASSUME Typing, NEW q \in Queries, NEW n \in AllNames, NEW X \in Models, Named(q, n, X)
    PROVE  /\ entries' \in [Queries -> [AllNames -> Entries]]
           /\ clashes \subseteq clashes' /\ clashes' \subseteq AllNames
           /\ entries'[q][n] # NoEntry /\ entries'[q][n].model = X
           /\ \A s \in Queries, m \in AllNames :
                 s # q \/ m # n => entries'[s][m] = entries[s][m]
<1>1. entries \in [Queries -> [AllNames -> Entries]] /\ clashes \subseteq AllNames
  BY DEF Typing, TypeOK
<1>2. PICK e : e = [model |-> X, revoked |-> FALSE]  OBVIOUS
<1>3. e \in [model : Models, revoked : BOOLEAN] /\ e.model = X  BY <1>2
<1>4. e \in Entries /\ e # NoEntry  BY <1>3, NullsAssumption DEF Entries
<1>5. entries' = [entries EXCEPT ![q][n] = e]  BY <1>2 DEF Named
<1>6. clashes \subseteq clashes' /\ clashes' \subseteq AllNames  BY <1>1 DEF Named
<1> QED  BY <1>1, <1>3, <1>4, <1>5, <1>6

LEMMA ClearedEntries ==
    ASSUME Typing, NEW q \in Queries, Clear(q)
    PROVE  /\ entries' \in [Queries -> [AllNames -> Entries]]
           /\ \A s \in Queries, m \in AllNames :
                 /\ entries'[s][m] = NoEntry <=> entries[s][m] = NoEntry
                 /\ s # q => entries'[s][m] = entries[s][m]
                 /\ entries[s][m] # NoEntry => entries'[s][m].model = entries[s][m].model
<1>1. entries \in [Queries -> [AllNames -> Entries]]  BY DEF Typing
<1>2. PICK t : t = AfterClear(entries[q])  OBVIOUS
<1>3. ASSUME NEW m \in AllNames
      PROVE  /\ t[m] \in Entries /\ (t[m] = NoEntry <=> entries[q][m] = NoEntry)
             /\ entries[q][m] # NoEntry => t[m].model = entries[q][m].model
  <2>1. PICK e : e = entries[q][m]  OBVIOUS
  <2>2. t[m] = IF e = NoEntry THEN NoEntry ELSE [e EXCEPT !.revoked = TRUE]
    BY <1>2, <2>1 DEF AfterClear
  <2>3. CASE e = NoEntry  BY <2>1, <2>2, <2>3 DEF Entries
  <2>4. CASE e # NoEntry
    <3>1. e \in [model : Models, revoked : BOOLEAN]  BY <1>1, <2>1, <2>4 DEF Entries
    <3>2. /\ t[m] \in [model : Models, revoked : BOOLEAN]
          /\ t[m].model = e.model
      BY <2>2, <2>4, <3>1
    <3> QED  BY <2>1, <2>4, <3>2, NullsAssumption DEF Entries
  <2> QED  BY <2>3, <2>4
<1>4. t \in [AllNames -> Entries]
  <2>1. t = [m \in AllNames |-> IF entries[q][m] = NoEntry THEN NoEntry
                                ELSE [entries[q][m] EXCEPT !.revoked = TRUE]]
    BY <1>2 DEF AfterClear
  <2>2. t = [m \in AllNames |-> t[m]]  BY <2>1
  <2> QED  BY <1>3, <2>2
<1>5. entries' = [entries EXCEPT ![q] = t]  BY <1>1, <1>2 DEF Clear
<1> QED  BY <1>1, <1>3, <1>4, <1>5

(* The parts of Typing, each with the type of its function.                *)
Typed0 ==
    /\ model \in [Queries -> Models \cup {NoModel}]
    /\ outer \in [Queries -> Queries \cup {NoQuery}]
    /\ entries \in [Queries -> [AllNames -> Entries]]
    /\ mainAlias \in [Queries -> Names \cup {NoName}]
    /\ joined \in [Queries -> SUBSET Instance]
    /\ refs \in [Queries -> SUBSET References]
    /\ failed \in [Queries -> BOOLEAN] /\ clashes \subseteq AllNames
    /\ stale \subseteq Queries /\ clears \in 0..MaxClears

LEMMA TypingParts == Typing => Typed0
BY DEF Typing, TypeOK, Typed0

LEMMA TypingKept ==
    ASSUME Typing, Kinds
    PROVE  Typing'
<1>0. Typed0  BY TypingParts
<1> USE DEF Typed0
<1>1. SUFFICES Typed0'
  <2>1. ASSUME Typed0' PROVE Typing'
    <3>1. \A q \in Queries, n \in AllNames :
              entries'[q][n] \in {NoEntry} \cup [model : Models, revoked : BOOLEAN]
      BY <2>1 DEF Entries
    <3>2. \A q \in Queries : \A r \in refs'[q] :
              r.inst \in Instance /\ r.name \in AllNames \cup {Bare}
      BY <2>1 DEF References
    <3> QED  BY <2>1, <3>1, <3>2 DEF Typing, TypeOK
  <2> QED  BY <2>1
<1>2. PICK q \in Queries :
        \/ \E X \in Models, p \in Created \cup {NoQuery} :
              Made(q, X, p) /\ (MadePlain(q) \/ \E n \in AllNames : MadeNamed(q, X, p, n))
        \/ q \in Created /\ \E X \in Models, n \in Names : Added(q, X, n)
        \/ q \in Created /\ Failing(q)
        \/ \E new, add : Called(q, new, add)
        \/ Clear(q)
  BY DEF Kinds
<1>3. [failed EXCEPT ![q] = TRUE] \in [Queries -> BOOLEAN]  BY <1>0
<1>4. ASSUME NEW X \in Models, NEW p \in Created \cup {NoQuery}, Made(q, X, p)
      PROVE  /\ model' \in [Queries -> Models \cup {NoModel}]
             /\ outer' \in [Queries -> Queries \cup {NoQuery}]
             /\ failed' \in [Queries -> BOOLEAN]
             /\ joined' = joined /\ refs' = refs /\ stale' = stale /\ clears' = clears
  BY <1>0, <1>3, <1>4 DEF Made, Fail, Created
<1>5. ASSUME NEW X \in Models, NEW p \in Created \cup {NoQuery}, Made(q, X, p), MadePlain(q)
      PROVE  Typed0'
  BY <1>0, <1>4, <1>5 DEF MadePlain
<1>6. ASSUME NEW X \in Models, NEW p \in Created \cup {NoQuery}, Made(q, X, p),
             NEW n \in AllNames, MadeNamed(q, X, p, n)
      PROVE  Typed0'
  <2>1. Named(q, n, X)  BY <1>6 DEF MadeNamed
  <2>2. entries' \in [Queries -> [AllNames -> Entries]] /\ clashes' \subseteq AllNames
    BY <2>1, EntriesNamed
  <2>3. mainAlias' \in [Queries -> Names \cup {NoName}]  BY <1>0, <1>6 DEF MadeNamed
  <2> QED  BY <1>0, <1>4, <1>6, <2>2, <2>3
<1>7. ASSUME NEW X \in Models, NEW n \in Names, Added(q, X, n) PROVE Typed0'
  <2>1. Named(q, n, X) /\ n \in AllNames  BY <1>7 DEF Added, AllNames
  <2>2. entries' \in [Queries -> [AllNames -> Entries]] /\ clashes' \subseteq AllNames
    BY <2>1, EntriesNamed
  <2> QED  BY <1>0, <1>7, <2>2 DEF Added
<1>8. CASE Failing(q)
  BY <1>0, <1>3, <1>8 DEF Failing, Fail
<1>9. ASSUME NEW new, NEW add, Called(q, new, add) PROVE Typed0'
  <2>1. new \subseteq References /\ add \subseteq Instance
    BY <1>9 DEF Called, NewReference, NewJoin
  <2>2. refs' \in [Queries -> SUBSET References] /\ joined' \in [Queries -> SUBSET Instance]
    BY <1>0, <1>9, <2>1 DEF Called
  <2> QED  BY <1>0, <1>9, <2>2 DEF Called
<1>10. CASE Clear(q)
  <2>1. entries' \in [Queries -> [AllNames -> Entries]]  BY <1>10, ClearedEntries
  <2>2. /\ outer' \in [Queries -> Queries \cup {NoQuery}]
        /\ mainAlias' \in [Queries -> Names \cup {NoName}]
        /\ joined' \in [Queries -> SUBSET Instance]
        /\ refs' \in [Queries -> SUBSET References]
        /\ failed' \in [Queries -> BOOLEAN] /\ stale' \subseteq Queries
    BY <1>0, <1>10 DEF Clear, Created
  <2>3. clears' \in 0..MaxClears
    BY <1>0, <1>10, BoundsAssumption DEF Clear
  <2> QED  BY <1>0, <1>10, <2>1, <2>2, <2>3 DEF Clear
<1> QED  BY <1>2, <1>5, <1>6, <1>7, <1>8, <1>9, <1>10

(* What is live was registered.                                            *)
LEMMA LiveIsKnown ==
    ASSUME Typing, NEW i \in Instance, i.owner # Registry, Live(i)
    PROVE  Known(i)
<1> PICK e : e = [model |-> i.model, revoked |-> FALSE]  OBVIOUS
<1>1. e \in [model : Models, revoked : BOOLEAN] /\ e.model = i.model
  BY DEF Instance
<1>2. entries[i.owner][i.name] = e /\ e # NoEntry  BY <1>1, NullsAssumption DEF Live
<1> QED  BY <1>1, <1>2, Zenon DEF Known, Has

(* An entry keeps its model for ever.                                      *)
LEMMA Keeps ==
    ASSUME Typing, Order, Blank, Kinds, NEW s \in Queries, NEW m \in AllNames, NEW Y, Has(s, m, Y)
    PROVE  Has(s, m, Y)' /\ (model'[s] = model[s])
<1>0. entries[s][m] # NoEntry /\ entries[s][m].model = Y  BY DEF Has
<1>1. s \in Created  BY <1>0 DEF Blank
<1>2. SUFFICES entries'[s][m] # NoEntry /\ entries'[s][m].model = Y /\ model'[s] = model[s]
  BY DEF Has
<1>3. PICK q \in Queries :
        \/ \E X \in Models, p \in Created \cup {NoQuery} :
              Made(q, X, p) /\ (MadePlain(q) \/ \E n \in AllNames : MadeNamed(q, X, p, n))
        \/ q \in Created /\ \E X \in Models, n \in Names : Added(q, X, n)
        \/ q \in Created /\ Failing(q)
        \/ \E new, add : Called(q, new, add)
        \/ Clear(q)
  BY DEF Kinds
<1>4. ASSUME NEW X \in Models, NEW p \in Created \cup {NoQuery}, Made(q, X, p)
      PROVE  s # q /\ model'[s] = model[s]
  BY <1>1, <1>4 DEF Made, Typing, TypeOK
<1>5. ASSUME NEW X \in Models, NEW p \in Created \cup {NoQuery}, Made(q, X, p), MadePlain(q)
      PROVE  entries'[s][m] = entries[s][m]
  BY <1>5 DEF MadePlain
<1>6. ASSUME NEW X \in Models, NEW p \in Created \cup {NoQuery}, Made(q, X, p),
             NEW n \in AllNames, MadeNamed(q, X, p, n)
      PROVE  entries'[s][m] = entries[s][m]
  BY <1>4, <1>6, EntriesNamed DEF MadeNamed
<1>7. ASSUME NEW X \in Models, NEW n \in Names, Added(q, X, n), q \in Created
      PROVE  entries'[s][m] = entries[s][m] /\ model' = model
  <2>1. Named(q, n, X) /\ n \in AllNames /\ ~TakenAbove(q, n)
    BY <1>7 DEF Added, AllNames
  <2>2. entries[q][n] = NoEntry
    BY <2>1, ChainFacts DEF TakenAbove, Registered
  <2> QED  BY <1>0, <1>7, <2>1, <2>2, EntriesNamed DEF Added
<1>8. CASE Clear(q)
  BY <1>0, <1>8, ClearedEntries, NullsAssumption DEF Clear
<1>9. CASE Failing(q) \/ \E new, add : Called(q, new, add)
  BY <1>0, <1>9 DEF Failing, Called
<1> QED  BY <1>0, <1>3, <1>4, <1>5, <1>6, <1>7, <1>8, <1>9

(* The parts of the invariant that speak of single queries.                *)
LEMMA OrderMade ==
    ASSUME Typing, Order, NEW q \in Queries, NEW X \in Models,
           NEW p \in Created \cup {NoQuery}, Made(q, X, p)
    PROVE  Order' /\ Created' = Created \cup {q} /\ (p # NoQuery => p < q)
<1>1. model \in [Queries -> Models \cup {NoModel}] /\ outer \in [Queries -> Queries \cup {NoQuery}]
  BY DEF Typing, TypeOK
<1>2. /\ model' = [model EXCEPT ![q] = X] /\ outer' = [outer EXCEPT ![q] = p]
      /\ q \notin Created /\ \A r \in Queries : r < q => r \in Created
  BY DEF Made
<1>3. X # NoModel  BY NullsAssumption
<1>4. Created' = Created \cup {q}  BY <1>1, <1>2, <1>3 DEF Created
<1>5. ASSUME p # NoQuery PROVE p < q
  <2>1. p \in Created /\ p \in Queries /\ p # q  BY <1>2, <1>5 DEF Created
  <2>2. ~(q < p)  BY <1>2, <2>1 DEF Order
  <2> QED  BY <2>1, <2>2, NullsAssumption
<1>6. \A s \in Queries, r \in Queries : r < s /\ s \in Created' => r \in Created'
  BY <1>2, <1>4 DEF Order
<1>7. ASSUME NEW s \in Queries, outer'[s] # NoQuery
      PROVE  s \in Created' /\ outer'[s] \in Created' /\ outer'[s] < s
  <2>1. CASE s = q  BY <1>1, <1>2, <1>4, <1>5, <1>7, <2>1
  <2>2. CASE s # q
    <3>1. outer'[s] = outer[s]  BY <1>1, <1>2, <2>2
    <3> QED  BY <1>4, <1>7, <3>1 DEF Order
  <2> QED  BY <2>1, <2>2
<1> QED  BY <1>4, <1>5, <1>6, <1>7 DEF Order

(* The new query has a chain of its own; the others keep theirs.           *)
LEMMA ChainsMade ==
    ASSUME Typing, Order, Typing', NEW q \in Queries, NEW X \in Models,
           NEW p \in Created \cup {NoQuery}, Made(q, X, p)
    PROVE  /\ \A s \in Queries \ {q} : Chain'[s] = Chain[s] /\ q \notin Chain[s]
           /\ Chain'[q] = {q} \cup (IF p = NoQuery THEN {} ELSE Chain[p])
           /\ p # NoQuery => Chain[p] \subseteq Created
<1>1. Order' /\ Created' = Created \cup {q} /\ (p # NoQuery => p < q)  BY OrderMade
<1>2. Follows(Chain, outer) /\ Downward(outer)  BY ChainNow
<1>3. outer' \in Outers  BY DEF Typing, TypeOK, Outers
<1>4. Follows(Chain', outer')  BY <1>3, ChainFollowsNext
<1>5. /\ q \notin Created /\ outer' = [outer EXCEPT ![q] = p]
      /\ outer \in [Queries -> Queries \cup {NoQuery}]
  BY DEF Made, Typing, TypeOK
<1>6. ASSUME NEW s \in Queries \ {q} PROVE Chain'[s] = Chain[s] /\ q \notin Chain[s]
  <2>1. q \notin Chain[s] /\ Chain[s] \subseteq Queries
    <3>1. CASE s \in Created  BY <1>5, <3>1, ChainFacts
    <3>2. CASE s \notin Created
      <4>1. outer[s] = NoQuery  BY <3>2 DEF Order
      <4> QED  BY <4>1, ChainFacts
    <3> QED  BY <3>1, <3>2
  <2>2. \A r \in Chain[s] : outer'[r] = outer[r]  BY <1>5, <2>1
  <2>3. Chain'[s] = Chain[s]  BY <1>2, <1>4, <2>2, ChainSame
  <2> QED  BY <2>1, <2>3
<1>7. Chain'[q] = {q} \cup (IF outer'[q] = NoQuery THEN {} ELSE Chain'[outer'[q]])
  BY <1>4, Unfold
<1>8. outer'[q] = p  BY <1>5
<1>9. p # NoQuery => p \in Created /\ p \in Queries \ {q}
  BY <1>5 DEF Created
<1> QED  BY <1>6, <1>7, <1>8, <1>9, ChainFacts

(* What a step must show when it leaves the chains, or all but the new     *)
(* one's, as they are.                                                     *)
Parts == Order /\ Blank /\ MainKnown /\ Unique /\ Recorded /\ JoinedKnown

LEMMA InstanceParts ==
    ASSUME Typing, NEW q \in Queries
    PROVE  /\ \A r \in refs[q] : /\ r.inst \in Instance
                                 /\ r.inst.name \in AllNames
                                 /\ r.inst.owner # Registry => r.inst.owner \in Queries
           /\ \A a \in joined[q] : /\ a \in Instance /\ a.name \in AllNames
                                   /\ a.owner # Registry => a.owner \in Queries
<1>1. Typed0  BY TypingParts
<1>2. \A r \in refs[q] : r.inst \in Instance  BY <1>1 DEF Typed0, References
<1>3. \A a \in joined[q] : a \in Instance  BY <1>1 DEF Typed0
<1>4. \A i \in Instance : i.name \in AllNames /\ (i.owner # Registry => i.owner \in Queries)
  BY DEF Instance
<1> QED  BY <1>2, <1>3, <1>4

(* A query that exists keeps its model.                                    *)
LEMMA ModelKept ==
    ASSUME Typing, Kinds, NEW s \in Created
    PROVE  model'[s] = model[s]
<1>1. \/ model' = model
      \/ \E q \in Queries, X \in Models : q \notin Created /\ model' = [model EXCEPT ![q] = X]
  BY DEF Kinds, Made, Added, Failing, Called, Clear
<1> QED  BY <1>1 DEF Created, Typing, TypeOK

(* References and JOINs that were there stay in order.                     *)
LEMMA RecordedStays ==
    ASSUME Typing, Order, Blank, Recorded, JoinedKnown, Kinds,
           NEW s \in Queries, s \notin stale' => s \notin stale /\ Chain'[s] = Chain[s],
           mainAlias'[s] = mainAlias[s]
    PROVE  /\ \A r \in refs[s] : InOrder(s, r)'
           /\ \A a \in joined[s] : JoinInOrder(s, a)'
<1>1. ASSUME NEW i, i.owner \in Queries, i.name \in AllNames, Known(i) PROVE Known(i)'
  <2>1. PICK o \in Queries : o = i.owner  BY <1>1
  <2>2. PICK n \in AllNames : n = i.name  BY <1>1
  <2>3. PICK X : X = i.model  OBVIOUS
  <2>4. Has(o, n, X)  BY <1>1, <2>1, <2>2, <2>3 DEF Known
  <2>5. Has(o, n, X)'  BY <2>4, Keeps
  <2> QED  BY <2>1, <2>2, <2>3, <2>5 DEF Known, Has
<1>2. ASSUME NEW r \in refs[s] PROVE InOrder(s, r)'
  <2>1. /\ r.inst.name \in AllNames /\ (r.inst.owner # Registry => r.inst.owner \in Queries)
        /\ InOrder(s, r) /\ s \in Created
    BY <1>2, InstanceParts DEF Recorded, Blank
  <2>2. r.inst.owner # Registry => Known(r.inst)'  BY <1>1, <2>1 DEF InOrder
  <2>3. Chain[s] \subseteq Created  BY <2>1, ChainFacts
  <2>4. \A p \in Chain[s] \cup {s} : model'[p] = model[p]  BY <2>1, <2>3, ModelKept
  <2>5. s \notin stale' /\ r.inst.owner = Registry /\ r.via = "chain" =>
            \E p \in Chain'[s] : model'[p] = r.inst.model
    BY <2>1, <2>4 DEF InOrder
  <2>6. r.via = "cache" => /\ r.name \in {model'[s], Bare}
                           /\ r.name = Bare => mainAlias'[s] = NoName
    BY <2>1, <2>4 DEF InOrder
  <2>7. r.inst.owner # Registry =>
            /\ r.via = "chain" /\ r.name = r.inst.name
            /\ s \notin stale' => r.inst.owner \in Chain'[s]
    BY <2>1 DEF InOrder
  <2>8. /\ r.inst.owner = Registry => r.inst = Canonical(r.inst.model)
        /\ r.inst.owner = Registry /\ r.via = "chain" => r.name = r.inst.model
    BY <2>1 DEF InOrder
  <2> QED  BY <2>2, <2>5, <2>6, <2>7, <2>8 DEF InOrder, Canonical
<1>3. ASSUME NEW a \in joined[s] PROVE JoinInOrder(s, a)'
  <2>1. a.name \in AllNames /\ (a.owner # Registry => a.owner \in Queries)
    BY <1>3, InstanceParts
  <2>2. JoinInOrder(s, a)  BY <1>3 DEF JoinedKnown
  <2>3. Known(a)'  BY <1>1, <2>1, <2>2 DEF JoinInOrder
  <2> QED  BY <2>2, <2>3 DEF JoinInOrder
<1> QED  BY <1>2, <1>3

(* A constructor: the name of the new query is refused with an error if    *)
(* its outer queries have it.                                              *)
LEMMA MadeStep ==
    ASSUME IInv, Typing', Kinds, NEW q \in Queries, NEW X \in Models,
           NEW p \in Created \cup {NoQuery}, Made(q, X, p),
           MadePlain(q) \/ \E n \in AllNames : MadeNamed(q, X, p, n)
    PROVE  Parts'
<1>0. /\ Typing /\ Order /\ Blank /\ MainKnown /\ Unique /\ Recorded /\ JoinedKnown
      /\ Typed0
  BY TypingParts DEF IInv
<1>1. Order' /\ Created' = Created \cup {q}  BY <1>0, OrderMade
<1>2. /\ \A s \in Queries \ {q} : Chain'[s] = Chain[s] /\ q \notin Chain[s]
      /\ Chain'[q] = {q} \cup (IF p = NoQuery THEN {} ELSE Chain[p])
      /\ p # NoQuery => Chain[p] \subseteq Created
  BY <1>0, ChainsMade
<1>3. /\ q \notin Created /\ model' = [model EXCEPT ![q] = X]
      /\ joined' = joined /\ refs' = refs /\ stale' = stale
      /\ \A s \in Queries \ {q} : failed'[s] = failed[s]
      /\ \A s \in Queries \ {q} : model'[s] = model[s]
      /\ model'[q] = X
  BY <1>0 DEF Made, Fail, Typed0
<1>4. refs[q] = {} /\ joined[q] = {} /\ mainAlias[q] = NoName
      /\ \A m \in AllNames : entries[q][m] = NoEntry
  BY <1>0, <1>3 DEF Blank
(* Where the new name is, if there is one.                                 *)
<1>5. \E n \in AllNames \cup {NoName} :
        /\ \A s \in Queries \ {q}, m \in AllNames : entries'[s][m] = entries[s][m]
        /\ \A m \in AllNames : entries'[q][m] # NoEntry =>
              m = n /\ Has(q, m, X)'
        /\ \A s \in Queries \ {q} : mainAlias'[s] = mainAlias[s]
        /\ mainAlias'[q] # NoName => Has(q, mainAlias[q], X)'
        /\ clashes \subseteq clashes'
        /\ p # NoQuery /\ n # X /\ TakenAbove(p, n) => failed'[q]
  <2>1. CASE MadePlain(q)
    <3>1. /\ entries' = entries /\ mainAlias' = mainAlias /\ clashes' = clashes
          /\ outer'[q] = p /\ outer'[q] = NoQuery
      BY <1>0, <2>1 DEF MadePlain, Made, Typed0
    <3> QED  BY <1>4, <3>1
  <2>2. ASSUME NEW n \in AllNames, MadeNamed(q, X, p, n)
        PROVE  /\ \A s \in Queries \ {q}, m \in AllNames : entries'[s][m] = entries[s][m]
               /\ \A m \in AllNames : entries'[q][m] # NoEntry =>
                     m = n /\ Has(q, m, X)'
               /\ \A s \in Queries \ {q} : mainAlias'[s] = mainAlias[s]
               /\ mainAlias'[q] # NoName => Has(q, mainAlias[q], X)'
               /\ clashes \subseteq clashes'
               /\ p # NoQuery /\ n # X /\ TakenAbove(p, n) => failed'[q]
    <3>1. /\ clashes \subseteq clashes'
          /\ entries'[q][n] # NoEntry /\ entries'[q][n].model = X
          /\ \A s \in Queries, m \in AllNames :
                s # q \/ m # n => entries'[s][m] = entries[s][m]
      BY <1>0, <2>2, EntriesNamed DEF MadeNamed
    <3>2. Has(q, n, X)'  BY <3>1 DEF Has
    <3>4. /\ \A s \in Queries \ {q} : mainAlias'[s] = mainAlias[s]
          /\ mainAlias'[q] = n \/ mainAlias'[q] = NoName
      BY <1>0, <1>4, <2>2 DEF MadeNamed, Typed0
    <3>5. p # NoQuery /\ n # X /\ TakenAbove(p, n) => failed'[q]
      BY <1>0, <2>2 DEF MadeNamed, Fail, Typed0
    <3>6. ASSUME NEW m \in AllNames, entries'[q][m] # NoEntry
          PROVE  m = n /\ Has(q, m, X)'
      BY <1>4, <3>1, <3>2, <3>6
    <3>7. mainAlias'[q] # NoName => Has(q, mainAlias[q], X)'
      BY <3>2, <3>4 DEF Has
    <3> QED  BY <3>1, <3>4, <3>5, <3>6, <3>7
  <2> QED  BY <2>1, <2>2
<1>6. PICK n \in AllNames \cup {NoName} :
        /\ \A s \in Queries \ {q}, m \in AllNames : entries'[s][m] = entries[s][m]
        /\ \A m \in AllNames : entries'[q][m] # NoEntry =>
              m = n /\ Has(q, m, X)'
        /\ \A s \in Queries \ {q} : mainAlias'[s] = mainAlias[s]
        /\ mainAlias'[q] # NoName => Has(q, mainAlias[q], X)'
        /\ clashes \subseteq clashes'
        /\ p # NoQuery /\ n # X /\ TakenAbove(p, n) => failed'[q]
  BY <1>5
<1>7. Blank'
  BY <1>0, <1>1, <1>3, <1>6 DEF Blank
<1>8. MainKnown'
  <2> SUFFICES ASSUME NEW s \in Queries, mainAlias'[s] # NoName
               PROVE  Has(s, mainAlias[s], model[s])'
    BY DEF MainKnown
  <2>1. CASE s = q  BY <1>3, <1>6, <2>1 DEF Has
  <2>2. CASE s # q
    <3>1. /\ mainAlias'[s] = mainAlias[s] /\ mainAlias[s] \in AllNames
          /\ Has(s, mainAlias[s], model[s]) /\ model'[s] = model[s]
      BY <1>0, <1>3, <1>6, <2>2 DEF MainKnown, Typed0, AllNames
    <3> QED  BY <1>6, <2>2, <3>1 DEF Has
  <2> QED  BY <2>1, <2>2
<1>10. Unique'
  <2> SUFFICES ASSUME NEW s \in Queries, NEW m \in AllNames, NEW t \in Chain'[s] \ {s},
                      NEW Y \in Models \ {m}, Has(s, m, Y)', entries'[t][m] # NoEntry
               PROVE  failed'[s] \/ m \in clashes'
    BY DEF Unique
  <2>1. CASE s = q
    <3>1. p # NoQuery /\ t \in Chain[p]  BY <1>2, <2>1
    <3>2. t \in Queries \ {q}  BY <1>2, <1>3, <3>1 DEF Created
    <3>3. m = n /\ X # n /\ entries[t][n] # NoEntry  BY <1>6, <2>1, <3>2 DEF Has
    <3>4. TakenAbove(p, n)  BY <3>1, <3>3 DEF TakenAbove, Registered
    <3> QED  BY <1>6, <2>1, <3>1, <3>3, <3>4
  <2>2. CASE s # q
    <3>1. t \in Chain[s] \ {s} /\ q \notin Chain[s] /\ t \in Queries
      BY <1>0, <1>2, <2>2, ChainFacts
    <3>2. Has(s, m, Y) /\ entries[t][m] # NoEntry
      BY <1>6, <2>2, <3>1 DEF Has
    <3> QED  BY <1>0, <1>3, <1>6, <2>2, <3>1, <3>2 DEF Unique
  <2> QED  BY <2>1, <2>2
<1>11. ASSUME NEW s \in Queries \ {q}
       PROVE  /\ s \notin stale' => s \notin stale /\ Chain'[s] = Chain[s]
              /\ mainAlias'[s] = mainAlias[s]
  BY <1>2, <1>3, <1>6
<1>12. Recorded'
  BY <1>0, <1>3, <1>4, <1>11, RecordedStays DEF Recorded
<1>13. JoinedKnown'
  BY <1>0, <1>3, <1>4, <1>11, RecordedStays DEF JoinedKnown
<1> QED  BY <1>1, <1>7, <1>8, <1>10, <1>12, <1>13 DEF Parts

(* As: the name is new to the chain of q; if a query below has it, the     *)
(* name is a clash.                                                        *)
LEMMA AddedStep ==
    ASSUME IInv, Kinds, NEW q \in Created, NEW X \in Models, NEW n \in Names, Added(q, X, n)
    PROVE  Parts'
<1>0. /\ Typing /\ Order /\ Blank /\ MainKnown /\ Unique /\ Recorded /\ JoinedKnown
      /\ Typed0 /\ q \in Queries /\ n \in AllNames
  BY TypingParts DEF IInv, Created, AllNames
<1>1. /\ model' = model /\ outer' = outer /\ mainAlias' = mainAlias /\ joined' = joined
      /\ refs' = refs /\ failed' = failed /\ stale' = stale
      /\ Named(q, n, X) /\ ~TakenAbove(q, n)
  BY DEF Added
<1>2. Chain' = Chain /\ Created' = Created
  BY <1>0, <1>1, ChainStays DEF Created
<1>3. /\ clashes \subseteq clashes'
      /\ \A s \in Queries, m \in AllNames :
            s # q \/ m # n => entries'[s][m] = entries[s][m]
  BY <1>0, <1>1, EntriesNamed
<1>4. Order'  BY <1>0, <1>1, <1>2 DEF Order
<1>5. Blank'
  BY <1>0, <1>1, <1>2, <1>3 DEF Blank
<1>6. MainKnown'
  <2> SUFFICES ASSUME NEW s \in Queries, mainAlias[s] # NoName
               PROVE  Has(s, mainAlias[s], model[s])'
    BY <1>1 DEF MainKnown
  <2>1. Has(s, mainAlias[s], model[s]) /\ mainAlias[s] \in AllNames
    BY <1>0 DEF MainKnown, Typed0, AllNames
  <2>2. PICK m \in AllNames : m = mainAlias[s]  BY <2>1
  <2>3. PICK Y : Y = model[s]  OBVIOUS
  <2>4. Has(s, m, Y)'  BY <1>0, <2>1, <2>2, <2>3, Keeps
  <2> QED  BY <1>1, <2>2, <2>3, <2>4 DEF Has
<1>8. Unique'
  <2> SUFFICES ASSUME NEW s \in Queries, NEW m \in AllNames, NEW t \in Chain[s] \ {s},
                      NEW Y \in Models \ {m}, Has(s, m, Y)', entries'[t][m] # NoEntry
               PROVE  failed'[s] \/ m \in clashes'
    BY <1>2 DEF Unique
  <2>0. t \in Queries  BY <1>0, ChainFacts
  <2>1. CASE s = q /\ m = n
    <3>1. entries[t][m] # NoEntry  BY <1>3, <2>0, <2>1
    <3>2. TakenAbove(q, n)  BY <2>0, <2>1, <3>1 DEF TakenAbove, Registered
    <3> QED  BY <1>1, <3>2
  <2>2. CASE t = q /\ m = n
    <3>1. entries[s][m] # NoEntry  BY <1>3, <2>0, <2>2 DEF Has
    <3>2. s \in Created  BY <1>0, <2>0, <3>1 DEF Blank
    <3>3. TakenBelow(q, n)  BY <2>0, <2>2, <3>1, <3>2 DEF TakenBelow, Registered
    <3> QED  BY <1>1, <2>2, <3>3 DEF Named
  <2>3. CASE ~(s = q /\ m = n) /\ ~(t = q /\ m = n)
    <3>1. Has(s, m, Y) /\ entries[t][m] # NoEntry
      BY <1>3, <2>0, <2>3 DEF Has
    <3> QED  BY <1>0, <1>1, <1>3, <3>1 DEF Unique
  <2> QED  BY <2>1, <2>2, <2>3
<1>9. ASSUME NEW s \in Queries
      PROVE  s \notin stale' => s \notin stale /\ Chain'[s] = Chain[s]
  BY <1>1, <1>2
<1>10. Recorded'  BY <1>0, <1>1, <1>9, RecordedStays DEF Recorded
<1>11. JoinedKnown'  BY <1>0, <1>1, <1>9, RecordedStays DEF JoinedKnown
<1> QED  BY <1>4, <1>5, <1>6, <1>8, <1>10, <1>11 DEF Parts

(* A call that fails: what the invariant demands only gets less.           *)
LEMMA FailingStep ==
    ASSUME IInv, NEW q \in Created, Failing(q)
    PROVE  Parts'
<1>0. /\ Typing /\ Order /\ Blank /\ MainKnown /\ Unique /\ Recorded /\ JoinedKnown
      /\ Typed0
  BY TypingParts DEF IInv
<1>1. /\ model' = model /\ outer' = outer /\ mainAlias' = mainAlias /\ joined' = joined
      /\ refs' = refs /\ entries' = entries /\ stale' = stale /\ clashes' = clashes
      /\ \A s \in Queries : failed[s] => failed'[s]
  BY <1>0 DEF Failing, Fail, Typed0
<1>2. Chain' = Chain /\ Created' = Created
  BY <1>0, <1>1, ChainStays DEF Created
<1>3. Order' /\ Blank' /\ MainKnown'
  BY <1>0, <1>1, <1>2 DEF Order, Blank, MainKnown, Has
<1>4. Unique'  BY <1>0, <1>1, <1>2 DEF Unique, Has
<1>5. Recorded' /\ JoinedKnown'
  BY <1>0, <1>1, <1>2 DEF Recorded, JoinedKnown, InOrder, JoinInOrder, Known, Has, Canonical
<1> QED  BY <1>3, <1>4, <1>5 DEF Parts

(* A call that takes field pointers: what it records is known in the chain.*)
LEMMA CalledStep ==
    ASSUME IInv, NEW q \in Queries, NEW new, NEW add, Called(q, new, add)
    PROVE  Parts'
<1>0. /\ Typing /\ Order /\ Blank /\ MainKnown /\ Unique /\ Recorded /\ JoinedKnown
      /\ Typed0
  BY TypingParts DEF IInv
<1>1. /\ model' = model /\ outer' = outer /\ mainAlias' = mainAlias
      /\ entries' = entries /\ stale' = stale /\ clashes' = clashes /\ failed' = failed
      /\ q \in Created
      /\ refs' = [refs EXCEPT ![q] = @ \cup new]
      /\ joined' = [joined EXCEPT ![q] = @ \cup add]
  BY DEF Called
<1>2. Chain' = Chain /\ Created' = Created
  BY <1>0, <1>1, ChainStays DEF Created
<1>3. \A s \in Queries : /\ refs'[s] = IF s = q THEN refs[s] \cup new ELSE refs[s]
                         /\ joined'[s] = IF s = q THEN joined[s] \cup add ELSE joined[s]
  BY <1>0, <1>1 DEF Typed0
<1>4. Order' /\ MainKnown'
  BY <1>0, <1>1, <1>2 DEF Order, MainKnown, Has
<1>5. Blank'  BY <1>0, <1>1, <1>2, <1>3 DEF Blank
<1>6. Unique'  BY <1>0, <1>1, <1>2 DEF Unique, Has
<1>7. ASSUME NEW r \in new PROVE InOrder(q, r)
  <2>1. NewReference(q, r)  BY <1>7 DEF Called
  <2>2. r.inst \in Instance  BY <2>1 DEF NewReference, References
  <2>3. Registered(q) = {} => mainAlias[q] = NoName
    <3>1. mainAlias[q] # NoName => mainAlias[q] \in AllNames  BY <1>0 DEF Typed0, AllNames
    <3> QED  BY <1>0, <3>1 DEF MainKnown, Has, Registered
  <2> QED  BY <1>0, <2>1, <2>2, <2>3, LiveIsKnown DEF NewReference, InChain, InOrder
<1>8. \A a \in add : JoinInOrder(q, a)
  BY <1>0, LiveIsKnown DEF Called, NewJoin, InChain, JoinInOrder
<1>9. /\ \A s, r : InOrder(s, r) => InOrder(s, r)'
      /\ \A s, a : JoinInOrder(s, a) => JoinInOrder(s, a)'
  BY <1>1, <1>2 DEF InOrder, JoinInOrder, Known, Has, Canonical
<1>10. Recorded'
  <2> SUFFICES ASSUME NEW s \in Queries, NEW r \in refs'[s] PROVE InOrder(s, r)'
    BY DEF Recorded
  <2>1. r \in refs[s] \/ (s = q /\ r \in new)  BY <1>3
  <2>2. InOrder(s, r)  BY <1>0, <1>7, <2>1 DEF Recorded
  <2> QED  BY <1>9, <2>2
<1>11. JoinedKnown'
  <2> SUFFICES ASSUME NEW s \in Queries, NEW a \in joined'[s] PROVE JoinInOrder(s, a)'
    BY DEF JoinedKnown
  <2>1. a \in joined[s] \/ (s = q /\ a \in add)  BY <1>3
  <2>2. JoinInOrder(s, a)  BY <1>0, <1>8, <2>1 DEF JoinedKnown
  <2> QED  BY <1>9, <2>2
<1> QED  BY <1>4, <1>5, <1>6, <1>10, <1>11 DEF Parts

(* Clear: the chains through q end there, and the queries below it are     *)
(* stale.                                                                  *)
LEMMA ClearStep ==
    ASSUME IInv, Typing', Kinds, NEW q \in Queries, Clear(q)
    PROVE  Parts'
<1>0. /\ Typing /\ Order /\ Blank /\ MainKnown /\ Unique /\ Recorded /\ JoinedKnown
      /\ Typed0
  BY TypingParts DEF IInv
<1>1. /\ model' = model /\ clashes' = clashes /\ q \in Created
      /\ \A s \in Queries \ {q} : /\ outer'[s] = outer[s] /\ mainAlias'[s] = mainAlias[s]
                                  /\ joined'[s] = joined[s] /\ refs'[s] = refs[s]
                                  /\ failed'[s] = failed[s]
      /\ outer'[q] = NoQuery /\ mainAlias'[q] = NoName
      /\ joined'[q] = {} /\ refs'[q] = {}
      /\ stale' = (stale \cup {s \in Created : q \in Chain[s]}) \ {q}
  BY <1>0 DEF Clear, Typed0
<1>2. \A s \in Queries, m \in AllNames :
          /\ entries'[s][m] = NoEntry <=> entries[s][m] = NoEntry
          /\ s # q => entries'[s][m] = entries[s][m]
          /\ entries[s][m] # NoEntry => entries'[s][m].model = entries[s][m].model
  BY <1>0, ClearedEntries
<1>3. Created' = Created  BY <1>1 DEF Created
<1>4. Order'
  <2>1. \A s \in Queries, r \in Queries : r < s /\ s \in Created' => r \in Created'
    BY <1>0, <1>3 DEF Order
  <2>2. ASSUME NEW s \in Queries, outer'[s] # NoQuery
        PROVE  s \in Created' /\ outer'[s] \in Created' /\ outer'[s] < s
    <3>1. s # q /\ outer'[s] = outer[s]  BY <1>1, <2>2
    <3> QED  BY <1>0, <1>3, <2>2, <3>1 DEF Order
  <2> QED  BY <2>1, <2>2 DEF Order
<1>5. /\ \A s \in Queries : Chain'[s] \subseteq Chain[s]
      /\ \A s \in Queries : q \notin Chain[s] => Chain'[s] = Chain[s]
      /\ Chain'[q] = {q}
  <2>1. Follows(Chain, outer) /\ Downward(outer)  BY <1>0, ChainNow
  <2>2. outer' \in Outers  BY DEF Typing, TypeOK, Outers
  <2>3. Follows(Chain', outer')  BY <2>2, ChainFollowsNext
  <2>4. \A s \in Queries : outer'[s] \in {outer[s], NoQuery}  BY <1>1
  <2>5. \A s \in Queries : Chain'[s] \subseteq Chain[s]
    BY <2>1, <2>3, <2>4, ChainShrinks
  <2>6. ASSUME NEW s \in Queries, q \notin Chain[s] PROVE Chain'[s] = Chain[s]
    <3>1. \A r \in Chain[s] : outer'[r] = outer[r]
      BY <1>0, <1>1, <2>6, ChainFacts
    <3> QED  BY <2>1, <2>3, <3>1, ChainSame
  <2>7. Chain'[q] = {q} \cup (IF outer'[q] = NoQuery THEN {} ELSE Chain'[outer'[q]])
    BY <2>3, Unfold
  <2> QED  BY <1>1, <2>5, <2>6, <2>7
<1>6. Blank'  BY <1>0, <1>1, <1>2, <1>3 DEF Blank
<1>7. MainKnown'
  <2> SUFFICES ASSUME NEW s \in Queries, mainAlias'[s] # NoName
               PROVE  Has(s, mainAlias[s], model[s])'
    BY DEF MainKnown
  <2>0. s # q /\ mainAlias'[s] = mainAlias[s]  BY <1>1
  <2>1. Has(s, mainAlias[s], model[s]) /\ mainAlias[s] \in AllNames
    BY <1>0, <2>0 DEF MainKnown, Typed0, AllNames
  <2> QED  BY <1>1, <1>2, <2>0, <2>1 DEF Has
<1>9. Unique'
  <2> SUFFICES ASSUME NEW s \in Queries, NEW m \in AllNames, NEW t \in Chain'[s] \ {s},
                      NEW Y \in Models \ {m}, Has(s, m, Y)', entries'[t][m] # NoEntry
               PROVE  failed'[s] \/ m \in clashes'
    BY DEF Unique
  <2>1. s # q /\ t \in Chain[s] \ {s}  BY <1>5
  <2>2. t \in Queries  BY <1>0, <2>1, ChainFacts
  <2>3. Has(s, m, Y) /\ entries[t][m] # NoEntry  BY <1>2, <2>1, <2>2 DEF Has
  <2> QED  BY <1>0, <1>1, <2>1, <2>3 DEF Unique
<1>10. ASSUME NEW s \in Queries, s # q, refs[s] # {} \/ joined[s] # {}
       PROVE  s \notin stale' => s \notin stale /\ Chain'[s] = Chain[s]
  <2>1. s \in Created  BY <1>0, <1>10 DEF Blank
  <2> QED  BY <1>1, <1>5, <1>10, <2>1
<1>11. Recorded'
  <2> SUFFICES ASSUME NEW s \in Queries, NEW r \in refs'[s] PROVE InOrder(s, r)'
    BY DEF Recorded
  <2>1. s # q /\ r \in refs[s] /\ mainAlias'[s] = mainAlias[s]  BY <1>1
  <2>2. s \notin stale' => s \notin stale /\ Chain'[s] = Chain[s]  BY <1>10, <2>1
  <2> QED  BY <1>0, <2>1, <2>2, RecordedStays
<1>12. JoinedKnown'
  <2> SUFFICES ASSUME NEW s \in Queries, NEW a \in joined'[s] PROVE JoinInOrder(s, a)'
    BY DEF JoinedKnown
  <2>1. s # q /\ a \in joined[s] /\ mainAlias'[s] = mainAlias[s]  BY <1>1
  <2>2. s \notin stale' => s \notin stale /\ Chain'[s] = Chain[s]  BY <1>10, <2>1
  <2> QED  BY <1>0, <2>1, <2>2, RecordedStays
<1> QED  BY <1>4, <1>6, <1>7, <1>9, <1>11, <1>12 DEF Parts

-----------------------------------------------------------------------------
LEMMA InitEstablishes == Init => IInv
<1> SUFFICES ASSUME Init PROVE IInv  OBVIOUS
<1>1. TypeOK
  BY BoundsAssumption DEF Init, TypeOK
<1>2. Created = {}  BY DEF Init, Created
<1>3. /\ entries \in [Queries -> [AllNames -> Entries]]
      /\ refs \in [Queries -> SUBSET References]
  BY DEF Init, Entries
<1>4. /\ \A q \in Queries : /\ outer[q] = NoQuery /\ mainAlias[q] = NoName
                            /\ refs[q] = {} /\ joined[q] = {}
      /\ \A q \in Queries, n \in AllNames : entries[q][n] = NoEntry
  BY DEF Init
<1>5. Order /\ Blank /\ MainKnown  BY <1>2, <1>4 DEF Order, Blank, MainKnown
<1>6. Unique  BY <1>4 DEF Unique, Has
<1>7. Recorded /\ JoinedKnown  BY <1>4 DEF Recorded, JoinedKnown
<1> QED  BY <1>1, <1>3, <1>5, <1>6, <1>7 DEF IInv, Typing

LEMMA StepKeeps == IInv /\ [Next]_vars => IInv'
<1> SUFFICES ASSUME IInv, [Next]_vars PROVE IInv'  OBVIOUS
<1>0. Typing /\ Order  BY DEF IInv
<1>1. CASE Next
  <2>1. Kinds  BY <1>0, <1>1, StepKinds
  <2>2. Typing'  BY <1>0, <2>1, TypingKept
  <2>3. PICK q \in Queries :
          \/ \E X \in Models, p \in Created \cup {NoQuery} :
                Made(q, X, p) /\ (MadePlain(q) \/ \E n \in AllNames : MadeNamed(q, X, p, n))
          \/ q \in Created /\ \E X \in Models, n \in Names : Added(q, X, n)
          \/ q \in Created /\ Failing(q)
          \/ \E new, add : Called(q, new, add)
          \/ Clear(q)
    BY <2>1 DEF Kinds
  <2>4. Parts'
    BY <2>1, <2>2, <2>3, MadeStep, AddedStep, FailingStep, CalledStep, ClearStep
  <2> QED  BY <2>2, <2>4 DEF Parts, IInv
<1>2. CASE UNCHANGED vars
  <2>1. /\ model' = model /\ outer' = outer /\ entries' = entries /\ mainAlias' = mainAlias
        /\ joined' = joined /\ refs' = refs /\ failed' = failed /\ clashes' = clashes
        /\ stale' = stale /\ clears' = clears
    BY <1>2 DEF vars
  <2>2. Chain' = Chain /\ Created' = Created
    BY <1>0, <2>1, ChainStays DEF Created
  <2>3. Typing'  BY <1>0, <2>1 DEF Typing, TypeOK
  <2>4. Order' /\ Blank' /\ MainKnown'
    BY <2>1, <2>2 DEF IInv, Order, Blank, MainKnown, Has
  <2>5. Unique'  BY <2>1, <2>2 DEF IInv, Unique, Has
  <2>6. Recorded' /\ JoinedKnown'
    BY <2>1, <2>2 DEF IInv, Recorded, JoinedKnown, InOrder, JoinInOrder, Known, Has, Canonical
  <2> QED  BY <2>3, <2>4, <2>5, <2>6 DEF IInv
<1> QED  BY <1>1, <1>2

(* In every state a name of a chain belongs to one of its queries, and     *)
(* what a query has recorded is known to the query that gave it its name.  *)
THEOREM Inductive == Spec => []IInv
<1>1. Init => IInv  BY InitEstablishes
<1>2. IInv /\ [Next]_vars => IInv'  BY StepKeeps
<1> QED  BY <1>1, <1>2, PTL DEF Spec

(* Every variable keeps its type; what is recorded has a name.             *)
THEOREM Typed == Spec => []TypeOK
<1>1. IInv => TypeOK  BY DEF IInv, Typing
<1> QED  BY <1>1, Inductive, PTL

-----------------------------------------------------------------------------
(* What a name means.                                                      *)

(* A FROM item is called after the instance that stands for it, and its    *)
(* model is one of those the chain calls so.                               *)
LEMMA ItemKnown ==
    ASSUME IInv, NEW p \in Created, NEW n \in AllNames, NEW i \in ItemsOf(p, n)
    PROVE  /\ i \in Instance /\ i.name = n
           /\ i.model # n => /\ i.owner \in Queries /\ Has(i.owner, n, i.model)
                             /\ p \notin stale => i.owner \in Chain[p]
           /\ p \notin stale => \E t \in Chain[p] : i.model \in Calls(t, n)
<1>0. /\ Typing /\ Order /\ MainKnown /\ JoinedKnown /\ p \in Queries
      /\ model[p] \in Models /\ p \in Chain[p]
  BY ChainFacts DEF IInv, Created, Typing, TypeOK
<1>1. CASE i \in joined[p] /\ i.name = n
  <2>1. /\ i \in Instance /\ i.owner \in Queries /\ i.model \in Models
        /\ Known(i) /\ (p \notin stale => i.owner \in Chain[p])
    BY <1>0, <1>1, InstanceParts DEF JoinedKnown, JoinInOrder, Instance
  <2>2. Has(i.owner, n, i.model)  BY <1>1, <2>1 DEF Known
  <2>3. i.model \in Calls(i.owner, n)  BY <2>1, <2>2 DEF Has, Calls
  <2> QED  BY <1>1, <2>1, <2>2, <2>3
<1>2. CASE MainName(p) = n /\ i \in MainInstances(p)
  <2> PICK own : own = [owner |-> p, name |-> n, model |-> model[p]]  OBVIOUS
  <2>1. /\ own \in Instance /\ own.owner = p /\ own.name = n /\ own.model = model[p]
    BY <1>0 DEF Instance
  <2>2. CASE mainAlias[p] = NoName
    <3>1. n = model[p] /\ n \in Tables /\ n \in Models
      BY <1>0, <1>2, <2>2 DEF MainName, Tables
    <3>2. i = own \/ i = Canonical(model[p])
      BY <1>2, <2>2 DEF MainInstances
    <3>3. /\ Canonical(n) \in Instance /\ Canonical(n).name = n
          /\ Canonical(n).model = n
      BY <3>1 DEF Canonical, Instance, Tables
    <3>4. i.model = n /\ n \in Calls(p, n)  BY <2>1, <3>1, <3>2, <3>3 DEF Calls
    <3> QED  BY <1>0, <2>1, <3>1, <3>2, <3>3, <3>4
  <2>3. CASE mainAlias[p] # NoName
    <3>1. n = mainAlias[p] /\ i = own
      BY <1>0, <1>2, <2>3 DEF MainName, MainInstances
    <3>2. Has(p, n, model[p])  BY <1>0, <2>3, <3>1 DEF MainKnown
    <3>3. model[p] \in Calls(p, n)  BY <1>0, <3>2 DEF Has, Calls
    <3> QED  BY <1>0, <2>1, <3>1, <3>2, <3>3
  <2> QED  BY <2>2, <2>3
<1> QED  BY <1>1, <1>2 DEF ItemsOf

(* Instances with one owner and one name are the same.                     *)
LEMMA SameInstance ==
    ASSUME NEW i \in Instance, NEW j \in Instance, i.owner = j.owner, i.name = j.name,
           Has(i.owner, i.name, i.model), Has(i.owner, i.name, j.model)
    PROVE  i = j
<1>1. i.model = j.model  BY DEF Has
<1> QED  BY <1>1 DEF Instance

(* An instance registered in o and another of the same name in an outer    *)
(* query of o: an error or a clash, unless the name is its own table's.    *)
LEMMA OneOwner ==
    ASSUME IInv, NEW o \in Queries, NEW w \in Chain[o], NEW n \in AllNames,
           NEW X \in Models \ {n}, NEW Y,
           Has(o, n, X), Has(w, n, Y), ~failed[o], n \notin clashes
    PROVE  w = o
BY DEF IInv, Unique, Has

LEMMA NamesOnce == IInv => NamesNeverReused
<1> SUFFICES ASSUME IInv, NEW q \in Created, NEW r \in refs[q], NEW p, p = r.inst.owner,
                    p # Registry, p \notin stale, ~failed[p], r.name \notin clashes,
                    ~Mixed(p, r.name), NEW i \in ItemsOf(p, r.name)
             PROVE  i = r.inst \/ (r.name = r.inst.model /\ i.model = r.inst.model)
  BY DEF NamesNeverReused
<1>0. Typing /\ Order /\ Blank /\ Recorded /\ q \in Queries
  BY DEF IInv, Created
<1>1. /\ r.inst \in Instance /\ r.inst.name \in AllNames /\ p \in Queries
      /\ r.inst.model \in Models
      /\ r.name = r.inst.name /\ Has(p, r.name, r.inst.model)
  BY <1>0, InstanceParts DEF Recorded, InOrder, Known, Instance
<1> PICK n \in AllNames : n = r.name  BY <1>1
<1>2. p \in Created /\ p \in Chain[p]  BY <1>0, <1>1, ChainFacts DEF Blank, Has
<1>3. /\ i \in Instance /\ i.name = n
      /\ i.model # n => /\ i.owner \in Queries /\ Has(i.owner, n, i.model)
                        /\ i.owner \in Chain[p]
      /\ i.model \in Models /\ \E t \in Chain[p] : i.model \in Calls(t, n)
  BY <1>2, ItemKnown DEF Instance
<1>4. n \in Tables => i.model = r.inst.model
  <2>1. r.inst.model \in Calls(p, n)  BY <1>1 DEF Has, Calls
  <2> QED  BY <1>2, <1>3, <2>1 DEF Mixed
<1>5. CASE r.inst.model # n
  <2>0. i.model # n  BY <1>3, <1>4, <1>5 DEF Tables
  <2>1. i.owner = p  BY <1>1, <1>3, <1>5, <2>0, OneOwner
  <2>2. i = r.inst  BY <1>1, <1>3, <2>0, <2>1, SameInstance
  <2> QED  BY <2>2
<1> QED  BY <1>1, <1>4, <1>5 DEF Tables

LEMMA NoCapture == IInv => NeverCaptured
<1> SUFFICES ASSUME IInv, NEW q \in Created, NEW r \in refs[q],
                    Sent(q), Chain[q] \cap stale = {}, r.name \notin clashes,
                    ~Mixed(q, r.name), r.via = "cache" => r.inst.model = model[q],
                    Reached(q, r) # {}
             PROVE  \/ r.inst \in Reached(q, r)
                    \/ r.name = r.inst.model /\ \A i \in Reached(q, r) : i.model = r.inst.model
  BY DEF NeverCaptured
<1>0. Typing /\ Order /\ Blank /\ Recorded /\ q \in Queries
  BY DEF IInv, Created
<1>1. /\ q \in Chain[q] /\ Chain[q] \subseteq Queries /\ Chain[q] \subseteq Created
      /\ \A p \in Chain[q] : Chain[p] \subseteq Chain[q]
  BY <1>0, ChainFacts
<1>2. r.inst \in Instance /\ r.inst.name \in AllNames
      /\ (r.inst.owner # Registry => r.inst.owner \in Queries)
      /\ r.inst.model \in Models /\ r.inst.model \in Tables /\ r.via \in {"cache", "chain"}
  BY <1>0, InstanceParts DEF Instance, Tables, Typing, References
<1>3. InOrder(q, r) /\ q \notin stale  BY <1>0, <1>1 DEF Recorded
(* A column without prefix is one of the main table of q.                  *)
<1>a. CASE r.name = Bare
  <2>1. r.via = "cache" /\ r.inst.owner = Registry
    BY <1>2, <1>3, <1>a, NamesDiffer DEF InOrder, Tables
  <2>2. r.inst = Canonical(model[q]) /\ mainAlias[q] = NoName
    BY <1>3, <1>a, <2>1 DEF InOrder
  <2>3. r.inst \in MainInstances(q)  BY <2>2 DEF MainInstances
  <2> QED  BY <1>a, <2>3 DEF Reached
<1>b. CASE r.name # Bare
  <2>1. r.name \in AllNames /\ \E t \in Chain[q] : r.inst.model \in Calls(t, r.name)
    <3>1. CASE r.inst.owner # Registry
      BY <1>2, <1>3, <3>1 DEF InOrder, Known, Has, Calls
    <3>2. CASE r.inst.owner = Registry /\ r.via = "chain"
      BY <1>2, <1>3, <3>2, NamesDiffer DEF InOrder, Calls
    <3>3. CASE r.inst.owner = Registry /\ r.via = "cache"
      BY <1>1, <1>2, <1>3, <1>b, <3>3, NamesDiffer DEF InOrder, Calls
    <3> QED  BY <1>2, <3>1, <3>2, <3>3
  <2> PICK n \in AllNames : n = r.name  BY <2>1
  <2> DEFINE scopes == {p \in Chain[q] : Provides(p, n)}
  <2>2. scopes # {} /\ Reached(q, r) = ItemsOf(Nearest(scopes), n)
    BY <1>b DEF Reached
  <2>3. Nearest(scopes) \in scopes
    BY <1>0, <2>2, NearestMember
  <2> PICK p \in Chain[q] : p = Nearest(scopes)  BY <2>3
  <2> HIDE DEF scopes
  <2>4. p \in Created /\ Chain[p] \subseteq Chain[q] /\ p \notin stale  BY <1>1
  <2>5. \A i \in Reached(q, r) :
          /\ i \in Instance /\ i.name = n
          /\ i.model # n => /\ i.owner \in Queries /\ Has(i.owner, n, i.model)
                            /\ i.owner \in Chain[q]
          /\ i.model \in Models /\ \E t \in Chain[q] : i.model \in Calls(t, n)
    BY <2>2, <2>4, ItemKnown DEF Instance
  <2>6. n \in Tables => \A i \in Reached(q, r) : i.model = r.inst.model
    BY <2>1, <2>5 DEF Mixed
  <2>7. CASE r.inst.model # n
    <3>1. r.inst.owner # Registry
      <4>1. r.inst.owner = Registry /\ r.via = "chain" => n = r.inst.model
        BY <1>2, <1>3 DEF InOrder
      <4>2. r.inst.owner = Registry /\ r.via = "cache" => n = r.inst.model
        BY <1>2, <1>3, <1>b DEF InOrder
      <4> QED  BY <1>2, <2>7, <4>1, <4>2
    <3>2. PICK i \in Reached(q, r) : TRUE  OBVIOUS
    <3>0. i.model # n  BY <2>5, <2>6, <2>7 DEF Tables
    <3> PICK o \in Chain[q] : o = r.inst.owner  BY <1>3, <3>1 DEF InOrder
    <3> PICK w \in Chain[q] : w = i.owner  BY <2>5, <3>0
    <3>3. ~failed[o] /\ ~failed[w] /\ o \in Queries /\ w \in Queries
      BY <1>1 DEF Sent
    <3>4. r.inst.name = n /\ Has(o, n, r.inst.model) /\ Has(w, n, i.model)
      BY <1>3, <2>5, <3>0, <3>1 DEF InOrder, Known
    <3>5. o \in Chain[w] \/ w \in Chain[o]  BY <1>0, Comparable
    <3>6. w = o  BY <1>2, <2>5, <2>7, <3>0, <3>3, <3>4, <3>5, OneOwner
    <3>7. i = r.inst  BY <1>2, <2>5, <3>4, <3>6, SameInstance
    <3> QED  BY <3>7
  <2> QED  BY <1>2, <2>6, <2>7
<1> QED  BY <1>a, <1>b

(* subquery.go:55: in a statement that is sent, a field of an alias, or a  *)
(* canonical field accepted for a query of the chain, never means a column *)
(* of another table or alias, however deep the sub-queries are nested and  *)
(* whatever has been registered and joined.  Aliases may be called like    *)
(* tables; the names NeverCaptured excepts are the only ones left out.     *)
THEOREM NotCaptured == Spec => []NeverCaptured
BY NoCapture, Inductive, PTL

(* query.go:113: when a query is cleared and used again, the name of a     *)
(* revoked instance belongs to no other instance, with the exceptions of   *)
(* NamesNeverReused.                                                       *)
THEOREM NotReused == Spec => []NamesNeverReused
BY NamesOnce, Inductive, PTL
=============================================================================
