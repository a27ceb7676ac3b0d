------------------------------ MODULE AliasChain ------------------------------
(***************************************************************************)
(* Aliases, sub-queries and the resolution of field pointers to names.     *)
(*                                                                         *)
(* Every Query and Updater has a core with a table of aliases and possibly *)
(* an outer query.  A field pointer is resolved through the chain of cores *)
(* to the name of a table or alias; in the SQL that is built later this    *)
(* name means what SQL's scoping makes of it: the innermost FROM item that *)
(* is called so.  gplus resolves by address, SQL by name; the module is    *)
(* about the two agreeing.                                                 *)
(*                                                                         *)
(* An instance is identified by who allocated it, the name it was          *)
(* registered under and its model; the canonical instances belong to the   *)
(* registry.  An Updater behaves like a query without main alias.  A       *)
(* sub-query appears in the SQL of its outer query.                        *)
(***************************************************************************)
EXTENDS Naturals, FiniteSets

CONSTANTS
    Queries,      \* numbered in the order of their construction
    Models,
    Names,        \* aliases callers choose
    NoQuery, NoModel, NoName, NoEntry,
    Registry,     \* the owner of canonical instances
    Bare,         \* a column name without prefix
    Unresolved,
    MaxAliases, MaxRefs, MaxJoins,  \* bounds: entries under one of Names, references
                                    \* and JOINs, of all queries together
    MaxRoots,           \* bound: queries made without an outer query
    MaxClears           \* bound: calls of Clear

(* A model stands for the name of its table too (aliasSchemaTableName).    *)
Tables   == Models
AllNames == Names \cup Tables

(* An alias may be the name of a table, also of another model's.           *)
ASSUME NamesAssumption == {NoName, Bare, Unresolved} \cap AllNames = {}
ASSUME NullsAssumption ==
    /\ Queries \subseteq Nat /\ NoQuery \notin Queries /\ Registry \notin Queries /\ NoModel \notin Models
    /\ NoEntry \notin [model : Models, revoked : BOOLEAN]
ASSUME BoundsAssumption == {MaxAliases, MaxRefs, MaxJoins, MaxRoots, MaxClears} \subseteq Nat

VARIABLES
    model,      \* the type parameter of the query, NoModel before it exists
    outer,      \* outerQueryRef
    entries,    \* core.aliases
    mainAlias,
    joined,     \* the instances in its JOINs
    refs,       \* the references in its conditions, projections and ON
    failed,     \* its errors, of either bucket
    clashes,    \* history: names an outer query took after its sub-query
    stale,      \* history: queries below one that was cleared since
    clears      \* calls of Clear so far

vars == <<model, outer, entries, mainAlias, joined, refs, failed, clashes, stale, clears>>

Instance  == [owner : Queries \cup {Registry}, name : AllNames, model : Models]
Canonical(X) == [owner |-> Registry, name |-> X, model |-> X]

Created == {q \in Queries : model[q] # NoModel}

Registered(q) == {n \in AllNames : entries[q][n] # NoEntry}

(* The queries a look-up from q visits; nearer ones have longer chains.    *)
Chain[q \in Queries] ==
    {q} \cup (IF outer[q] = NoQuery THEN {} ELSE Chain[outer[q]])
Nearest(S) == CHOOSE p \in S : S \subseteq Chain[p]

Init ==
    /\ model = [q \in Queries |-> NoModel]
    /\ outer = [q \in Queries |-> NoQuery]
    /\ entries = [q \in Queries |-> [n \in AllNames |-> NoEntry]]
    /\ mainAlias = [q \in Queries |-> NoName]
    /\ joined = [q \in Queries |-> {}]
    /\ refs = [q \in Queries |-> {}]
    /\ failed = [q \in Queries |-> FALSE]
    /\ clashes = {} /\ stale = {} /\ clears = 0

-----------------------------------------------------------------------------
(* Look-up.                                                                *)

Live(i) == entries[i.owner][i.name] = [model |-> i.model, revoked |-> FALSE]

(* lookupAddr and lookupAliasFromChain: an instance of an alias is known   *)
(* at the level that registered it, until that is cleared.                 *)
InChain(q, i) == i.owner \in Chain[q] /\ Live(i)

(* resolveColumnName: after the chain the global column cache, which knows *)
(* every canonical instance; a query that has aliases puts its own table   *)
(* before the column.                                                      *)
LooseName(q, i) ==
    IF i.owner # Registry THEN IF InChain(q, i) THEN i.name ELSE Unresolved
    ELSE IF Registered(q) # {} THEN model[q] ELSE Bare

(* resolveJoinField: a canonical field must belong to a query of the chain *)
(* whose main table has no alias.  The query passed to an And or Or group  *)
(* shares the core of q and does not know its main alias.                  *)
StrictName(q, i, grouped) ==
    IF i.owner # Registry THEN IF InChain(q, i) THEN i.name ELSE Unresolved
    ELSE IF \E p \in Chain[q] : /\ model[p] = i.model
                                /\ mainAlias[p] = NoName \/ (grouped /\ p = q)
         THEN i.model ELSE Unresolved

-----------------------------------------------------------------------------
(* Constructors and registration.                                          *)

(* A sub-query of q, at any depth, already has the name.                   *)
TakenBelow(q, n) ==
    \E s \in Created \ {q} : q \in Chain[s] /\ n \in Registered(s)

Total(sets) == Cardinality(UNION {{<<q, x>> : x \in sets[q]} : q \in Queries})

Fail(q) ==
    failed' = [failed EXCEPT ![q] = TRUE]

Register(q, n, X) ==
    /\ entries' = [entries EXCEPT ![q][n] = [model |-> X, revoked |-> FALSE]]
    /\ Total([p \in Queries |-> {m \in Names : entries'[p][m] # NoEntry}]) <= MaxAliases
    /\ clashes' = IF TakenBelow(q, n) THEN clashes \cup {n} ELSE clashes

Construct(q, X, p) ==
    /\ q \notin Created /\ \A r \in Queries : r < q => r \in Created
    /\ p = NoQuery => Cardinality({r \in Created : outer[r] = NoQuery}) < MaxRoots
    /\ model' = [model EXCEPT ![q] = X]
    /\ outer' = [outer EXCEPT ![q] = p]
    /\ UNCHANGED <<joined, refs, stale, clears>>

(* NewQuery and NewUpdater; also the sub-query of a nil outer query, which *)
(* starts with an error.                                                   *)
NewQuery(q, X) ==
    /\ Construct(q, X, NoQuery)
    /\ Fail(q) \/ UNCHANGED failed
    /\ UNCHANGED <<entries, mainAlias, clashes, stale, clears>>

NewQueryAs(q, X, n) ==
    /\ Construct(q, X, NoQuery)
    /\ Register(q, n, X)
    /\ mainAlias' = [mainAlias EXCEPT ![q] = n]
    /\ UNCHANGED failed

(* The main table is registered under its own name, which is compared with *)
(* nothing; FROM stays without alias.                                      *)
SubQuery(q, p, X) ==
    /\ p \in Created
    /\ Construct(q, X, p)
    /\ Register(q, X, X)
    /\ UNCHANGED <<mainAlias, failed>>

(* Mutation: the outer queries' aliases are not looked at.                 *)
TakenNowhere(q, n) == FALSE

(* The name is known to q or above, revoked entries included.              *)
TakenAbove(q, n) == \E p \in Chain[q] : n \in Registered(p)

SubQueryAs(q, p, X, n) ==
    /\ p \in Created
    /\ Construct(q, X, p)
    /\ Register(q, n, X)
    /\ mainAlias' = [mainAlias EXCEPT ![q] = n]
    /\ IF TakenAbove(p, n) THEN Fail(q) ELSE UNCHANGED failed

(* As: a name of the chain is refused with an error and the first instance *)
(* is returned; with another type it panics and there is no step.          *)
As(q, X, n) ==
    /\ q \in Created
    /\ \/ ~TakenAbove(q, n) /\ Register(q, n, X) /\ UNCHANGED failed
       \/ /\ TakenAbove(q, n)
          /\ entries[Nearest({p \in Chain[q] : n \in Registered(p)})][n].model = X
          /\ Fail(q)
          /\ UNCHANGED <<entries, clashes>>
    /\ UNCHANGED <<model, outer, mainAlias, joined, refs, stale, clears>>

-----------------------------------------------------------------------------
(* Chain calls that take field pointers.                                   *)

(* The instances callers have been given; a revoked one is still theirs.   *)
Instances ==
    {Canonical(X) : X \in Models} \cup
    UNION {{[owner |-> q, name |-> n, model |-> entries[q][n].model] : n \in Registered(q)} :
           q \in Created}

Reference(i, n, via) == [inst |-> i, name |-> n, via |-> via]

(* Mutation: the error of the resolution is not looked at.                 *)
RecordUnresolved(q, new) ==
    /\ q \in Created
    /\ refs' = [refs EXCEPT ![q] = @ \cup new]
    /\ Total(refs') <= MaxRefs
    /\ UNCHANGED <<model, outer, entries, mainAlias, failed, clashes, stale, clears>>

(* A reference is recorded when its pointer resolves.                      *)
Record(q, new) ==
    /\ q \in Created
    /\ \A r \in new : r.name # Unresolved
    /\ refs' = [refs EXCEPT ![q] = @ \cup new]
    /\ Total(refs') <= MaxRefs
    /\ UNCHANGED <<model, outer, entries, mainAlias, failed, clashes, stale, clears>>

Loose(q, ids) ==
    {Reference(i, LooseName(q, i), IF i.owner = Registry THEN "cache" ELSE "chain") : i \in ids}
Strict(q, ids, grouped) ==
    {Reference(i, StrictName(q, i, grouped), "chain") : i \in ids}

(* Eq, In, Select, Order, Set, ...: one pointer.                           *)
Condition(q, i) == Record(q, Loose(q, {i})) /\ UNCHANGED joined

(* SelectAs, or one side of EqColumn, in the query or in a group of it. If *)
(* the other side fails, the query has an error and this one is not sent.  *)
EqColumn(q, i, grouped) == Record(q, Strict(q, {i}, grouped)) /\ UNCHANGED joined

(* The instance comes from the chain, its table appears in the FROM of q.  *)
Join(q, a) ==
    /\ a.owner # Registry /\ InChain(q, a)
    /\ joined' = [joined EXCEPT ![q] = @ \cup {a}]
    /\ Total(joined') <= MaxJoins

(* LeftJoinAs, ... with ON columns, CrossJoinAs and NaturalJoinAs without. *)
JoinAs(q, a) ==
    /\ Join(q, a)
    /\ \E ids \in {{}} \cup {{c} : c \in Instances} : Record(q, Loose(q, ids))

(* LeftJoinAsOn and InnerJoinAsOn.                                         *)
JoinAsOn(q, a) == Join(q, a) /\ \E c \in Instances : Record(q, Strict(q, {c}, FALSE))

(* Any of these calls with a pointer that does not resolve or an instance  *)
(* that cannot be joined records nothing and leaves an error.              *)
Refused(q) ==
    /\ q \in Created
    /\ \E i \in Instances :
          \/ LooseName(q, i) = Unresolved \/ StrictName(q, i, FALSE) = Unresolved
          \/ i.owner = Registry \/ ~InChain(q, i)
    /\ Fail(q)
    /\ UNCHANGED <<model, outer, entries, mainAlias, joined, refs, clashes, stale, clears>>

(* Mutation: the entries are removed instead of revoked.                   *)
AfterClearEmpty(table) == [n \in AllNames |-> NoEntry]

AfterClear(table) ==
    [n \in AllNames |-> IF table[n] = NoEntry THEN NoEntry
                        ELSE [table[n] EXCEPT !.revoked = TRUE]]

(* Clear: instances are revoked and keep their names occupied, the link to *)
(* the outer query is cut; sub-queries keep their link to q.               *)
Clear(q) ==
    /\ q \in Created
    /\ clears < MaxClears /\ clears' = clears + 1
    /\ entries' = [entries EXCEPT ![q] = AfterClear(@)]
    /\ outer' = [outer EXCEPT ![q] = NoQuery]
    /\ mainAlias' = [mainAlias EXCEPT ![q] = NoName]
    /\ joined' = [joined EXCEPT ![q] = {}]
    /\ refs' = [refs EXCEPT ![q] = {}]
    /\ failed' = [failed EXCEPT ![q] = FALSE]
    /\ stale' = (stale \cup {s \in Created : q \in Chain[s]}) \ {q}
    /\ UNCHANGED <<model, clashes>>

(* Bound: while a query has an error, which is what keeps its statement    *)
(* from being sent, only calls that fail again and Clear are made.         *)
ChainCall(q) ==
    \/ \E X \in Models :
          \/ NewQuery(q, X)
          \/ \E n \in Names : NewQueryAs(q, X, n) \/ As(q, X, n)
          \/ \E p \in Queries : SubQuery(q, p, X) \/ \E n \in Names : SubQueryAs(q, p, X, n)
    \/ \E i \in Instances :
          \/ Condition(q, i)
          \/ \E grouped \in BOOLEAN : EqColumn(q, i, grouped)
          \/ JoinAs(q, i) \/ JoinAsOn(q, i)

Next == \E q \in Queries :
            \/ (\A p \in Queries : ~failed[p]) /\ ChainCall(q)
            \/ (\A p \in Queries \ {q} : ~failed[p]) /\ Refused(q)
            \/ Clear(q)

Spec == Init /\ [][Next]_vars

-----------------------------------------------------------------------------
(* What the names mean in the SQL (external): the innermost query around a *)
(* reference that has a FROM item of that name.                            *)

MainName(q) == IF mainAlias[q] = NoName THEN model[q] ELSE mainAlias[q]

(* The instances that stand for the main table: the one of the main alias, *)
(* or the canonical one and the one SubQuery returned.                     *)
MainInstances(q) ==
    LET own == [owner |-> q, name |-> MainName(q), model |-> model[q]]
    IN  IF mainAlias[q] = NoName THEN {own, Canonical(model[q])} ELSE {own}

Provides(q, n) == MainName(q) = n \/ \E a \in joined[q] : a.name = n
ItemsOf(q, n) == {a \in joined[q] : a.name = n} \cup
                 (IF MainName(q) = n THEN MainInstances(q) ELSE {})

(* The instances a reference made in q reaches; a name without prefix is   *)
(* looked for in q itself.                                                 *)
Reached(q, r) ==
    LET scopes == {p \in Chain[q] : Provides(p, r.name)}
    IN  IF r.name = Bare THEN MainInstances(q)
        ELSE IF scopes = {} THEN {} ELSE ItemsOf(Nearest(scopes), r.name)

(* No error on the way out: the statement around q is sent.                *)
Sent(q) == \A p \in Chain[q] : ~failed[p]

-----------------------------------------------------------------------------
(* Properties.                                                             *)

(* Every variable has its type; what is recorded has a name.               *)
TypeOK ==
    /\ model \in [Queries -> Models \cup {NoModel}]
    /\ outer \in [Queries -> Queries \cup {NoQuery}]
    /\ \A q \in Queries, n \in AllNames :
          entries[q][n] \in {NoEntry} \cup [model : Models, revoked : BOOLEAN]
    /\ mainAlias \in [Queries -> Names \cup {NoName}]
    /\ joined \in [Queries -> SUBSET Instance]
    /\ \A q \in Queries : \A r \in refs[q] :
          r.inst \in Instance /\ r.name \in AllNames \cup {Bare}
    /\ failed \in [Queries -> BOOLEAN] /\ clashes \subseteq AllNames
    /\ stale \subseteq Queries /\ clears \in 0..MaxClears

(* The models a name stands for in the alias table and the FROM of p, with *)
(* those of revoked entries; and whether they differ along a chain, which  *)
(* takes an alias called like another model's table.                       *)
Calls(p, n) ==
    {X \in Models : \/ entries[p][n] # NoEntry /\ entries[p][n].model = X
                    \/ n = X /\ model[p] = X}
Mixed(q, n) ==
    n \in Tables /\ \E p, s \in Chain[q] :
                        \E X \in Calls(p, n), Y \in Calls(s, n) : X # Y

(* alias.go:24 and subquery.go:55: in a statement that is sent, a field of *)
(* an alias instance, or a canonical field that is accepted for a query of *)
(* the chain, never means a column of another table or alias, whatever     *)
(* sub-queries are nested, aliases registered and tables joined in any of  *)
(* them.  The code does not promise it                                     *)
(*  - for a name an outer query takes after its sub-query did (clashes);   *)
(*  - below a query that was cleared, which has forgotten the names further*)
(*    out and may take them itself (stale; NamesNeverReused is about what  *)
(*    still holds then);                                                   *)
(*  - for an alias called like the table of another model in the same      *)
(*    chain (Mixed).  README.md:1442 and subquery.go:72 do ask for it: an  *)
(*    inner main alias must not be the name of a visible outer alias.  But *)
(*    SubQuery takes the name of its table without looking (subquery.go:44)*)
(*    and As and NewQueryAs take names of tables;                          *)
(*  - for a canonical field of another model given to Eq, Select, Order or *)
(*    a JOIN, which finds it in the global cache (OuterFieldMeansOuter is  *)
(*    about it);                                                           *)
(*  - between items of one model that all go by the name of its table:     *)
(*    README.md:1433 asks for main aliases there, and the field may mean   *)
(*    the inner item, though never one of another model.                   *)
NeverCaptured ==
    \A q \in Created : \A r \in refs[q] :
        /\ Sent(q) /\ Chain[q] \cap stale = {}
        /\ r.name \notin clashes /\ ~Mixed(q, r.name)
        /\ r.via = "cache" => r.inst.model = model[q]
        => \/ Reached(q, r) = {} \/ r.inst \in Reached(q, r)
           \/ r.name = r.inst.model /\ \A i \in Reached(q, r) : i.model = r.inst.model

(* query.go:113: sub-queries keep their references when an outer query is  *)
(* cleared and used again; in its next life the name of a revoked instance *)
(* belongs to no other instance, so a reference left behind is an error of *)
(* the database and never a column of another table.  The exceptions are   *)
(* those of NeverCaptured.                                                 *)
NamesNeverReused ==
    \A q \in Created : \A r \in refs[q] :
        LET p == r.inst.owner IN
        /\ p # Registry /\ p \notin stale /\ ~failed[p]
        /\ r.name \notin clashes /\ ~Mixed(p, r.name)
        => \A i \in ItemsOf(p, r.name) :
               i = r.inst \/ (r.name = r.inst.model /\ i.model = r.inst.model)

(* query.go:1388: a sub-query may refer to fields of the canonical instance*)
(* of an outer query.  With Eq, Select or a JOIN the column gets the table *)
(* of the sub-query.                                                       *)
OuterFieldMeansOuter ==
    \A q \in Created : \A r \in refs[q] :
        /\ Sent(q) /\ r.via = "cache" /\ model[q] # r.inst.model
        /\ \E p \in Chain[q] : model[p] = r.inst.model /\ mainAlias[p] = NoName
        => r.inst \in Reached(q, r)
=============================================================================
