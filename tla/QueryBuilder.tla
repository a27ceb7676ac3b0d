---------------------------- MODULE QueryBuilder ----------------------------
(***************************************************************************)
(* The life of one builder object: a Query[T] or an Updater[T].            *)
(*                                                                         *)
(* Chain calls (Eq, And, Select, As, ...) cannot return an error, so they  *)
(* accumulate state and errors in the object; a terminal method of the     *)
(* Repository checks the errors, appends the permission rules of the       *)
(* object's context once, builds SQL and sends it.  The object may be      *)
(* reused after a terminal method and may be reset by Clear.               *)
(*                                                                         *)
(* Data is abstracted to counts: which columns and values a condition has  *)
(* plays no role here (the meaning of the WHERE clause is the subject of   *)
(* WhereClause).  Kept are both error buckets, the once-only flag, the     *)
(* attached sub-query, the alias table and the fields that the terminals   *)
(* read or change.  A nil query, updater or defaults is refused before     *)
(* anything is read or changed; that is left out.                          *)
(***************************************************************************)
EXTENDS DataRules, FiniteSets

CONSTANTS
    Rules,       \* the DataRule values a context may carry
    AliasNames,  \* names used with As
    Strengths,   \* lock strengths callers ask for
    MaxConds,    \* bound: top-level business conditions since the last Clear
    MaxSelects   \* bound: projection items since the last Clear

ASSUME RulesAssumption == Rules \subseteq DataRule
ASSUME BoundsAssumption == MaxConds \in Nat /\ MaxSelects \in Nat

VARIABLES
    kind,            \* "query" or "updater"
    ctxRules,        \* the rules found under DataRuleKey in the builder's ctx
    biz,             \* number of conditions without isDataRule
    ruled,           \* per rule, number of conditions with isDataRule
    dataRuleApplied,
    errs,            \* own error bucket: which kinds of error it holds
    coreErrs,        \* chain-level error bucket (queryCore.errs)
    aliases,         \* queryCore.aliases: "free", "live" or "revoked" per name
    sub,             \* the Subquerier values held by conditions
    selects,         \* number of projection items
    distinct,
    lock,            \* lockStrength
    paging,          \* one of the fields limit and offset is positive
    setMap,          \* the Updater has at least one assignment
    out              \* what the last call returned and sent to the database

rulesState == <<ruled, dataRuleApplied>>
errState   == <<errs, coreErrs>>
shape      == <<selects, distinct, lock, paging, setMap>>
identity   == <<kind, ctxRules>>
vars == <<identity, biz, rulesState, errState, aliases, sub, shape, out>>

Appended(rs)  == {r \in rs : RuleOutcome(r) = "appended"}
Rejecting(rs) == {r \in rs : RuleOutcome(r) = "rejected"}

NoRules  == [r \in Rules |-> 0]
NoResult == [op |-> "none", err |-> "none", sql |-> {}]
Failure(op, e) == [op |-> op, err |-> e, sql |-> {}]

-----------------------------------------------------------------------------
(* Building SQL.                                                           *)

Locks == Strengths \cup {"", "UPDATE"}

(* What BuildQuery, BuildCount, BuildUpdate and BuildDelete take from the  *)
(* builder, the path being named by the kind of statement: all apply the   *)
(* WHERE, only BuildQuery the lock.                                        *)
Statement(path, r) ==
    [path  |-> path,
     conds |-> IF path = "INSERT" THEN 0 ELSE biz,
     rules |-> IF path = "INSERT" THEN NoRules ELSE r,
     lock  |-> IF path = "SELECT" THEN lock' ELSE ""]

(* GetError: both buckets empty.                                           *)
GetError == errs # {} \/ coreErrs # {}

(* Mutation: the short circuit reads the own bucket only.                  *)
trackedErrOwnOnly == errs' # {}

(* trackedErr, the short circuit at the head of each Build* closure.       *)
trackedErr == errs' # {} \/ coreErrs' # {}

(* Running the Build* scopes: a tracked error, or an error of an attached  *)
(* sub-query read at this moment, leaves an error in the session and no    *)
(* statement is sent.                                                      *)
Run(op, paths, r) ==
    IF trackedErr \/ sub = "broken" THEN Failure(op, "build")
    ELSE [op |-> op, err |-> "none", sql |-> {Statement(p, r) : p \in paths}]

(* Query.DataRuleBuilder / Updater.DataRuleBuilder: only the first call    *)
(* since NewQuery or Clear does anything.                                  *)
RuleErrs(rs) == IF Rejecting(rs) = {} THEN {} ELSE {"rule"}
WithRules(rs) == [r \in Rules |-> IF r \in Appended(rs) THEN ruled[r] + 1
                                                       ELSE ruled[r]]
AppendRules == /\ dataRuleApplied' = TRUE
               /\ ruled' = WithRules(ctxRules)
               /\ errs' = errs \cup RuleErrs(ctxRules)

(* Mutation: the once-only flag is not consulted.                          *)
ApplyRulesAgain == AppendRules

ApplyRules == IF dataRuleApplied
              THEN UNCHANGED <<ruled, dataRuleApplied, errs>>
              ELSE AppendRules

-----------------------------------------------------------------------------
Init ==
    /\ kind \in {"query", "updater"}
    /\ ctxRules \in SUBSET Rules
    /\ biz = 0 /\ ruled = NoRules /\ dataRuleApplied = FALSE
    /\ errs = {} /\ coreErrs = {}
    /\ aliases = [n \in AliasNames |-> "free"]
    /\ sub = "none"
    /\ selects = 0 /\ distinct = FALSE /\ lock = "" /\ paging = FALSE
    /\ setMap = FALSE
    /\ out = NoResult

-----------------------------------------------------------------------------
(* Chain calls.  An argument may be fine, wrong in itself ("argument": an  *)
(* empty fragment, a nil function, an unknown plain value) or a field      *)
(* pointer no alias and no model owns ("pointer").                         *)

Arguments == {"ok", "argument", "pointer"}

(* resolveColumnNameAny: the chain look-up reports a pointer to the core,  *)
(* the package-level look-up of anything else reports to its caller only.  *)
resolveColumnNameAny(arg) ==
    coreErrs' = IF arg = "pointer" THEN coreErrs \cup {"chain"} ELSE coreErrs

(* The chain call then adds the error to its own bucket.                   *)
Accept(arg) == /\ errs' = IF arg = "ok" THEN errs ELSE errs \cup {"call"}
               /\ resolveColumnNameAny(arg)
Reject(arg) == Accept(arg) /\ UNCHANGED <<biz, aliases, sub, shape>>

(* Eq, In, Between, WhereRaw, ...                                          *)
addCond(arg) ==
    /\ IF arg = "ok" THEN /\ biz < MaxConds /\ biz' = biz + 1
                          /\ UNCHANGED <<errState, aliases, sub, shape>>
                     ELSE Reject(arg)
    /\ out' = NoResult
    /\ UNCHANGED <<identity, rulesState>>

(* And(fn) and Or(fn): fn fills a sub-builder that shares the core; its    *)
(* errors and its conditions are both taken over.                          *)
Group(conds, arg) ==
    /\ biz < MaxConds
    /\ biz' = biz + conds
    /\ Accept(arg)
    /\ out' = NoResult
    /\ UNCHANGED <<identity, rulesState, aliases, sub, shape>>

(* The condition keeps the Subquerier itself, "sound" or "broken" by an    *)
(* error of its own.                                                       *)
Attach(s) ==
    /\ biz < MaxConds /\ biz' = biz + 1
    /\ sub' = IF sub = "broken" THEN "broken" ELSE s
    /\ out' = NoResult
    /\ UNCHANGED <<identity, rulesState, coreErrs, aliases, shape>>
AttachNil == Reject("argument") /\ out' = NoResult /\ UNCHANGED <<identity, rulesState>>

(* InSub, EqSub, GtSub, ...: an error of the sub-query is read when SQL is *)
(* built.                                                                  *)
InSub(s) == IF s = "nil" THEN AttachNil ELSE Attach(s) /\ UNCHANGED errs

(* Exists, NotExists, ...: an error the sub-query has by now is taken over,*)
(* and the condition is appended all the same.                             *)
Exists(s) ==
    IF s = "nil" THEN AttachNil
    ELSE Attach(s) /\ errs' = IF s = "broken" THEN errs \cup {"call"} ELSE errs

(* A chain call on an attached sub-query fails after it was attached.      *)
SubFails ==
    /\ sub = "sound"
    /\ sub' = "broken"
    /\ out' = NoResult
    /\ UNCHANGED <<identity, biz, rulesState, errState, aliases, shape>>

(* As: a name met again in the chain, revoked entries included, is an      *)
(* error of the core; the first instance is returned.                      *)
As(n) ==
    /\ IF aliases[n] = "free"
       THEN aliases' = [aliases EXCEPT ![n] = "live"] /\ UNCHANGED coreErrs
       ELSE coreErrs' = coreErrs \cup {"chain"} /\ UNCHANGED aliases
    /\ out' = NoResult
    /\ UNCHANGED <<identity, biz, rulesState, errs, sub, shape>>

(* A condition on a field of an alias instance; a revoked instance does    *)
(* not resolve.                                                            *)
AliasCond(n) == /\ aliases[n] # "free"
                /\ addCond(IF aliases[n] = "live" THEN "ok" ELSE "pointer")

(* Select and Distinct take several columns: those that resolve become     *)
(* projection items, also when another one does not.                       *)
Project(cols, arg) ==
    /\ kind = "query"
    /\ selects + cols <= MaxSelects /\ selects' = selects + cols
    /\ Accept(arg)
    /\ out' = NoResult
    /\ UNCHANGED <<identity, biz, rulesState, aliases, sub, lock, paging, setMap>>
Select(cols, arg)   == Project(cols, arg) /\ UNCHANGED distinct
Distinct(cols, arg) == Project(cols, arg) /\ distinct' = TRUE

LockWithOpt(s) ==
    /\ kind = "query"
    /\ lock' = s
    /\ out' = NoResult
    /\ UNCHANGED <<identity, biz, rulesState, errState, aliases, sub,
                   selects, distinct, paging, setMap>>

(* Limit, Offset and Page set the fields, to zero as well, which leaves    *)
(* one of them positive or none.  (Page with a product that overflows is   *)
(* one more call with a wrong argument.)                                   *)
Paginate(positive) ==
    /\ kind = "query"
    /\ paging' = positive
    /\ out' = NoResult
    /\ UNCHANGED <<identity, biz, rulesState, errState, aliases, sub,
                   selects, distinct, lock, setMap>>

Set(arg) ==
    /\ kind = "updater"
    /\ IF arg = "ok" THEN /\ setMap' = TRUE
                          /\ UNCHANGED <<biz, errState, aliases, sub, selects,
                                         distinct, lock, paging>>
                     ELSE Reject(arg)
    /\ out' = NoResult
    /\ UNCHANGED <<identity, rulesState>>

DataRuleBuilder ==
    /\ ApplyRules
    /\ out' = NoResult
    /\ UNCHANGED <<identity, biz, coreErrs, aliases, sub, shape>>

(* Mutation: Clear drops the rule conditions but leaves the flag set.      *)
ForgetRulesKeepFlag == ruled' = NoRules /\ UNCHANGED dataRuleApplied

ForgetRules == ruled' = NoRules /\ dataRuleApplied' = FALSE

(* Query.Clear and Updater.Clear: everything but the context and the       *)
(* alias entries, which stay behind as revoked.                            *)
Clear ==
    /\ biz' = 0 /\ ForgetRules
    /\ errs' = {} /\ coreErrs' = {}
    /\ aliases' = [n \in AliasNames |->
                     IF aliases[n] = "free" THEN "free" ELSE "revoked"]
    /\ sub' = "none"
    /\ selects' = 0 /\ distinct' = FALSE /\ lock' = "" /\ paging' = FALSE
    /\ setMap' = FALSE
    /\ out' = NoResult
    /\ UNCHANGED identity

-----------------------------------------------------------------------------
(* Terminal methods.                                                       *)

Refuse(op, e) ==
    /\ out' = Failure(op, e)
    /\ UNCHANGED <<biz, rulesState, errState, aliases, sub, shape>>

(* GetError, DataRuleBuilder().GetError(), then the result.                *)
Checked(op, result) ==
    IF GetError THEN Refuse(op, "builder")
    ELSE /\ ApplyRules
         /\ UNCHANGED <<biz, coreErrs, aliases, sub, shape>>
         /\ out' = IF errs' # {} THEN Failure(op, "builder") ELSE result

(* The result is what the Build* scopes make of the builder.               *)
Ruled(op, paths) == Checked(op, Run(op, paths, ruled'))

OnQuery == kind = "query" /\ UNCHANGED identity
OnUpdater == kind = "updater" /\ UNCHANGED identity

GetOneTx == OnQuery /\ Ruled("GetOne", {"SELECT"})
LastTx   == OnQuery /\ Ruled("Last", {"SELECT"})
ListTx   == OnQuery /\ Ruled("List", {"SELECT"})
CountTx  == OnQuery /\ Ruled("Count", {"COUNT"})
FindAsTx == OnQuery /\ Ruled("FindAs", {"SELECT"})
ChunkTx  == OnQuery /\ Ruled("Chunk", {"SELECT"})
ToSQL    == OnQuery /\ Ruled("ToSQL", {})

(* Exists limits a copy of the query, never the caller's object.           *)
ExistsTx == OnQuery /\ Ruled("Exists", {"SELECT"})

(* COUNT first unless it is skipped; no list query when it yields 0.       *)
PageTx ==
    \E paths \in {{"COUNT"}, {"COUNT", "SELECT"}, {"SELECT"}} :
        OnQuery /\ Ruled("Page", paths)

FindOneAsTx ==
    /\ OnQuery
    /\ IF paging THEN Refuse("FindOneAs", "ErrFindOneAsConflict")
                 ELSE Ruled("FindOneAs", {"SELECT"})

(* Pluck and aggregate resolve their column before the rules are applied;  *)
(* a pointer that does not resolve stays behind as an error of the core.   *)
OfColumn(op, arg, path) ==
    IF ~GetError /\ arg # "ok"
    THEN /\ resolveColumnNameAny(arg)
         /\ out' = Failure(op, "column")
         /\ UNCHANGED <<biz, rulesState, errs, aliases, sub, shape>>
    ELSE Ruled(op, {path})
PluckTx(arg)   == OnQuery /\ OfColumn("Pluck", arg, "SELECT")
aggregate(arg) == OnQuery /\ OfColumn("aggregate", arg, "COUNT")

(* The default write lock is set before the rules are looked at and stays. *)
GetByLock(tx) ==
    /\ OnQuery
    /\ IF ~tx THEN Refuse("GetByLock", "ErrTransactionReq")
       ELSE IF GetError THEN Refuse("GetByLock", "builder")
       ELSE /\ lock' = IF lock = "" THEN "UPDATE" ELSE lock
            /\ ApplyRules
            /\ UNCHANGED <<biz, coreErrs, aliases, sub,
                           selects, distinct, paging, setMap>>
            /\ out' = IF errs' # {} THEN Failure("GetByLock", "builder")
                      ELSE Run("GetByLock", {"SELECT"}, ruled')

(* First in a transaction on the COUNT path, then maybe Create(defaults).  *)
FirstOrCreate ==
    \E paths \in {{"COUNT"}, {"COUNT", "INSERT"}} :
        OnQuery /\ Ruled("FirstOrCreate", paths)

(* FirstOrUpdate has two builders.  Here is its query; `updater` is what   *)
(* the other one has: no assignment, an error, a rejected rule, or nothing *)
(* wrong.  The rules are applied after both GetErrors, the query's first.  *)
(* (A failure inside the transaction is FirstOr's.)                        *)
FirstOrUpdateQuery(updater) ==
    /\ OnQuery
    /\ IF updater = "empty" THEN Refuse("FirstOrUpdate", "ErrUpdateEmpty")
       ELSE IF updater = "faulty" /\ ~GetError THEN Refuse("FirstOrUpdate", "updater")
       ELSE IF updater = "illegal"
       THEN Checked("FirstOrUpdate", Failure("FirstOrUpdate", "updater"))
       ELSE \E paths \in {{"COUNT"}, {"COUNT", "INSERT"}} : Ruled("FirstOrUpdate", paths)

(* Here is the updater of FirstOrUpdate; `query` is what the other one has *)
(* or does.  If it finds no row, the updater is checked and not used: a    *)
(* broken sub-query in it stays unnoticed.                                 *)
NotUsed(op) == [op |-> op, err |-> "none", sql |-> {}]
FirstOrUpdateUpdater(query) ==
    /\ OnUpdater
    /\ IF ~setMap THEN Refuse("FirstOrUpdate", "ErrUpdateEmpty")
       ELSE IF query = "faulty" \/ (query = "illegal" /\ ~GetError)
       THEN Refuse("FirstOrUpdate", "query")
       ELSE IF query = "misses" THEN Checked("FirstOrUpdate", NotUsed("FirstOrUpdate"))
       ELSE Ruled("FirstOrUpdate", {"UPDATE"})

(* Mutation: the guards against a statement without WHERE never fire.      *)
NoConditionsNever(r) == FALSE

(* Query.IsEmpty: len(conditions) = 0, rule conditions included.           *)
NoConditions(r) == biz = 0 /\ \A x \in Rules : r[x] = 0

DeleteByCondTx ==
    /\ OnQuery
    /\ IF NoConditions(ruled) THEN Refuse("DeleteByCond", "ErrDeleteEmpty")
                              ELSE Ruled("DeleteByCond", {"DELETE"})
RestoreByCondTx ==
    /\ OnQuery
    /\ IF NoConditions(ruled) THEN Refuse("RestoreByCond", "ErrRestoreEmpty")
                              ELSE Ruled("RestoreByCond", {"UPDATE"})

(* UpdateByCond and IncrBy count the conditions after the rules are added. *)
RuledUpdate(op, resolves, paths) ==
    Checked(op, IF NoConditions(ruled') THEN Failure(op, "ErrUpdateNoCondition")
                ELSE IF ~resolves THEN Failure(op, "column")
                ELSE Run(op, paths, ruled'))
IncrByTx(resolves) == OnUpdater /\ RuledUpdate("IncrBy", resolves, {"UPDATE"})

(* Updater.ToSQL goes the way of UpdateByCond and sends nothing.           *)
Updating(op, paths) ==
    /\ OnUpdater
    /\ IF ~setMap THEN Refuse(op, "ErrUpdateEmpty") ELSE RuledUpdate(op, TRUE, paths)
UpdateByCondTx == Updating("UpdateByCond", {"UPDATE"})
ToUpdateSQL    == Updating("ToUpdateSQL", {})

(* UpdateByIds: a fresh query carries the rules of the ctx argument, the   *)
(* updater contributes its conditions and never applies its own rules.     *)
UpdateByIdsTx(rs) ==
    /\ OnUpdater
    /\ IF ~setMap THEN Refuse("UpdateByIds", "ErrUpdateEmpty")
       ELSE IF GetError THEN Refuse("UpdateByIds", "builder")
       ELSE IF Rejecting(rs) # {} THEN Refuse("UpdateByIds", "rules")
       ELSE /\ UNCHANGED <<biz, rulesState, errState, aliases, sub, shape>>
            /\ out' = Run("UpdateByIds", {"UPDATE"}, WithRules(rs))

(* The exported Build* closures and ToDB: no rules are added, the short    *)
(* circuit is the only check.                                              *)
BuildDirect(path) ==
    /\ UNCHANGED <<identity, biz, rulesState, errState, aliases, sub, shape>>
    /\ out' = Run("Build", {path}, ruled)

(* InsertSelect: src is used as it is, DataRules are not applied.          *)
InsertSelect(op, projected, matches) ==  \* distinct stands for Omit as well
    IF distinct THEN Failure(op, "ErrInsertSelectModifier")
    ELSE IF projected = 0 THEN Failure(op, "ErrInsertSelectNoProjection")
    ELSE IF ~matches THEN Failure(op, "ErrInsertSelectColMismatch")
    ELSE Run(op, {"SELECT"}, ruled)

InsertSelectTx(matches) ==
    /\ OnQuery
    /\ IF GetError THEN Refuse("InsertSelect", "builder")
       ELSE /\ UNCHANGED <<biz, rulesState, errState, aliases, sub, shape>>
            /\ out' = InsertSelect("InsertSelect", selects, matches)

(* Phase A resolves every pair: a bad target leaves src alone, a bad       *)
(* source expression leaves its error in src.errs.  Phase B appends the    *)
(* projections and only then runs the checks of InsertSelect.              *)
InsertSelectMapTx(cols, pairs) ==
    /\ OnQuery
    /\ IF GetError THEN Refuse("InsertSelectMap", "builder")
       ELSE IF selects > 0 THEN Refuse("InsertSelectMap", "ErrInsertSelectMapConflict")
       ELSE IF pairs = "badTarget" THEN Refuse("InsertSelectMap", "column")
       ELSE IF pairs # "ok"
       THEN /\ Reject(pairs)
            /\ UNCHANGED rulesState
            /\ out' = Failure("InsertSelectMap", "builder")
       ELSE /\ selects' = selects + cols
            /\ UNCHANGED <<biz, rulesState, errState, aliases, sub,
                           distinct, lock, paging, setMap>>
            /\ out' = InsertSelect("InsertSelectMap", selects + cols, TRUE)

-----------------------------------------------------------------------------
Chain ==
    \/ \E arg \in Arguments : addCond(arg) \/ Set(arg)
    \/ \E n \in 0..1, arg \in Arguments :
          Group(n, arg) \/ Select(n, arg) \/ Distinct(n, arg)
    \/ \E s \in {"nil", "sound", "broken"} : InSub(s) \/ Exists(s)
    \/ SubFails
    \/ \E n \in AliasNames : As(n) \/ AliasCond(n)
    \/ \E s \in Strengths : LockWithOpt(s)
    \/ \E positive \in BOOLEAN : Paginate(positive)
    \/ DataRuleBuilder
    \/ Clear

Read ==
    \/ GetOneTx \/ LastTx \/ ListTx \/ CountTx \/ FindAsTx \/ ChunkTx \/ ToSQL
    \/ ExistsTx \/ PageTx \/ FindOneAsTx
    \/ \E arg \in Arguments : PluckTx(arg) \/ aggregate(arg)
    \/ \E tx \in BOOLEAN : GetByLock(tx)

Write ==
    \/ FirstOrCreate \/ DeleteByCondTx \/ RestoreByCondTx \/ UpdateByCondTx \/ ToUpdateSQL
    \/ \E updater \in {"empty", "faulty", "illegal", "sound"} : FirstOrUpdateQuery(updater)
    \/ \E query \in {"faulty", "illegal", "misses", "finds"} : FirstOrUpdateUpdater(query)
    \/ \E resolves \in BOOLEAN : IncrByTx(resolves)
    \/ \E rs \in SUBSET Rules : UpdateByIdsTx(rs)

Unruled ==
    \/ \E path \in {"SELECT", "COUNT", "UPDATE", "DELETE"} : BuildDirect(path)
    \/ \E matches \in BOOLEAN : InsertSelectTx(matches)
    \/ \E cols \in 1..MaxSelects, pairs \in Arguments \cup {"badTarget"} :
          InsertSelectMapTx(cols, pairs)

Next == Chain \/ Read \/ Write \/ Unruled

Spec == Init /\ [][Next]_vars

-----------------------------------------------------------------------------
(* Properties.                                                             *)

Paths == {"SELECT", "COUNT", "UPDATE", "DELETE", "INSERT"}
Statements == [path: Paths, conds: Nat, rules: [Rules -> 0..2], lock: Locks]

(* Types.  The bound 0..1 on ruled is the point of dataRuleApplied: however *)
(* often terminals and DataRuleBuilder are called between two Clears, no    *)
(* rule is appended twice to one builder (query.go:1013).                   *)
TypeOK ==
    /\ kind \in {"query", "updater"} /\ ctxRules \subseteq Rules
    /\ biz \in Nat /\ ruled \in [Rules -> 0..1]
    /\ dataRuleApplied \in BOOLEAN
    /\ errs \subseteq {"call", "rule"} /\ coreErrs \subseteq {"chain"}
    /\ aliases \in [AliasNames -> {"free", "live", "revoked"}]
    /\ sub \in {"none", "sound", "broken"}
    /\ selects \in Nat /\ distinct \in BOOLEAN /\ lock \in Locks
    /\ paging \in BOOLEAN /\ setMap \in BOOLEAN
    /\ out.sql \subseteq Statements

(* One condition per rule that becomes one.                                *)
OncePerRule == [r \in Rules |-> IF r \in Appended(ctxRules) THEN 1 ELSE 0]

(* The once-only flag tells the truth: while it is down no rule condition  *)
(* is in the builder, and once it is up all are, or the error of a         *)
(* rejected rule is still there to stop every statement.  A Clear that     *)
(* forgot one of the two would lose the rules of a reused builder          *)
(* (README.md:1316 records that defect in an earlier release).             *)
RulesOnce ==
    IF dataRuleApplied
    THEN /\ ruled = OncePerRule
         /\ Rejecting(ctxRules) # {} => "rule" \in errs
    ELSE ruled = NoRules

(* The operations that document that they apply the rules of the builder's *)
(* own context.                                                            *)
RuledOps == {"GetOne", "Last", "List", "Count", "FindAs", "Chunk", "Exists",
             "Page", "FindOneAs", "Pluck", "aggregate", "GetByLock",
             "FirstOrCreate", "FirstOrUpdate", "DeleteByCond", "RestoreByCond",
             "UpdateByCond", "IncrBy"}

(* Nothing reaches the database from a builder with an accumulated error:  *)
(* not through a terminal, not through a Build* closure called directly,   *)
(* not when the error sits in the alias core or in a sub-query attached    *)
(* while it was still sound, and not when the context holds a rule that    *)
(* must not be skipped (builder.go, error bucket comment: Build* is the    *)
(* only mandatory interception point).                                     *)
FailClosed ==
    out.sql # {} =>
        /\ errs = {} /\ coreErrs = {} /\ sub # "broken"
        /\ out.op \in RuledOps => \A r \in ctxRules : ~Unsafe(r)

(* Every read, update or delete a ruled operation sends carries each       *)
(* effective rule of the context exactly once, no matter what was called   *)
(* before: other terminals, explicit DataRuleBuilder calls, Clear.         *)
RuleScoped ==
    out.op \in RuledOps =>
        \A s \in out.sql : s.path # "INSERT" =>
            s.rules = OncePerRule

(* No UPDATE or DELETE of a by-condition operation is sent without any     *)
(* condition (ErrDeleteEmpty, ErrRestoreEmpty, ErrUpdateNoCondition).      *)
GuardedWrites ==
    out.op \in {"DeleteByCond", "RestoreByCond", "UpdateByCond", "IncrBy"} =>
        \A s \in out.sql : s.conds > 0 \/ \E r \in Rules : s.rules[r] > 0

(* query.go:69-71 defines an empty query as one without a condition added  *)
(* through the type-safe API, and repository.go:618 says DeleteByCond      *)
(* refuses it always; a query already used by a reading terminal is not    *)
(* refused, its only conditions being the rules that terminal appended.    *)
EmptyQueryNeverDeletes ==
    out.op = "DeleteByCond" => \A s \in out.sql : s.conds > 0

(* The builder implements the contract of BuilderContract: what is sent    *)
(* depends on the calls since the last Clear and the context only.         *)
Contract == INSTANCE BuilderContract WITH
    asked  <- biz,
    faulty <- errs # {} \/ coreErrs # {} \/ sub = "broken"
ImplementsContract == Contract!Spec
=============================================================================
