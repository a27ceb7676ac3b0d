------------------------- MODULE QueryBuilderProofs -------------------------
(***************************************************************************)
(* For every set of rules, every set of alias names and all bounds: the    *)
(* type invariant of QueryBuilder, the permission rules are applied exactly *)
(* once, nothing is sent from a faulty builder, no write by condition goes *)
(* without one, and BuilderContract is implemented.                        *)
(*                                                                         *)
(* The inductive invariant is IInv.  RuleScoped alone is not inductive:    *)
(* that the statement of a terminal carries each rule once follows from    *)
(* the state before it only through RulesOnce, and RulesOnce says that a   *)
(* raised flag with missing conditions can only be seen together with an   *)
(* error that stops the statement.  For the contract a step is classified  *)
(* by what its caller sees of it (Visible).                                *)
(***************************************************************************)
EXTENDS QueryBuilder, TLAPS

IInv == TypeOK /\ RulesOnce /\ FailClosed /\ RuleScoped

(* A rule that must not be skipped always leaves an error in the builder   *)
(* (applyDataRule).                                                        *)
LEMMA UnsafeRejected ==
    ASSUME NEW r \in DataRule, Unsafe(r)
    PROVE  RuleOutcome(r) = "rejected"
BY DEF DataRule, Tables, Columns, Conditions, ValueOps, Unsafe, RuleOutcome,
       ColumnResolves, Ignored

(* With no rejected rule in the context there is no unsafe one.            *)
LEMMA NothingUnsafe ==
    ASSUME ctxRules \subseteq Rules, Rejecting(ctxRules) = {}
    PROVE  \A r \in ctxRules : ~Unsafe(r)
BY UnsafeRejected, RulesAssumption DEF Rejecting

(* ApplyRules keeps the flag truthful and the counts within 0..1.          *)
LEMMA ApplyRulesOnce ==
    ASSUME TypeOK, RulesOnce, ApplyRules, UNCHANGED identity
    PROVE  /\ RulesOnce' /\ dataRuleApplied'
           /\ dataRuleApplied' \in BOOLEAN
           /\ ruled' \in [Rules -> 0..1]
           /\ errs' \subseteq {"call", "rule"} /\ errs \subseteq errs'
           /\ errs' = {} => /\ Rejecting(ctxRules) = {}
                            /\ ruled' = OncePerRule
<1>0. ctxRules' = ctxRules  BY DEF identity
<1>1. OncePerRule' = OncePerRule /\ Rejecting(ctxRules)' = Rejecting(ctxRules)
  BY <1>0 DEF OncePerRule, Appended, Rejecting
<1>2. OncePerRule \in [Rules -> 0..1]
  BY DEF OncePerRule
<1>3. CASE dataRuleApplied
  BY <1>1, <1>2, <1>3 DEF TypeOK, RulesOnce, ApplyRules
<1>4. CASE ~dataRuleApplied
  <2>1. ruled = NoRules  BY <1>4 DEF RulesOnce
  <2>2. ruled' = WithRules(ctxRules) /\ dataRuleApplied' = TRUE
        /\ errs' = errs \cup RuleErrs(ctxRules)
    BY <1>4 DEF ApplyRules, AppendRules
  <2>3. WithRules(ctxRules) = OncePerRule
    BY <2>1 DEF WithRules, OncePerRule, NoRules
  <2> QED  BY <1>1, <1>2, <2>2, <2>3 DEF TypeOK, RulesOnce, RuleErrs
<1> QED  BY <1>3, <1>4

(* What a terminal sends: well-formed statements carrying the rules r, and *)
(* none unless both buckets are empty and no sub-query is broken.          *)
LEMMA RunSound ==
    ASSUME NEW op, NEW paths \in SUBSET Paths, NEW r \in [Rules -> 0..2],
           biz \in Nat, lock' \in Locks, out' = Run(op, paths, r)
    PROVE  /\ out'.op = op
           /\ out'.sql \subseteq Statements
           /\ out'.sql # {} => errs' = {} /\ coreErrs' = {} /\ sub # "broken"
           /\ \A s \in out'.sql : s.path # "INSERT" => s.rules = r
<1>1. NoRules \in [Rules -> 0..2]  BY DEF NoRules
<1>2. \A p \in Paths : Statement(p, r) \in Statements
  BY <1>1 DEF Statement, Statements, Paths, Locks
<1>3. \A p \in Paths : Statement(p, r).path = p
                      /\ (p # "INSERT" => Statement(p, r).rules = r)
  BY DEF Statement
<1> QED  BY <1>2, <1>3 DEF Run, Failure, trackedErr

(* A failure sends nothing.                                                *)
LEMMA FailureSound ==
    ASSUME NEW op, NEW e, out' = Failure(op, e)
    PROVE  out'.op = op /\ out'.sql = {}
BY DEF Failure

(* The fields a step may change freely within their types.                 *)
FlagsOK == distinct \in BOOLEAN /\ setMap \in BOOLEAN
RangesOK ==
    /\ kind \in {"query", "updater"} /\ ctxRules \subseteq Rules
    /\ biz \in Nat
    /\ coreErrs \subseteq {"chain"}
    /\ aliases \in [AliasNames -> {"free", "live", "revoked"}]
    /\ sub \in {"none", "sound", "broken"}
    /\ selects \in Nat /\ lock \in Locks 
    /\ paging \in BOOLEAN
FieldsOK == FlagsOK /\ RangesOK

LEMMA TypedFields == TypeOK => FieldsOK /\ errs \subseteq {"call", "rule"}
<1>1. TypeOK => FlagsOK  BY DEF TypeOK, FlagsOK
<1>2. TypeOK => RangesOK /\ errs \subseteq {"call", "rule"}
  BY DEF TypeOK, RangesOK
<1> QED  BY <1>1, <1>2 DEF FieldsOK

(* A step that sends nothing and leaves the rules of the builder alone     *)
(* preserves the invariant when its fields stay in range and it drops no   *)
(* own error: all chain calls, and every refusal.                          *)
LEMMA SilentStep ==
    ASSUME IInv, FieldsOK', UNCHANGED <<ctxRules, rulesState>>,
           errs' \subseteq {"call", "rule"}, errs \subseteq errs', out'.sql = {}
    PROVE  IInv'
<1>1. OncePerRule' = OncePerRule /\ Rejecting(ctxRules)' = Rejecting(ctxRules)
  BY DEF OncePerRule, Appended, Rejecting
<1>2. RulesOnce'
  BY <1>1 DEF IInv, RulesOnce, rulesState
<1>3. TypeOK'
  BY DEF IInv, TypeOK, FieldsOK, FlagsOK, RangesOK, rulesState
<1> QED  BY <1>2, <1>3 DEF IInv, FailClosed, RuleScoped

(* A terminal of a ruled operation: it applies the rules and then either   *)
(* fails or runs its paths with the conditions it now holds.               *)
LEMMA RuledStep ==
    ASSUME IInv, FieldsOK', UNCHANGED <<identity, sub>>, biz' = biz, ApplyRules,
           NEW op, NEW paths \in SUBSET Paths,
           \/ out'.sql = {}
           \/ out' = Run(op, paths, ruled')
    PROVE  IInv'
<1>0. TypeOK /\ RulesOnce /\ ctxRules' = ctxRules
  BY DEF IInv, identity
<1>1. /\ RulesOnce' /\ dataRuleApplied' \in BOOLEAN
      /\ ruled' \in [Rules -> 0..1] /\ errs' \subseteq {"call", "rule"}
      /\ errs' = {} => Rejecting(ctxRules) = {} /\ ruled' = OncePerRule
  BY <1>0, ApplyRulesOnce
<1>2. OncePerRule' = OncePerRule
  BY <1>0 DEF OncePerRule, Appended
<1>3. CASE out'.sql = {}
  BY <1>1, <1>3 DEF IInv, TypeOK, FieldsOK, FlagsOK, RangesOK, FailClosed, RuleScoped
<1>4. CASE out' = Run(op, paths, ruled')
  <2>0. ruled' \in [Rules -> 0..2]  BY <1>1
  <2>1. /\ out'.sql \subseteq Statements
        /\ out'.sql # {} => errs' = {} /\ coreErrs' = {} /\ sub # "broken"
        /\ \A s \in out'.sql : s.path # "INSERT" => s.rules = ruled'
    BY <1>0, <1>4, <2>0, RunSound DEF FieldsOK, FlagsOK, RangesOK, TypeOK
  <2>2. TypeOK'  BY <1>1, <2>1 DEF TypeOK, FieldsOK, FlagsOK, RangesOK, Statements, Paths, Locks
  <2>3. RuleScoped'
    BY <1>1, <1>2, <2>1 DEF RuleScoped
  <2>4. out'.sql # {} => \A r \in ctxRules : ~Unsafe(r)
    BY <1>0, <1>1, <2>1, NothingUnsafe DEF TypeOK
  <2>5. FailClosed'
    BY <1>0, <2>1, <2>4 DEF FailClosed
  <2> QED  BY <1>1, <2>2, <2>3, <2>5 DEF IInv
<1> QED  BY <1>3, <1>4

(* A statement sent without applying rules: Build* used directly, the      *)
(* INSERT ... SELECT family and UpdateByIds.                               *)
LEMMA UnruledStep ==
    ASSUME IInv, FieldsOK', UNCHANGED <<ctxRules, rulesState, errs, sub>>,
           NEW op, op \notin RuledOps, NEW paths \in SUBSET Paths,
           NEW r \in [Rules -> 0..2],
           out'.sql = {} \/ out' = Run(op, paths, r)
    PROVE  IInv'
<1>1. CASE out'.sql = {}
  BY <1>1, SilentStep DEF IInv, TypeOK
<1>2. CASE out' = Run(op, paths, r)
  <2>1. /\ out'.op = op /\ out'.sql \subseteq Statements
        /\ out'.sql # {} => errs' = {} /\ coreErrs' = {} /\ sub # "broken"
    BY <1>2, RunSound DEF IInv, TypeOK, FieldsOK, FlagsOK, RangesOK
  <2>2. OncePerRule' = OncePerRule /\ Rejecting(ctxRules)' = Rejecting(ctxRules)
    BY DEF OncePerRule, Appended, Rejecting
  <2>3. RulesOnce'  BY <2>2 DEF IInv, RulesOnce, rulesState
  <2>4. TypeOK'  BY <2>1 DEF IInv, TypeOK, FieldsOK, FlagsOK, RangesOK, rulesState, Statements, Paths, Locks
  <2> QED  BY <2>1, <2>3, <2>4 DEF IInv, FailClosed, RuleScoped
<1> QED  BY <1>1, <1>2

-----------------------------------------------------------------------------
LEMMA InitEstablishes == Init => IInv
<1> SUFFICES ASSUME Init PROVE IInv
  OBVIOUS
<1>1. out.sql = {} /\ out.op = "none" /\ ruled = NoRules /\ dataRuleApplied = FALSE
  BY DEF Init, NoResult
<1>2. NoRules \in [Rules -> 0..1]
  BY DEF NoRules
<1>3. distinct \in BOOLEAN /\ setMap \in BOOLEAN /\ dataRuleApplied \in BOOLEAN
  BY Zenon DEF Init
<1>4. TypeOK
  BY <1>1, <1>2, <1>3 DEF Init, TypeOK, Locks
<1> QED  BY <1>1, <1>4 DEF IInv, RulesOnce, FailClosed, RuleScoped

(* Reporting the error of a chain call only adds to the two buckets.       *)
LEMMA AcceptSound ==
    ASSUME TypeOK, NEW arg, Accept(arg)
    PROVE  /\ errs' \subseteq {"call", "rule"} /\ errs \subseteq errs'
           /\ coreErrs' \subseteq {"chain"}
<1>1. errs' = errs \/ errs' = errs \cup {"call"}
  BY Zenon DEF Accept
<1>2. coreErrs' = coreErrs \/ coreErrs' = coreErrs \cup {"chain"}
  BY Zenon DEF Accept, resolveColumnNameAny
<1> QED  BY <1>1, <1>2 DEF TypeOK

(* All chain calls.                                                        *)
LEMMA ChainStep ==
    ASSUME IInv, Chain
    PROVE  IInv'
<1>0. TypeOK /\ FlagsOK /\ RangesOK /\ errs \subseteq {"call", "rule"}
  BY TypedFields DEF IInv, FieldsOK
<1> DEFINE Silent == /\ FlagsOK' /\ RangesOK' /\ UNCHANGED <<ctxRules, rulesState>>
                     /\ errs' \subseteq {"call", "rule"} /\ errs \subseteq errs'
                     /\ out'.sql = {}
<1> USE DEF NoResult, identity, shape, errState, RangesOK, Locks
<1>a. ASSUME UNCHANGED shape \/ UNCHANGED <<distinct, setMap>>  PROVE FlagsOK'
  BY <1>0, <1>a DEF FlagsOK
<1>b. ASSUME NEW arg, Reject(arg), UNCHANGED <<identity, rulesState>>, out' = NoResult
      PROVE  Silent
  BY <1>0, <1>a, <1>b, AcceptSound DEF Reject
<1>1. ASSUME NEW arg \in Arguments, addCond(arg)  PROVE Silent
  <2>1. CASE arg = "ok"
    <3>1. /\ UNCHANGED <<identity, rulesState, errState, aliases, sub, shape>>
          /\ out' = NoResult /\ biz' = biz + 1
      BY <1>1, <2>1 DEF addCond
    <3>a. biz \in Nat /\ biz' = biz + 1  BY <1>0, <3>1
    <3>2. biz' \in Nat  BY <3>a
    <3> QED  BY <1>0, <1>a, <3>1, <3>2
  <2>2. CASE arg # "ok"  BY <1>1, <1>b, <2>2 DEF addCond
  <2> QED  BY <2>1, <2>2
<1>2. ASSUME NEW arg \in Arguments, Set(arg)  PROVE Silent
  <2>1. CASE arg = "ok"
    <3>1. FlagsOK'  BY <1>0, <1>2, <2>1, Zenon DEF Set, FlagsOK
    <3>2. /\ UNCHANGED <<biz, errState, aliases, sub, selects, lock, paging>>
          /\ UNCHANGED <<identity, rulesState>> /\ out' = NoResult
      BY <1>2, <2>1 DEF Set
    <3> QED  BY <1>0, <3>1, <3>2
  <2>2. CASE arg # "ok"  BY <1>2, <1>b, <2>2 DEF Set
  <2> QED  BY <2>1, <2>2
<1>3. ASSUME NEW n \in 0..1, NEW arg \in Arguments, Group(n, arg)  PROVE Silent
  <2>1. Accept(arg) /\ biz' = biz + n /\ out' = NoResult
        /\ UNCHANGED <<identity, rulesState, aliases, sub, shape>>
    BY <1>3 DEF Group
  <2>2. biz' \in Nat
    <3>1. biz \in Nat /\ biz' = biz + n  BY <1>0, <2>1
    <3> QED  BY <3>1
  <2> QED  BY <1>0, <1>a, <2>1, <2>2, AcceptSound
<1>4. ASSUME NEW n \in 0..1, NEW arg \in Arguments, Select(n, arg) \/ Distinct(n, arg)
      PROVE  Silent
  <2>1. Project(n, arg) /\ (UNCHANGED distinct \/ distinct' = TRUE)
    BY <1>4, Zenon DEF Select, Distinct
  <2>2. FlagsOK'  BY <1>0, <2>1, Zenon DEF Project, FlagsOK
  <2>3. Accept(arg) /\ selects' = selects + n /\ out' = NoResult
        /\ UNCHANGED <<identity, biz, rulesState, aliases, sub, lock, paging>>
    BY <2>1 DEF Project
  <2>4. selects' \in Nat
    <3>1. selects \in Nat /\ selects' = selects + n  BY <1>0, <2>3
    <3> QED  BY <3>1
  <2> QED  BY <1>0, <2>2, <2>3, <2>4, AcceptSound
<1>5. ASSUME NEW s \in {"nil", "sound", "broken"}, InSub(s) \/ Exists(s)  PROVE Silent
  <2>1. CASE s = "nil"  BY <1>5, <1>b, <2>1 DEF InSub, Exists, AttachNil
  <2>2. CASE s # "nil"
    <3>1. Attach(s) /\ (errs' = errs \/ errs' = errs \cup {"call"})
      BY <1>5, <2>2, Zenon DEF InSub, Exists
    <3>2. sub' = "broken" \/ sub' = s  BY <3>1, Zenon DEF Attach
    <3>3. /\ UNCHANGED <<identity, rulesState, coreErrs, aliases, shape>>
          /\ out' = NoResult /\ biz' = biz + 1
      BY <3>1 DEF Attach
    <3>a. biz \in Nat /\ biz' = biz + 1  BY <1>0, <3>3
    <3>4. biz' \in Nat  BY <3>a
    <3> QED  BY <1>0, <1>a, <2>2, <3>1, <3>2, <3>3, <3>4
  <2> QED  BY <2>1, <2>2
<1>6. ASSUME SubFails  PROVE Silent
  BY <1>0, <1>a, <1>6 DEF SubFails
<1>7. ASSUME NEW n \in AliasNames, As(n) \/ AliasCond(n)  PROVE Silent
  <2>1. CASE As(n)         BY <1>0, <1>a, <2>1 DEF As
  <2>2. CASE AliasCond(n)  BY <1>1, <2>2 DEF AliasCond, Arguments
  <2> QED  BY <1>7, <2>1, <2>2
<1>8. ASSUME NEW s \in Strengths, LockWithOpt(s)  PROVE Silent
  BY <1>0, <1>a, <1>8 DEF LockWithOpt
<1>9. ASSUME NEW positive \in BOOLEAN, Paginate(positive)  PROVE Silent
  <2>1. /\ paging' \in BOOLEAN
        /\ UNCHANGED <<identity, biz, rulesState, errState, aliases, sub,
                       selects, distinct, lock, setMap>>
        /\ out' = NoResult
    BY <1>9 DEF Paginate
  <2> QED  BY <1>0, <1>a, <2>1
<1>10. CASE DataRuleBuilder
  <2>1. FlagsOK' /\ RangesOK' /\ UNCHANGED <<identity, sub>> /\ biz' = biz
        /\ ApplyRules /\ out'.sql = {}
    BY <1>0, <1>a, <1>10 DEF DataRuleBuilder
  <2> QED  BY <2>1, RuledStep DEF FieldsOK
<1>11. CASE Clear
  <2>1. out'.sql = {} /\ errs' = {} /\ dataRuleApplied' = FALSE /\ ruled' = NoRules
    BY <1>11 DEF Clear, ForgetRules
  <2>2. RangesOK'  BY <1>0, <1>11 DEF Clear
  <2>3. FlagsOK' /\ dataRuleApplied' \in BOOLEAN
    BY <1>11, Zenon DEF Clear, ForgetRules, FlagsOK
  <2>4. NoRules \in [Rules -> 0..1]  BY DEF NoRules
  <2>5. TypeOK'
    BY <2>1, <2>2, <2>3, <2>4 DEF TypeOK, FlagsOK
  <2>6. NoRules' = NoRules  BY DEF NoRules
  <2> QED  BY <2>1, <2>5, <2>6 DEF IInv, RulesOnce, FailClosed, RuleScoped
<1> HIDE DEF NoResult, identity, shape, errState, RangesOK, Locks
<1>12. Silent => IInv'
  BY SilentStep DEF FieldsOK
<1> HIDE DEF Silent
<1> QED  BY <1>1, <1>2, <1>3, <1>4, <1>5, <1>6, <1>7, <1>8, <1>9, <1>10, <1>11,
             <1>12 DEF Chain

(* A refusal changes nothing but the result.                               *)
LEMMA RefusedStep ==
    ASSUME IInv, UNCHANGED identity, NEW op, NEW e, Refuse(op, e)
    PROVE  IInv'
<1>1. FieldsOK' /\ UNCHANGED <<ctxRules, rulesState, errs>> /\ out'.sql = {}
  BY DEF IInv, TypeOK, FieldsOK, FlagsOK, RangesOK, Refuse, Failure, identity, errState, shape
<1>2. errs' \subseteq {"call", "rule"}  BY <1>1 DEF IInv, TypeOK
<1> QED  BY <1>1, <1>2, SilentStep

(* The common body of the terminals that apply the rules.                  *)
LEMMA CheckedStep ==
    ASSUME IInv, UNCHANGED identity, NEW op, NEW result, NEW paths \in SUBSET Paths,
           Checked(op, result), result.sql = {} \/ result = Run(op, paths, ruled')
    PROVE  IInv'
<1>1. CASE GetError
  BY <1>1, RefusedStep DEF Checked
<1>2. CASE ~GetError
  <2>1. /\ ApplyRules /\ biz' = biz /\ UNCHANGED sub /\ FieldsOK'
    BY <1>2 DEF Checked, IInv, TypeOK, FieldsOK, FlagsOK, RangesOK, identity, shape
  <2>2. out' = Failure(op, "builder") \/ out' = result
    BY <1>2 DEF Checked
  <2>3. out'.sql = {} \/ out' = Run(op, paths, ruled')
    BY <2>2 DEF Failure
  <2> QED  BY <2>1, <2>3, RuledStep
<1> QED  BY <1>1, <1>2

LEMMA RuledTerminal ==
    ASSUME IInv, UNCHANGED identity, NEW op, NEW paths \in SUBSET Paths,
           Ruled(op, paths)
    PROVE  IInv'
BY CheckedStep DEF Ruled

LEMMA ReadStep ==
    ASSUME IInv, Read
    PROVE  IInv'
<1> DEFINE P == SUBSET Paths
<1>0. {"SELECT"} \in P /\ {"COUNT"} \in P /\ {"COUNT", "SELECT"} \in P /\ {} \in P
  BY DEF Paths
<1>1. CASE GetOneTx \/ LastTx \/ ListTx \/ FindAsTx \/ ChunkTx \/ ExistsTx
  BY <1>0, <1>1, RuledTerminal
     DEF GetOneTx, LastTx, ListTx, FindAsTx, ChunkTx, ExistsTx, OnQuery
<1>2. CASE CountTx \/ ToSQL \/ PageTx
  BY <1>0, <1>2, RuledTerminal DEF CountTx, ToSQL, PageTx, OnQuery
<1>3. CASE FindOneAsTx
  BY <1>0, <1>3, RuledTerminal, RefusedStep DEF FindOneAsTx, OnQuery
<1>4. ASSUME NEW op, NEW arg \in Arguments, NEW path \in {"SELECT", "COUNT"},
             OnQuery, OfColumn(op, arg, path)
      PROVE  IInv'
  <2>1. CASE ~GetError /\ arg # "ok"
    <3>0. coreErrs' = coreErrs \/ coreErrs' = coreErrs \cup {"chain"}
      BY <1>4, <2>1, Zenon DEF OfColumn, resolveColumnNameAny
    <3>1. /\ FieldsOK' /\ UNCHANGED <<ctxRules, rulesState, errs>> /\ out'.sql = {}
      <4>1. /\ UNCHANGED <<kind, ctxRules, biz, rulesState, errs, aliases, sub, shape>>
            /\ out' = Failure(op, "column")
        BY <1>4, <2>1 DEF OfColumn, OnQuery, identity
      <4>2. FlagsOK' /\ RangesOK'
        BY <3>0, <4>1, TypedFields DEF IInv, FieldsOK, FlagsOK, RangesOK, shape, Locks
      <4> QED  BY <4>1, <4>2 DEF FieldsOK, Failure
    <3>2. errs' \subseteq {"call", "rule"}  BY <3>1 DEF IInv, TypeOK
    <3> QED  BY <3>1, <3>2, SilentStep
  <2>2. CASE ~(~GetError /\ arg # "ok")
    BY <1>0, <1>4, <2>2, RuledTerminal DEF OfColumn, OnQuery
  <2> QED  BY <2>1, <2>2
<1>5. CASE \E arg \in Arguments : PluckTx(arg) \/ aggregate(arg)
  BY <1>4, <1>5 DEF PluckTx, aggregate
<1>6. ASSUME NEW tx \in BOOLEAN, GetByLock(tx)  PROVE IInv'
  <2>1. CASE ~tx \/ GetError
    BY <1>6, <2>1, RefusedStep DEF GetByLock, OnQuery
  <2>2. CASE tx /\ ~GetError
    <3>1. /\ ApplyRules /\ biz' = biz /\ UNCHANGED <<identity, sub>> /\ FieldsOK'
      BY <1>6, <2>2 DEF GetByLock, OnQuery, IInv, TypeOK, FieldsOK, FlagsOK, RangesOK, identity, Locks
    <3>2. \/ out' = Failure("GetByLock", "builder")
          \/ out' = Run("GetByLock", {"SELECT"}, ruled')
      BY <1>6, <2>2, Zenon DEF GetByLock
    <3>3. out'.sql = {} \/ out' = Run("GetByLock", {"SELECT"}, ruled')
      BY <3>2 DEF Failure
    <3> QED  BY <1>0, <3>1, <3>3, RuledStep
  <2> QED  BY <2>1, <2>2
<1> QED  BY <1>1, <1>2, <1>3, <1>5, <1>6 DEF Read

LEMMA WriteStep ==
    ASSUME IInv, Write
    PROVE  IInv'
<1>0. /\ {"COUNT"} \in SUBSET Paths /\ {"COUNT", "INSERT"} \in SUBSET Paths
      /\ {"DELETE"} \in SUBSET Paths /\ {"UPDATE"} \in SUBSET Paths
      /\ {} \in SUBSET Paths
  BY DEF Paths
<1>1. CASE FirstOrCreate
  BY <1>0, <1>1, RuledTerminal DEF FirstOrCreate, OnQuery
<1>2. CASE DeleteByCondTx
  BY <1>0, <1>2, RuledTerminal, RefusedStep DEF DeleteByCondTx, OnQuery
<1>3. CASE RestoreByCondTx
  BY <1>0, <1>3, RuledTerminal, RefusedStep DEF RestoreByCondTx, OnQuery
<1>4. ASSUME NEW op, NEW resolves, NEW paths \in SUBSET Paths, UNCHANGED identity,
             RuledUpdate(op, resolves, paths)
      PROVE  IInv'
  BY <1>4, CheckedStep DEF RuledUpdate, Failure
<1>5. ASSUME NEW op, NEW paths \in SUBSET Paths, Updating(op, paths)  PROVE IInv'
  BY <1>4, <1>5, RefusedStep DEF Updating, OnUpdater
<1>6. CASE UpdateByCondTx \/ ToUpdateSQL
  BY <1>0, <1>5, <1>6 DEF UpdateByCondTx, ToUpdateSQL
<1>8. ASSUME NEW resolves \in BOOLEAN, IncrByTx(resolves)  PROVE IInv'
  BY <1>0, <1>4, <1>8 DEF IncrByTx, OnUpdater
<1>9. ASSUME NEW updater, FirstOrUpdateQuery(updater)  PROVE IInv'
  BY <1>0, <1>9, CheckedStep, RuledTerminal, RefusedStep
     DEF FirstOrUpdateQuery, OnQuery, Failure
<1>10. ASSUME NEW query, FirstOrUpdateUpdater(query)  PROVE IInv'
  BY <1>0, <1>10, CheckedStep, RuledTerminal, RefusedStep
     DEF FirstOrUpdateUpdater, OnUpdater, NotUsed
<1>7. ASSUME NEW rs \in SUBSET Rules, UpdateByIdsTx(rs)  PROVE IInv'
  <2>1. CASE ~setMap \/ GetError \/ Rejecting(rs) # {}
    BY <1>7, <2>1, RefusedStep DEF UpdateByIdsTx, OnUpdater
  <2>2. CASE setMap /\ ~GetError /\ Rejecting(rs) = {}
    <3>1. /\ FieldsOK' /\ UNCHANGED <<ctxRules, rulesState, errs, sub>>
          /\ out' = Run("UpdateByIds", {"UPDATE"}, WithRules(rs))
      BY <1>7, <2>2 DEF UpdateByIdsTx, OnUpdater, IInv, TypeOK, FieldsOK, FlagsOK, RangesOK,
         identity, shape, errState
    <3>2. WithRules(rs) \in [Rules -> 0..2]
      BY DEF WithRules, IInv, TypeOK
    <3>3. "UpdateByIds" \notin RuledOps  BY DEF RuledOps
    <3> QED  BY <1>0, <3>1, <3>2, <3>3, UnruledStep
  <2> QED  BY <2>1, <2>2
<1> QED  BY <1>1, <1>2, <1>3, <1>6, <1>7, <1>8, <1>9, <1>10 DEF Write

LEMMA UnruledOpStep ==
    ASSUME IInv, Unruled
    PROVE  IInv'
<1>0. ruled \in [Rules -> 0..2]  BY DEF IInv, TypeOK
<1>1. ASSUME NEW path \in {"SELECT", "COUNT", "UPDATE", "DELETE"}, BuildDirect(path)
      PROVE  IInv'
  <2>1. /\ FieldsOK' /\ UNCHANGED <<ctxRules, rulesState, errs, sub>>
        /\ out' = Run("Build", {path}, ruled)
    BY <1>1 DEF BuildDirect, IInv, TypeOK, FieldsOK, FlagsOK, RangesOK, identity, shape, errState
  <2>2. {path} \in SUBSET Paths /\ "Build" \notin RuledOps  BY DEF Paths, RuledOps
  <2> QED  BY <1>0, <2>1, <2>2, UnruledStep
<1>2. ASSUME NEW op \in {"InsertSelect", "InsertSelectMap"}, NEW n, NEW m,
             FieldsOK', UNCHANGED <<ctxRules, rulesState, errs, sub>>,
             out' = InsertSelect(op, n, m)
      PROVE  IInv'
  <2>1. out'.sql = {} \/ out' = Run(op, {"SELECT"}, ruled)
    BY <1>2 DEF InsertSelect, Failure
  <2>2. {"SELECT"} \in SUBSET Paths /\ op \notin RuledOps  BY DEF Paths, RuledOps
  <2> QED  BY <1>0, <1>2, <2>1, <2>2, UnruledStep
<1>3. ASSUME NEW matches \in BOOLEAN, InsertSelectTx(matches)  PROVE IInv'
  <2>1. CASE GetError
    BY <1>3, <2>1, RefusedStep DEF InsertSelectTx, OnQuery
  <2>2. CASE ~GetError
    <3>1. /\ FieldsOK' /\ UNCHANGED <<ctxRules, rulesState, errs, sub>>
          /\ out' = InsertSelect("InsertSelect", selects, matches)
      BY <1>3, <2>2 DEF InsertSelectTx, OnQuery, IInv, TypeOK, FieldsOK, FlagsOK, RangesOK,
         identity, shape, errState
    <3> QED  BY <3>1, <1>2
  <2> QED  BY <2>1, <2>2
<1>4. ASSUME NEW cols \in 1..MaxSelects, NEW pairs, InsertSelectMapTx(cols, pairs)
      PROVE  IInv'
  <2>1. CASE GetError \/ selects > 0 \/ pairs = "badTarget"
    BY <1>4, <2>1, RefusedStep DEF InsertSelectMapTx, OnQuery
  <2>2. CASE ~GetError /\ ~(selects > 0) /\ pairs # "badTarget" /\ pairs # "ok"
    <3>1. /\ Reject(pairs) /\ UNCHANGED <<kind, ctxRules, rulesState>>
          /\ out' = Failure("InsertSelectMap", "builder")
      BY <1>4, <2>2 DEF InsertSelectMapTx, OnQuery, identity
    <3>2. TypeOK  BY DEF IInv
    <3>3. FieldsOK'
      BY <3>1, <3>2, AcceptSound, TypedFields
         DEF Reject, FieldsOK, FlagsOK, RangesOK, shape, Locks
    <3> QED  BY <3>1, <3>2, <3>3, AcceptSound, SilentStep DEF Reject, Failure
  <2>3. CASE ~GetError /\ ~(selects > 0) /\ pairs = "ok"
    <3>1. /\ UNCHANGED <<kind, ctxRules, biz, rulesState, errs, coreErrs, aliases,
                         sub, distinct, lock, paging, setMap>>
          /\ selects' = selects + cols
          /\ out' = InsertSelect("InsertSelectMap", selects + cols, TRUE)
      BY <1>4, <2>3 DEF InsertSelectMapTx, OnQuery, identity, errState
    <3>2. FlagsOK /\ RangesOK  BY TypedFields DEF IInv, FieldsOK
    <3>3. selects' \in Nat
      BY <3>1, <3>2, BoundsAssumption DEF RangesOK
    <3>4. FieldsOK'
      BY <3>1, <3>2, <3>3 DEF FieldsOK, FlagsOK, RangesOK, Locks
    <3> QED  BY <3>1, <3>4, <1>2
  <2> QED  BY <2>1, <2>2, <2>3
<1> QED  BY <1>1, <1>3, <1>4 DEF Unruled

LEMMA StutterStep ==
    ASSUME IInv, UNCHANGED vars
    PROVE  IInv'
BY DEF IInv, vars, identity, rulesState, errState, shape, TypeOK, RulesOnce,
   FailClosed, RuleScoped, OncePerRule, Appended, Rejecting

(* The inductive invariant holds of every behaviour.                       *)
THEOREM Inductive == Spec => []IInv
<1>1. Init => IInv  BY InitEstablishes
<1>2. IInv /\ [Next]_vars => IInv'
  BY ChainStep, ReadStep, WriteStep, UnruledOpStep, StutterStep DEF Next
<1> QED  BY <1>1, <1>2, PTL DEF Spec

(* Type correctness, with at most one condition per rule in one builder.   *)
THEOREM Typed == Spec => []TypeOK
<1>1. IInv => TypeOK  BY DEF IInv
<1> QED  BY <1>1, Inductive, PTL

(* The once-only flag and the rule conditions agree: a reused or cleared   *)
(* builder neither loses nor repeats a rule.                               *)
THEOREM AlwaysRulesOnce == Spec => []RulesOnce
<1>1. IInv => RulesOnce  BY DEF IInv
<1> QED  BY <1>1, Inductive, PTL

(* Nothing is sent from a builder that holds an error, or through a ruled  *)
(* operation under a context with an unsafe rule.                          *)
THEOREM SendsNothingFaulty == Spec => []FailClosed
<1>1. IInv => FailClosed  BY DEF IInv
<1> QED  BY <1>1, Inductive, PTL

(* Every statement of a ruled operation carries each effective rule once.  *)
THEOREM AlwaysRuleScoped == Spec => []RuleScoped
<1>1. IInv => RuleScoped  BY DEF IInv
<1> QED  BY <1>1, Inductive, PTL
-----------------------------------------------------------------------------
(* The contract.  A step of the builder is one of five things for its      *)
(* caller: it composes, it clears, it refuses, it sends what Run makes of  *)
(* the conditions and the rules of the builder, or it succeeds without     *)
(* using it.                                                               *)

Faulty == errs # {} \/ coreErrs # {} \/ sub = "broken"

(* Errors stay where they are.                                             *)
KeepsErrors ==
    /\ ctxRules' = ctxRules
    /\ errs \subseteq errs' /\ coreErrs \subseteq coreErrs'
    /\ sub = "broken" => sub' = "broken"

Composes ==
    /\ KeepsErrors
    /\ biz' = biz \/ (biz' = biz + 1 /\ biz < MaxConds)
    /\ out' = NoResult

Refuses ==
    /\ KeepsErrors /\ biz' = biz
    /\ out'.sql = {} /\ out'.op # "none" /\ out'.err # "none"
    /\ out'.err \in {"builder", "build"} => Faulty'

GuardedOps == {"DeleteByCond", "RestoreByCond", "UpdateByCond", "IncrBy"}
FreeOps    == {"Build", "InsertSelect", "InsertSelectMap", "UpdateByIds"}

Sends(op, paths, r) ==
    /\ KeepsErrors /\ biz' = biz /\ sub' = sub
    /\ op # "none" /\ paths \subseteq Paths
    /\ out' = Run(op, paths, r)
    /\ op \notin FreeOps => (errs' = {} => Rejecting(ctxRules) = {} /\ r = OncePerRule)
    /\ op \in GuardedOps => /\ "INSERT" \notin paths
                            /\ errs' = {} => ~NoConditions(r)

Passes ==
    /\ KeepsErrors /\ biz' = biz /\ Faulty' = Faulty
    /\ Rejecting(ctxRules) = {} /\ out' = NotUsed("FirstOrUpdate")

Visible == Composes \/ Clear \/ Refuses \/ Passes
           \/ \E op, paths, r : Sends(op, paths, r)

(* The number of conditions stays within its bound, and the guards of the  *)
(* operations that write by condition hold of what was sent.               *)
Guarded == IInv /\ biz <= MaxConds /\ GuardedWrites

(* A refusal with an error other than that of a faulty builder.            *)
LEMMA RefuseVisible ==
    ASSUME UNCHANGED identity, NEW op, op # "none", NEW e, e # "none", Refuse(op, e),
           e \in {"builder", "build"} => Faulty
    PROVE  Refuses
<1>1. UNCHANGED <<biz, errs, coreErrs, sub, ctxRules>> /\ out' = Failure(op, e)
  BY DEF Refuse, identity, errState
<1>2. Faulty => Faulty'  BY <1>1 DEF Faulty
<1>3. out'.sql = {} /\ out'.op = op /\ out'.err = e  BY <1>1 DEF Failure
<1> QED  BY <1>1, <1>2, <1>3 DEF Refuses, KeepsErrors

(* Applying the rules removes no condition.                                *)
LEMMA MoreRules ==
    ASSUME TypeOK, ApplyRules
    PROVE  \A x \in Rules : ruled[x] # 0 => ruled'[x] # 0
BY DEF TypeOK, ApplyRules, AppendRules, WithRules

(* A terminal that applies the rules refuses, or it yields its result with *)
(* every rule in place.                                                    *)
LEMMA CheckedVisible ==
    ASSUME Guarded, UNCHANGED identity, NEW op, op # "none", NEW result,
           Checked(op, result)
    PROVE  \/ Refuses
           \/ /\ KeepsErrors /\ UNCHANGED <<biz, coreErrs, sub, ctxRules>> /\ ApplyRules
              /\ ~GetError /\ errs' = {} /\ out' = result
              /\ Rejecting(ctxRules) = {} /\ ruled' = OncePerRule
<1>1. CASE GetError
  <2>1. Refuse(op, "builder") /\ Faulty  BY <1>1 DEF Checked, GetError, Faulty
  <2> QED  BY <2>1, RefuseVisible
<1>2. CASE ~GetError
  <2>1. ApplyRules /\ UNCHANGED <<biz, coreErrs, sub, ctxRules>>
    BY <1>2 DEF Checked, identity
  <2>2. out' = IF errs' # {} THEN Failure(op, "builder") ELSE result
    BY <1>2 DEF Checked
  <2>3. errs \subseteq errs' /\ (errs' = {} => Rejecting(ctxRules) = {} /\ ruled' = OncePerRule)
    BY <2>1, ApplyRulesOnce DEF Guarded, IInv
  <2>4. KeepsErrors  BY <2>1, <2>3 DEF KeepsErrors
  <2>5. CASE errs' # {}
    <3>1. out'.sql = {} /\ out'.op = op /\ out'.err = "builder"
      BY <2>2, <2>5 DEF Failure
    <3> QED  BY <2>1, <2>4, <2>5, <3>1 DEF Refuses, Faulty
  <2>6. CASE errs' = {}  BY <1>2, <2>1, <2>2, <2>3, <2>4, <2>6
  <2> QED  BY <2>5, <2>6
<1> QED  BY <1>1, <1>2

LEMMA RuledVisible ==
    ASSUME Guarded, UNCHANGED identity, NEW op, op # "none", NEW paths \in SUBSET Paths,
           Ruled(op, paths),
           op \in GuardedOps => "INSERT" \notin paths /\ ~NoConditions(ruled)
    PROVE  Refuses \/ \E r : Sends(op, paths, r)
<1>1. CASE Refuses  BY <1>1
<1>2. CASE ~Refuses
  <2>1. /\ KeepsErrors /\ UNCHANGED <<biz, sub>> /\ ApplyRules
        /\ errs' = {} /\ out' = Run(op, paths, ruled')
        /\ Rejecting(ctxRules) = {} /\ ruled' = OncePerRule
    BY <1>2, CheckedVisible DEF Ruled
  <2>2. ~NoConditions(ruled) => ~NoConditions(ruled')
    BY <2>1, MoreRules DEF Guarded, IInv, NoConditions
  <2>3. Sends(op, paths, ruled')
    BY <2>1, <2>2 DEF Sends
  <2> QED  BY <2>3
<1> QED  BY <1>1, <1>2

(* A chain call other than Clear composes.                                 *)
LEMMA ChainVisible ==
    ASSUME Guarded, Chain
    PROVE  Composes \/ Clear
<1>0. biz <= MaxConds /\ biz \in Nat /\ MaxConds \in Nat
  BY BoundsAssumption DEF Guarded, IInv, TypeOK
<1>a. ASSUME NEW arg, Accept(arg)
      PROVE  errs \subseteq errs' /\ coreErrs \subseteq coreErrs'
  BY <1>a, AcceptSound DEF Guarded, IInv, Accept, resolveColumnNameAny
<1>b. ASSUME NEW arg, Reject(arg), UNCHANGED <<identity, rulesState>>, out' = NoResult
      PROVE  Composes
  BY <1>a, <1>b DEF Reject, Composes, KeepsErrors, identity
<1>1. ASSUME NEW arg, addCond(arg)  PROVE Composes
  <2>1. CASE arg = "ok"
    BY <1>1, <2>1 DEF addCond, Composes, KeepsErrors, identity, errState
  <2>2. CASE arg # "ok"  BY <1>1, <1>b, <2>2 DEF addCond
  <2> QED  BY <2>1, <2>2
<1>2. ASSUME NEW arg, Set(arg)  PROVE Composes
  <2>1. CASE arg = "ok"
    BY <1>2, <2>1 DEF Set, Composes, KeepsErrors, identity, errState
  <2>2. CASE arg # "ok"  BY <1>2, <1>b, <2>2 DEF Set
  <2> QED  BY <2>1, <2>2
<1>3. ASSUME NEW n \in 0..1, NEW arg, Group(n, arg)  PROVE Composes
  <2>1. biz' = biz \/ (biz' = biz + 1 /\ biz < MaxConds)  BY <1>0, <1>3 DEF Group
  <2> QED  BY <1>3, <1>a, <2>1 DEF Group, Composes, KeepsErrors, identity
<1>4. ASSUME NEW n, NEW arg, Project(n, arg)  PROVE Composes
  BY <1>4, <1>a DEF Project, Composes, KeepsErrors, identity
<1>5. ASSUME NEW s, InSub(s) \/ Exists(s)  PROVE Composes
  <2>1. CASE s = "nil"  BY <1>5, <1>b, <2>1 DEF InSub, Exists, AttachNil
  <2>2. CASE s # "nil"
    <3>1. Attach(s) /\ errs \subseteq errs'  BY <1>5, <2>2 DEF InSub, Exists
    <3> QED  BY <3>1 DEF Attach, Composes, KeepsErrors, identity
  <2> QED  BY <2>1, <2>2
<1>6. CASE SubFails
  BY <1>6 DEF SubFails, Composes, KeepsErrors, identity, errState
<1>7. ASSUME NEW n, As(n)  PROVE Composes
  BY <1>7 DEF As, Composes, KeepsErrors, identity
<1>8. ASSUME NEW n, AliasCond(n)  PROVE Composes
  BY <1>8, <1>1 DEF AliasCond
<1>9. ASSUME NEW x, LockWithOpt(x) \/ Paginate(x)  PROVE Composes
  BY <1>9 DEF LockWithOpt, Paginate, Composes, KeepsErrors, identity, errState
<1>10. CASE DataRuleBuilder
  <2>1. errs \subseteq errs'
    BY <1>10 DEF DataRuleBuilder, ApplyRules, AppendRules
  <2> QED  BY <1>10, <2>1 DEF DataRuleBuilder, Composes, KeepsErrors, identity
<1> QED  BY <1>1, <1>2, <1>3, <1>4, <1>5, <1>6, <1>7, <1>8, <1>9, <1>10
         DEF Chain, Select, Distinct

LEMMA ReadVisible ==
    ASSUME Guarded, Read
    PROVE  Refuses \/ \E op, paths, r : Sends(op, paths, r)
<1>0. \A p, q \in Paths : {p} \in SUBSET Paths /\ {p, q} \in SUBSET Paths /\ {} \in SUBSET Paths
  OBVIOUS
<1>1. "SELECT" \in Paths /\ "COUNT" \in Paths  BY DEF Paths
<1>2. ASSUME OnQuery, NEW op \in RuledOps \cup {"ToSQL"}, op \notin GuardedOps,
             NEW paths \in SUBSET Paths, Ruled(op, paths)
      PROVE  Refuses \/ \E r : Sends(op, paths, r)
  <2>1. op # "none"  BY <1>2 DEF RuledOps
  <2> QED  BY <1>2, <2>1, RuledVisible DEF OnQuery
<1>3. CASE GetOneTx \/ LastTx \/ ListTx \/ CountTx \/ FindAsTx
  BY <1>0, <1>1, <1>2, <1>3
     DEF GetOneTx, LastTx, ListTx, CountTx, FindAsTx, RuledOps, GuardedOps
<1>4. CASE ChunkTx \/ ExistsTx \/ ToSQL \/ PageTx
  BY <1>0, <1>1, <1>2, <1>4 DEF ChunkTx, ExistsTx, ToSQL, PageTx, RuledOps, GuardedOps
<1>5. CASE FindOneAsTx
  <2>1. CASE paging
    BY <1>5, <2>1, RefuseVisible DEF FindOneAsTx, OnQuery
  <2>2. CASE ~paging
    BY <1>0, <1>1, <1>2, <1>5, <2>2 DEF FindOneAsTx, RuledOps, GuardedOps
  <2> QED  BY <2>1, <2>2
<1>6. ASSUME OnQuery, NEW op \in {"Pluck", "aggregate"}, NEW arg, NEW p \in Paths,
             OfColumn(op, arg, p)
      PROVE  Refuses \/ \E r : Sends(op, {p}, r)
  <2>1. CASE ~GetError /\ arg # "ok"
    <3>1. /\ out' = Failure(op, "column") /\ coreErrs \subseteq coreErrs'
          /\ UNCHANGED <<biz, errs, sub, ctxRules>>
      BY <1>6, <2>1 DEF OfColumn, OnQuery, identity, resolveColumnNameAny
    <3>2. out'.sql = {} /\ out'.op = op /\ out'.err = "column"  BY <3>1 DEF Failure
    <3> QED  BY <3>1, <3>2 DEF Refuses, KeepsErrors
  <2>2. CASE ~(~GetError /\ arg # "ok")
    BY <1>0, <1>2, <1>6, <2>2 DEF OfColumn, RuledOps, GuardedOps
  <2> QED  BY <2>1, <2>2
<1>7. CASE \E arg \in Arguments : PluckTx(arg) \/ aggregate(arg)
  BY <1>1, <1>6, <1>7 DEF PluckTx, aggregate
<1>8. ASSUME NEW tx \in BOOLEAN, GetByLock(tx)
      PROVE  Refuses \/ \E r : Sends("GetByLock", {"SELECT"}, r)
  <2>1. CASE ~tx \/ GetError
    <3>1. \E e \in {"ErrTransactionReq", "builder"} :
              Refuse("GetByLock", e) /\ (e = "builder" => Faulty)
      BY <1>8, <2>1 DEF GetByLock, GetError, Faulty
    <3> QED  BY <1>8, <3>1, RefuseVisible DEF GetByLock, OnQuery
  <2>2. CASE tx /\ ~GetError
    <3>1. /\ ApplyRules /\ UNCHANGED <<biz, coreErrs, sub, identity>>
          /\ out' = IF errs' # {} THEN Failure("GetByLock", "builder")
                    ELSE Run("GetByLock", {"SELECT"}, ruled')
      BY <1>8, <2>2 DEF GetByLock, OnQuery
    <3>2. /\ errs \subseteq errs'
          /\ errs' = {} => Rejecting(ctxRules) = {} /\ ruled' = OncePerRule
      BY <3>1, ApplyRulesOnce DEF Guarded, IInv
    <3>3. KeepsErrors  BY <3>1, <3>2 DEF KeepsErrors, identity
    <3>4. CASE errs' # {}
      <4>1. out'.sql = {} /\ out'.op = "GetByLock" /\ out'.err = "builder"
        BY <3>1, <3>4 DEF Failure
      <4> QED  BY <3>1, <3>3, <3>4, <4>1 DEF Refuses, Faulty
    <3>5. CASE errs' = {}
      <4>1. Sends("GetByLock", {"SELECT"}, ruled')
        BY <1>1, <3>1, <3>2, <3>3, <3>5 DEF Sends, GuardedOps
      <4> QED  BY <4>1
    <3> QED  BY <3>4, <3>5
  <2> QED  BY <2>1, <2>2
<1> QED  BY <1>3, <1>4, <1>5, <1>7, <1>8 DEF Read

LEMMA WriteVisible ==
    ASSUME Guarded, Write
    PROVE  Refuses \/ Passes \/ \E op, paths, r : Sends(op, paths, r)
<1>0. /\ {"COUNT"} \in SUBSET Paths /\ {"COUNT", "INSERT"} \in SUBSET Paths
      /\ {"DELETE"} \in SUBSET Paths /\ {"UPDATE"} \in SUBSET Paths
      /\ {} \in SUBSET Paths
      /\ "INSERT" \notin {"DELETE"} /\ "INSERT" \notin {"UPDATE"}
  BY DEF Paths
<1>1. CASE FirstOrCreate
  BY <1>0, <1>1, RuledVisible DEF FirstOrCreate, OnQuery, GuardedOps
<1>2. CASE DeleteByCondTx
  <2>1. CASE NoConditions(ruled)
    BY <1>2, <2>1, RefuseVisible DEF DeleteByCondTx, OnQuery
  <2>2. CASE ~NoConditions(ruled)
    BY <1>0, <1>2, <2>2, RuledVisible DEF DeleteByCondTx, OnQuery
  <2> QED  BY <2>1, <2>2
<1>3. CASE RestoreByCondTx
  <2>1. CASE NoConditions(ruled)
    BY <1>3, <2>1, RefuseVisible DEF RestoreByCondTx, OnQuery
  <2>2. CASE ~NoConditions(ruled)
    BY <1>0, <1>3, <2>2, RuledVisible DEF RestoreByCondTx, OnQuery
  <2> QED  BY <2>1, <2>2
<1>4. ASSUME NEW op, op # "none", NEW resolves, NEW paths \in SUBSET Paths,
             "INSERT" \notin paths, UNCHANGED identity, RuledUpdate(op, resolves, paths)
      PROVE  Refuses \/ \E r : Sends(op, paths, r)
  <2>1. CASE Refuses  BY <2>1
  <2>2. CASE ~Refuses
    <3> DEFINE result == IF NoConditions(ruled') THEN Failure(op, "ErrUpdateNoCondition")
                         ELSE IF ~resolves THEN Failure(op, "column")
                         ELSE Run(op, paths, ruled')
    <3>a. Checked(op, result)  BY <1>4 DEF RuledUpdate
    <3> HIDE DEF result
    <3>1. /\ KeepsErrors /\ UNCHANGED <<biz, sub>> /\ errs' = {}
          /\ Rejecting(ctxRules) = {} /\ ruled' = OncePerRule /\ out' = result
      BY <1>4, <2>2, <3>a, CheckedVisible
    <3> USE DEF result
    <3>2. CASE ~NoConditions(ruled') /\ resolves
      <4>1. Sends(op, paths, ruled')  BY <1>4, <3>1, <3>2 DEF Sends
      <4> QED  BY <4>1
    <3>3. CASE ~(~NoConditions(ruled') /\ resolves)
      <4>1. /\ out'.sql = {} /\ out'.op = op
            /\ out'.err \in {"ErrUpdateNoCondition", "column"}
        BY <3>1, <3>3 DEF Failure
      <4> QED  BY <1>4, <3>1, <4>1 DEF Refuses
    <3> QED  BY <3>2, <3>3
  <2> QED  BY <2>1, <2>2
<1>5. ASSUME NEW op, op # "none", NEW paths \in SUBSET Paths, "INSERT" \notin paths,
             Updating(op, paths)
      PROVE  Refuses \/ \E r : Sends(op, paths, r)
  <2>1. CASE ~setMap  BY <1>5, <2>1, RefuseVisible DEF Updating, OnUpdater
  <2>2. CASE setMap   BY <1>4, <1>5, <2>2 DEF Updating, OnUpdater
  <2> QED  BY <2>1, <2>2
<1>6. CASE UpdateByCondTx \/ ToUpdateSQL
  BY <1>0, <1>5, <1>6 DEF UpdateByCondTx, ToUpdateSQL
<1>8. ASSUME NEW resolves \in BOOLEAN, IncrByTx(resolves)
      PROVE  Refuses \/ \E op, paths, r : Sends(op, paths, r)
  BY <1>0, <1>4, <1>8 DEF IncrByTx, OnUpdater
<1>9. ASSUME NEW updater, FirstOrUpdateQuery(updater)
      PROVE  Refuses \/ \E op, paths, r : Sends(op, paths, r)
  <2>1. CASE updater = "empty"
    BY <1>9, <2>1, RefuseVisible DEF FirstOrUpdateQuery, OnQuery
  <2>2. CASE updater = "faulty" /\ ~GetError
    BY <1>9, <2>2, RefuseVisible DEF FirstOrUpdateQuery, OnQuery
  <2>3. CASE updater = "illegal"
    <3>1. \/ Refuses
          \/ KeepsErrors /\ biz' = biz /\ out' = Failure("FirstOrUpdate", "updater")
      BY <1>9, <2>3, CheckedVisible DEF FirstOrUpdateQuery, OnQuery
    <3>2. Failure("FirstOrUpdate", "updater") =
              [op |-> "FirstOrUpdate", err |-> "updater", sql |-> {}]
      BY DEF Failure
    <3> QED  BY <3>1, <3>2 DEF Refuses
  <2>4. CASE ~(updater = "empty" \/ (updater = "faulty" /\ ~GetError) \/ updater = "illegal")
    BY <1>0, <1>9, <2>4, RuledVisible DEF FirstOrUpdateQuery, OnQuery, GuardedOps
  <2> QED  BY <2>1, <2>2, <2>3, <2>4
<1>10. ASSUME NEW query, FirstOrUpdateUpdater(query)
       PROVE  Refuses \/ Passes \/ \E op, paths, r : Sends(op, paths, r)
  <2>1. CASE ~setMap \/ query = "faulty" \/ (query = "illegal" /\ ~GetError)
    BY <1>10, <2>1, RefuseVisible DEF FirstOrUpdateUpdater, OnUpdater
  <2>2. CASE ~(~setMap \/ query = "faulty" \/ (query = "illegal" /\ ~GetError))
    <3>1. CASE query = "misses"
      <4>1. \/ Refuses
            \/ /\ KeepsErrors /\ UNCHANGED <<biz, coreErrs, sub>> /\ ~GetError /\ errs' = {}
               /\ Rejecting(ctxRules) = {} /\ out' = NotUsed("FirstOrUpdate")
        BY <1>10, <2>2, <3>1, CheckedVisible DEF FirstOrUpdateUpdater, OnUpdater
      <4> QED  BY <4>1 DEF Passes, GetError, Faulty
    <3>2. CASE query # "misses"
      BY <1>0, <1>10, <2>2, <3>2, RuledVisible DEF FirstOrUpdateUpdater, OnUpdater, GuardedOps
    <3> QED  BY <3>1, <3>2
  <2> QED  BY <2>1, <2>2
<1>7. ASSUME NEW rs \in SUBSET Rules, UpdateByIdsTx(rs)
      PROVE  Refuses \/ \E op, paths, r : Sends(op, paths, r)
  <2>1. CASE ~setMap \/ GetError \/ Rejecting(rs) # {}
    <3>1. \E e \in {"ErrUpdateEmpty", "builder", "rules"} :
              Refuse("UpdateByIds", e) /\ (e = "builder" => Faulty)
      BY <1>7, <2>1 DEF UpdateByIdsTx, GetError, Faulty
    <3> QED  BY <1>7, <3>1, RefuseVisible DEF UpdateByIdsTx, OnUpdater
  <2>2. CASE setMap /\ ~GetError /\ Rejecting(rs) = {}
    <3>1. /\ UNCHANGED <<biz, errs, coreErrs, sub, ctxRules>>
          /\ out' = Run("UpdateByIds", {"UPDATE"}, WithRules(rs))
      BY <1>7, <2>2 DEF UpdateByIdsTx, OnUpdater, identity, errState
    <3>2. Sends("UpdateByIds", {"UPDATE"}, WithRules(rs))
      BY <1>0, <3>1 DEF Sends, KeepsErrors, FreeOps, GuardedOps
    <3> QED  BY <3>2
  <2> QED  BY <2>1, <2>2
<1> QED  BY <1>1, <1>2, <1>3, <1>6, <1>7, <1>8, <1>9, <1>10 DEF Write

LEMMA UnruledVisible ==
    ASSUME Guarded, Unruled
    PROVE  Refuses \/ \E op, paths, r : Sends(op, paths, r)
<1>1. ASSUME NEW op \in FreeOps, NEW paths \in SUBSET Paths, NEW r,
             UNCHANGED <<biz, errs, coreErrs, sub, ctxRules>>, out' = Run(op, paths, r)
      PROVE  Sends(op, paths, r)
  BY <1>1 DEF Sends, KeepsErrors, FreeOps, GuardedOps
<1>2. ASSUME NEW path \in {"SELECT", "COUNT", "UPDATE", "DELETE"}, BuildDirect(path)
      PROVE  \E op, paths, r : Sends(op, paths, r)
  <2>1. {path} \in SUBSET Paths /\ "Build" \in FreeOps  BY DEF Paths, FreeOps
  <2>2. UNCHANGED <<biz, errs, coreErrs, sub, ctxRules>> /\ out' = Run("Build", {path}, ruled)
    BY <1>2 DEF BuildDirect, identity, errState
  <2> QED  BY <1>1, <2>1, <2>2
<1>3. ASSUME NEW op \in {"InsertSelect", "InsertSelectMap"}, NEW n, NEW m,
             UNCHANGED <<biz, errs, coreErrs, sub, ctxRules>>, out' = InsertSelect(op, n, m)
      PROVE  Refuses \/ \E paths, r : Sends(op, paths, r)
  <2>1. \/ out' = Run(op, {"SELECT"}, ruled)
        \/ \E e \in {"ErrInsertSelectModifier", "ErrInsertSelectNoProjection",
                     "ErrInsertSelectColMismatch"} : out' = Failure(op, e)
    BY <1>3 DEF InsertSelect
  <2>2. {"SELECT"} \in SUBSET Paths /\ op \in FreeOps  BY DEF Paths, FreeOps
  <2>3. CASE out' = Run(op, {"SELECT"}, ruled)  BY <1>1, <1>3, <2>2, <2>3
  <2>4. CASE out' # Run(op, {"SELECT"}, ruled)
    <3>1. out'.sql = {} /\ out'.op = op /\ out'.err \notin {"none", "builder", "build"}
      BY <2>1, <2>4 DEF Failure
    <3> QED  BY <1>3, <3>1 DEF Refuses, KeepsErrors
  <2> QED  BY <2>3, <2>4
<1>4. ASSUME NEW matches \in BOOLEAN, InsertSelectTx(matches)
      PROVE  Refuses \/ \E op, paths, r : Sends(op, paths, r)
  <2>1. CASE GetError
    <3>1. Refuse("InsertSelect", "builder") /\ Faulty
      BY <1>4, <2>1 DEF InsertSelectTx, GetError, Faulty
    <3> QED  BY <1>4, <3>1, RefuseVisible DEF InsertSelectTx, OnQuery
  <2>2. CASE ~GetError
    <3>1. /\ UNCHANGED <<biz, errs, coreErrs, sub, ctxRules>>
          /\ out' = InsertSelect("InsertSelect", selects, matches)
      BY <1>4, <2>2 DEF InsertSelectTx, OnQuery, identity, errState
    <3> QED  BY <1>3, <3>1
  <2> QED  BY <2>1, <2>2
<1>5. ASSUME NEW cols \in 1..MaxSelects, NEW pairs, InsertSelectMapTx(cols, pairs)
      PROVE  Refuses \/ \E op, paths, r : Sends(op, paths, r)
  <2>1. CASE GetError \/ selects > 0 \/ pairs = "badTarget"
    <3>1. \E e \in {"builder", "ErrInsertSelectMapConflict", "column"} :
              Refuse("InsertSelectMap", e) /\ (e = "builder" => Faulty)
      BY <1>5, <2>1 DEF InsertSelectMapTx, GetError, Faulty
    <3> QED  BY <1>5, <3>1, RefuseVisible DEF InsertSelectMapTx, OnQuery
  <2>2. CASE ~GetError /\ ~(selects > 0) /\ pairs # "badTarget" /\ pairs # "ok"
    <3>1. /\ Reject(pairs) /\ UNCHANGED <<ctxRules, biz, sub>>
          /\ out' = Failure("InsertSelectMap", "builder")
      BY <1>5, <2>2 DEF InsertSelectMapTx, OnQuery, identity, Reject
    <3>2. /\ errs \subseteq errs' /\ coreErrs \subseteq coreErrs' /\ errs' # {}
      BY <2>2, <3>1 DEF Reject, Accept, resolveColumnNameAny
    <3>3. out'.sql = {} /\ out'.op = "InsertSelectMap" /\ out'.err = "builder"
      BY <3>1 DEF Failure
    <3> QED  BY <3>1, <3>2, <3>3 DEF Refuses, KeepsErrors, Faulty
  <2>3. CASE ~GetError /\ ~(selects > 0) /\ pairs = "ok"
    <3>1. /\ UNCHANGED <<biz, errs, coreErrs, sub, ctxRules>>
          /\ out' = InsertSelect("InsertSelectMap", selects + cols, TRUE)
      BY <1>5, <2>3 DEF InsertSelectMapTx, OnQuery, identity, errState
    <3> QED  BY <1>3, <3>1
  <2> QED  BY <2>1, <2>2, <2>3
<1> QED  BY <1>2, <1>4, <1>5 DEF Unruled

LEMMA EveryStepVisible == ASSUME Guarded, Next PROVE Visible
BY ChainVisible, ReadVisible, WriteVisible, UnruledVisible DEF Next, Visible

(* What Run sends, statement by statement.                                 *)
LEMMA RunSends ==
    ASSUME NEW op, NEW paths \in SUBSET Paths, NEW r, out' = Run(op, paths, r)
    PROVE  /\ out'.op = op
           /\ IF errs' # {} \/ coreErrs' # {} \/ sub = "broken"
              THEN out'.err = "build" /\ out'.sql = {}
              ELSE out'.err = "none" /\ out'.sql = {Statement(p, r) : p \in paths}
BY DEF Run, Failure, trackedErr

LEMMA VisibleGuarded == ASSUME Guarded, IInv', Visible PROVE Guarded'
<1>0. biz \in Nat /\ MaxConds \in Nat /\ biz <= MaxConds /\ ruled \in [Rules -> 0..1]
  BY BoundsAssumption DEF Guarded, IInv, TypeOK
<1>1. CASE Composes
  BY <1>0, <1>1 DEF Guarded, Composes, GuardedWrites, NoResult
<1>2. CASE Clear
  <2>1. biz' = 0 /\ out' = NoResult  BY <1>2 DEF Clear
  <2> QED  BY <1>0, <2>1 DEF Guarded, GuardedWrites, NoResult
<1>3. CASE Refuses
  BY <1>0, <1>3 DEF Guarded, Refuses, GuardedWrites
<1>4. ASSUME NEW op, NEW paths, NEW r, Sends(op, paths, r)  PROVE Guarded'
  <2>1. biz' <= MaxConds  BY <1>0, <1>4 DEF Sends
  <2>2. ASSUME op \in GuardedOps, NEW s \in out'.sql
        PROVE  s.conds > 0 \/ \E x \in Rules : s.rules[x] > 0
    <3>1. /\ out' = Run(op, paths, r) /\ paths \in SUBSET Paths /\ "INSERT" \notin paths
          /\ errs' = {} => ~NoConditions(r) /\ r = OncePerRule
      BY <1>4, <2>2 DEF Sends, GuardedOps, FreeOps
    <3>2. errs' = {} /\ out'.sql = {Statement(p, r) : p \in paths}
      BY <2>2, <3>1, RunSends
    <3>3. s.conds = biz /\ s.rules = r
      <4>1. PICK p \in paths : s = Statement(p, r)  BY <2>2, <3>2
      <4>2. p # "INSERT"  BY <3>1
      <4> QED  BY <4>1, <4>2 DEF Statement
    <3>4. biz # 0 \/ \E x \in Rules : r[x] # 0  BY <3>1, <3>2 DEF NoConditions
    <3>5. \A x \in Rules : r[x] \in {0, 1}  BY <3>1, <3>2 DEF OncePerRule
    <3> QED  BY <1>0, <3>3, <3>4, <3>5
  <2>3. out'.op = op  BY <1>4, RunSends DEF Sends
  <2>4. GuardedWrites'  BY <2>2, <2>3 DEF GuardedWrites, GuardedOps
  <2> QED  BY <2>1, <2>4 DEF Guarded
<1>5. CASE Passes
  BY <1>0, <1>5 DEF Guarded, Passes, NotUsed, GuardedWrites
<1> QED  BY <1>1, <1>2, <1>3, <1>4, <1>5 DEF Visible

(* Each of the five is a step of the contract.                             *)
LEMMA ComposesAllowed == ASSUME Guarded, Composes PROVE Contract!CNext
<1>1. biz \in Nat /\ MaxConds \in Nat /\ biz <= MaxConds
  BY BoundsAssumption DEF Guarded, IInv, TypeOK
<1>2. biz' \in {biz, biz + 1} /\ biz' <= MaxConds  BY <1>1 DEF Composes
<1>3. Faulty => Faulty'  BY DEF Composes, KeepsErrors, Faulty
<1>4. out'.op = "none" /\ out'.sql = {}  BY DEF Composes, NoResult
<1>5. Contract!Compose
  BY <1>2, <1>3, <1>4 DEF Contract!Compose, Faulty
<1> QED  BY <1>5 DEF Contract!CNext, Composes, KeepsErrors

LEMMA ClearAllowed == ASSUME Clear PROVE Contract!CNext
<1>1. /\ biz' = 0 /\ errs' = {} /\ coreErrs' = {} /\ sub' = "none"
      /\ out' = NoResult /\ ctxRules' = ctxRules
  BY DEF Clear, identity
<1>2. Contract!Reset  BY <1>1 DEF Contract!Reset, NoResult
<1> QED  BY <1>1, <1>2 DEF Contract!CNext

LEMMA RefusesAllowed == ASSUME Refuses PROVE Contract!CNext
<1>1. Faulty => Faulty'  BY DEF Refuses, KeepsErrors, Faulty
<1>2. Contract!Refuse
  BY <1>1 DEF Refuses, Contract!Refuse, Faulty
<1> QED  BY <1>2 DEF Contract!CNext, Refuses, KeepsErrors

LEMMA SameOutcome == \A r : Contract!RuleOutcome(r) = RuleOutcome(r)
BY DEF RuleOutcome, ColumnResolves, Ignored, BetweenParts, ValueOps,
       Contract!RuleOutcome, Contract!ColumnResolves, Contract!Ignored,
       Contract!BetweenParts, Contract!ValueOps

LEMMA SendsAllowed ==
    ASSUME NEW op, NEW paths, NEW r, Sends(op, paths, r)
    PROVE  Contract!CNext
<1>1. /\ KeepsErrors /\ biz' = biz /\ sub' = sub /\ op # "none"
      /\ paths \in SUBSET Paths /\ out' = Run(op, paths, r)
      /\ op \notin FreeOps => (errs' = {} => Rejecting(ctxRules) = {} /\ r = OncePerRule)
  BY DEF Sends
<1>2. CASE errs' # {} \/ coreErrs' # {} \/ sub = "broken"
  <2>1. out'.op = op /\ out'.err = "build" /\ out'.sql = {}  BY <1>1, <1>2, RunSends
  <2>2. Refuses  BY <1>1, <1>2, <2>1 DEF Refuses, Faulty
  <2> QED  BY <2>2, RefusesAllowed
<1>3. CASE ~(errs' # {} \/ coreErrs' # {} \/ sub = "broken")
  <2>1. /\ out'.op = op /\ out'.err = "none"
        /\ out'.sql = {Statement(p, r) : p \in paths}
    BY <1>1, <1>3, RunSends
  <2>2. ~Faulty /\ ~Faulty'  BY <1>1, <1>3 DEF Faulty, KeepsErrors
  <2>3. ASSUME NEW s \in out'.sql
        PROVE  IF s.path = "INSERT" THEN s.conds = 0 ELSE s.conds = biz /\ s.rules = r
    <3>1. PICK p \in paths : s = Statement(p, r)  BY <2>1
    <3> QED  BY <3>1 DEF Statement
  <2>4. ASSUME op \notin FreeOps
        PROVE  Contract!Illegal = {} /\ \A s \in out'.sql : Contract!Honest(s)
    <3>1. Rejecting(ctxRules) = {} /\ r = OncePerRule  BY <1>1, <1>3, <2>4
    <3>2. Contract!Illegal = {}
      BY <3>1, SameOutcome DEF Contract!Illegal, Rejecting
    <3>3. Contract!Effective = Appended(ctxRules)
      BY SameOutcome DEF Contract!Effective, Appended
    <3> QED  BY <2>3, <3>1, <3>2, <3>3 DEF Contract!Honest, OncePerRule
  <2>5. Contract!UnruledOps = FreeOps  BY DEF Contract!UnruledOps, FreeOps
  <2>6. Contract!Execute
    BY <1>1, <2>1, <2>2, <2>3, <2>4, <2>5 DEF Contract!Execute, Faulty
  <2> QED  BY <1>1, <2>6 DEF Contract!CNext, KeepsErrors
<1> QED  BY <1>2, <1>3

LEMMA PassesAllowed == ASSUME Passes PROVE Contract!CNext
<1>1. /\ out'.op = "FirstOrUpdate" /\ out'.err = "none" /\ out'.sql = {}
      /\ biz' = biz /\ Faulty' = Faulty /\ Rejecting(ctxRules) = {}
  BY DEF Passes, NotUsed
<1>2. Contract!Illegal = {}
  BY <1>1, SameOutcome DEF Contract!Illegal, Rejecting
<1>3. Contract!Unused  BY <1>1, <1>2 DEF Contract!Unused, Faulty
<1> QED  BY <1>3 DEF Contract!CNext, Passes, KeepsErrors

LEMMA VisibleAllowed == ASSUME Guarded, Visible PROVE Contract!CNext
BY ComposesAllowed, ClearAllowed, RefusesAllowed, PassesAllowed, SendsAllowed DEF Visible

LEMMA StutterAllowed ==
    ASSUME Guarded, UNCHANGED vars
    PROVE  Guarded' /\ UNCHANGED Contract!cvars
<1>1. UNCHANGED <<ctxRules, biz, errs, coreErrs, sub, out>>
  BY DEF vars, identity, errState
<1>2. IInv'  BY StutterStep DEF Guarded
<1>3. Guarded'  BY <1>1, <1>2 DEF Guarded, GuardedWrites
<1>4. UNCHANGED Contract!cvars  BY <1>1 DEF Contract!cvars
<1> QED  BY <1>3, <1>4

LEMMA InitGuarded == Init => Guarded /\ Contract!CInit
<1> SUFFICES ASSUME Init PROVE Guarded /\ Contract!CInit  OBVIOUS
<1>1. /\ ctxRules \in SUBSET Rules /\ biz = 0 /\ errs = {} /\ coreErrs = {}
      /\ sub = "none" /\ out.op = "none" /\ out.sql = {}
  BY DEF Init, NoResult
<1>2. Guarded
  BY <1>1, InitEstablishes, BoundsAssumption DEF Guarded, GuardedWrites
<1>3. Contract!CInit  BY <1>1 DEF Contract!CInit
<1> QED  BY <1>2, <1>3

LEMMA StepGuarded == Guarded /\ [Next]_vars => Guarded' /\ [Contract!CNext]_(Contract!cvars)
<1>1. ASSUME Guarded, Next PROVE Guarded' /\ Contract!CNext
  <2>1. IInv'  BY <1>1, ChainStep, ReadStep, WriteStep, UnruledOpStep DEF Guarded, Next
  <2>2. Visible  BY <1>1, EveryStepVisible
  <2> QED  BY <1>1, <2>1, <2>2, VisibleGuarded, VisibleAllowed
<1> QED  BY <1>1, StutterAllowed

(* No operation that writes by condition sends a statement without one.    *)
THEOREM AlwaysGuarded == Spec => []GuardedWrites
<1>1. Guarded => GuardedWrites  BY DEF Guarded
<1> QED  BY <1>1, InitGuarded, StepGuarded, PTL DEF Spec

(* The builder implements its contract: error buckets, once-only flag and  *)
(* the order of the checks are not visible to its caller.                  *)
THEOREM Refines == Spec => ImplementsContract
BY InitGuarded, StepGuarded, PTL DEF Spec, ImplementsContract, Contract!Spec
=============================================================================
