---------------------------- MODULE ModelRegistry ----------------------------
(***************************************************************************)
(* The registry of one model type: modelInstanceCache holds the canonical  *)
(* instance, columnNameCache the column of each of its field addresses.    *)
(*                                                                         *)
(* Goroutines register their own instance with RegisterModel before any    *)
(* query is made (the rule of schema.go:127), without a lock; afterwards   *)
(* goroutines obtain the canonical instance with getModelInstance and      *)
(* resolve field addresses of it.  Every access to a sync.Map is one       *)
(* atomic step.  An address is a pair of an instance and a field; instances*)
(* are named after the goroutine that allocated them.  Fields behind an    *)
(* embedded pointer exist only in an instance that has the pointer set.    *)
(***************************************************************************)
EXTENDS Naturals, FiniteSets

CONSTANTS Registrars, Queriers,  \* goroutines
          Fields,                \* fields of the model, those behind pointers included
          Embedded,              \* the fields behind an embedded pointer
          NoInstance

ASSUME ProcessesAssumption == /\ Registrars \cap Queriers = {}
                              /\ NoInstance \notin Registrars \cup Queriers
ASSUME FieldsAssumption == Embedded \subseteq Fields

VARIABLES
    instance,  \* modelInstanceCache
    columns,   \* addresses in columnNameCache
    modelInitMu,
    pc,
    allocated, \* instances whose embedded pointers are set
    pending,   \* fields a goroutine has still to store
    seen       \* instances ever returned by getModelInstance

vars == <<instance, columns, modelInitMu, pc, allocated, pending, seen>>

Processes == Registrars \cup Queriers
Free == NoInstance

(* The fields reflectStructSchema and registerPtrEmbedFields find: nil     *)
(* embedded pointers are skipped.                                          *)
Present(p) == IF p \in allocated THEN Fields ELSE Fields \ Embedded

(* getModelInstance allocates the embedded pointers (initPtrEmbeds), the   *)
(* instance handed to RegisterModel comes as it is.  Calling RegisterModel *)
(* is optional.                                                            *)
Init ==
    /\ allocated \in {Queriers \cup rs : rs \in SUBSET Registrars}
    /\ instance = NoInstance /\ columns = {} /\ modelInitMu = Free
    /\ \E rs \in SUBSET Registrars :
          pc = [p \in Processes |-> CASE p \in rs              -> "register"
                                     [] p \in Registrars \ rs -> "registered"
                                     [] p \in Queriers        -> "idle"]
    /\ pending = [p \in Processes |-> Present(p)]
    /\ seen = {}

-----------------------------------------------------------------------------
(* RegisterModel: the instance is published by LoadOrStore, the columns    *)
(* follow; a second caller returns at once, columns stored or not.         *)
LoadOrStore(r) ==
    /\ pc[r] = "register"
    /\ IF instance = NoInstance
       THEN instance' = r /\ pc' = [pc EXCEPT ![r] = "storing"]
       ELSE pc' = [pc EXCEPT ![r] = "registered"] /\ UNCHANGED instance
    /\ UNCHANGED <<columns, allocated, modelInitMu, pending, seen>>

(* One columnNameCache.Store, in the order of a map; the fields behind     *)
(* pointers come last.                                                     *)
StoreColumn(p, f) ==
    /\ pc[p] = "storing"
    /\ f \in pending[p]
    /\ f \in Embedded => pending[p] \subseteq Embedded
    /\ columns' = columns \cup {<<p, f>>}
    /\ pending' = [pending EXCEPT ![p] = @ \ {f}]
    /\ UNCHANGED <<instance, modelInitMu, pc, allocated, seen>>

Registered(r) ==
    /\ r \in Registrars /\ pc[r] = "storing" /\ pending[r] = {}
    /\ pc' = [pc EXCEPT ![r] = "registered"]
    /\ UNCHANGED <<instance, columns, allocated, modelInitMu, pending, seen>>

-----------------------------------------------------------------------------
(* getModelInstance.                                                       *)

Return(q) ==
    /\ pc' = [pc EXCEPT ![q] = "returned"]
    /\ seen' = seen \cup {instance'}

(* Mutation: the fast path does not look whether the type is cached.       *)
FastPathUnchecked(q) ==
    /\ pc[q] = "idle"
    /\ \A r \in Registrars : pc[r] = "registered"
    /\ UNCHANGED <<instance, columns, modelInitMu, allocated, pending>>
    /\ Return(q)

(* The fast path: no lock, any registered instance is taken as it is.      *)
FastPath(q) ==
    /\ pc[q] = "idle"
    /\ \A r \in Registrars : pc[r] = "registered"
    /\ UNCHANGED instance
    /\ IF instance # NoInstance THEN Return(q)
       ELSE pc' = [pc EXCEPT ![q] = "slow"] /\ UNCHANGED seen
    /\ UNCHANGED <<columns, allocated, modelInitMu, pending>>

Lock(q) ==
    /\ pc[q] = "slow"
    /\ modelInitMu = Free
    /\ modelInitMu' = q
    /\ pc' = [pc EXCEPT ![q] = "check"]
    /\ UNCHANGED <<instance, columns, allocated, pending, seen>>

(* Mutation: no second look at the cache under the lock.                   *)
DoubleCheckSkipped(q) ==
    /\ pc[q] = "check"
    /\ pc' = [pc EXCEPT ![q] = "storing"]
    /\ UNCHANGED <<instance, columns, allocated, modelInitMu, pending, seen>>

(* Mutation: the early return of the second look keeps the lock.           *)
DoubleCheckLocked(q) ==
    /\ pc[q] = "check"
    /\ UNCHANGED instance
    /\ IF instance # NoInstance THEN Return(q)
       ELSE pc' = [pc EXCEPT ![q] = "storing"] /\ UNCHANGED seen
    /\ UNCHANGED <<columns, allocated, pending, modelInitMu>>

(* The second look, under the lock; the deferred unlock is part of it.     *)
DoubleCheck(q) ==
    /\ pc[q] = "check"
    /\ UNCHANGED instance
    /\ IF instance # NoInstance THEN Return(q) /\ modelInitMu' = Free
       ELSE /\ pc' = [pc EXCEPT ![q] = "storing"]
            /\ UNCHANGED <<modelInitMu, seen>>
    /\ UNCHANGED <<columns, allocated, pending>>

(* Mutation: the instance is published before its columns are stored.      *)
PublishEarly(q) ==
    /\ q \in Queriers /\ pc[q] = "storing"
    /\ instance' = q
    /\ IF pending[q] = {} THEN Return(q) /\ modelInitMu' = Free
                          ELSE UNCHANGED <<pc, seen, modelInitMu>>
    /\ UNCHANGED <<columns, allocated, pending>>

(* Mutation: the lock is released while the columns are still stored.      *)
PublishUnlocked(q) ==
    /\ q \in Queriers /\ pc[q] = "storing"
    /\ modelInitMu' = Free
    /\ IF pending[q] = {} THEN instance' = q /\ Return(q)
                          ELSE UNCHANGED <<instance, pc, seen>>
    /\ UNCHANGED <<columns, allocated, pending>>

(* All columns are stored: publish, unlock, return.                        *)
Publish(q) ==
    /\ q \in Queriers /\ pc[q] = "storing" /\ pending[q] = {}
    /\ instance' = q
    /\ Return(q)
    /\ modelInitMu' = Free
    /\ UNCHANGED <<columns, allocated, pending>>

(* The goroutine makes its next query.                                     *)
Again(q) ==
    /\ pc[q] = "returned"
    /\ pc' = [pc EXCEPT ![q] = "idle"]
    /\ UNCHANGED <<instance, columns, allocated, modelInitMu, pending, seen>>

Call(q) == FastPath(q) \/ Lock(q) \/ DoubleCheck(q) \/ Publish(q)
           \/ \E f \in Fields : StoreColumn(q, f)
Register(r) == LoadOrStore(r) \/ Registered(r) \/ \E f \in Fields : StoreColumn(r, f)

Next == \/ \E r \in Registrars : Register(r)
        \/ \E q \in Queriers : Call(q) \/ Again(q)

(* Goroutines that are inside a call are scheduled; a Go mutex is handed   *)
(* to every waiter in the end (starvation mode), hence SF for Lock.        *)
Fairness == /\ \A r \in Registrars : WF_vars(Register(r))
            /\ \A q \in Queriers : WF_vars(Call(q)) /\ SF_vars(Lock(q))

Spec == Init /\ [][Next]_vars /\ Fairness

-----------------------------------------------------------------------------
(* Properties.                                                             *)

TypeOK ==
    /\ instance \in Processes \cup {NoInstance}
    /\ columns \subseteq Processes \X Fields
    /\ modelInitMu \in Queriers \cup {Free}
    /\ pc \in [Processes -> {"register", "storing", "registered",
                             "idle", "slow", "check", "returned"}]
    /\ pending \in [Processes -> SUBSET Fields]
    /\ Queriers \subseteq allocated /\ allocated \subseteq Processes
    /\ seen \subseteq Processes

(* At most one goroutine initialises an instance under modelInitMu.        *)
MutualExclusion ==
    \A q \in Queriers : pc[q] \in {"check", "storing"} => modelInitMu = q

(* All callers ever get the same instance: field pointers taken by one     *)
(* goroutine resolve in the builders of every other.                       *)
Canonical == seen \subseteq {instance}

(* Whoever holds the canonical instance can resolve each field it has: no  *)
(* caller gets through the window in which it is half registered.          *)
Resolvable == \A p \in seen : {p} \X Present(p) \subseteq columns

(* Every call of getModelInstance returns.                                 *)
Returns == \A q \in Queriers : pc[q] \in {"slow", "check", "storing"} ~> pc[q] = "returned"
=============================================================================
