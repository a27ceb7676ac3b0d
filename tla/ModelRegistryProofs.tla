------------------------- MODULE ModelRegistryProofs -------------------------
(***************************************************************************)
(* For any number of goroutines and any set of fields: getModelInstance    *)
(* initialises an instance under the mutex, returns one instance to all    *)
(* callers, and returns it fully registered.                               *)
(*                                                                         *)
(* None of the three properties is inductive.  That only one instance is   *)
(* ever returned rests on Unpublished: a querier that stores columns has   *)
(* the cache to itself, because it looked at it again under the lock, and  *)
(* because registrars are done when queriers begin (Ordered).  That it is  *)
(* complete rests on Stored and Complete: columns still missing from the   *)
(* published instance are those its registrar has yet to store.            *)
(***************************************************************************)
EXTENDS ModelRegistry, TLAPS

Points == {"register", "storing", "registered", "idle", "slow", "check", "returned"}

(* Where a goroutine starts when the registrars rs call RegisterModel.     *)
Start(rs, p) == CASE p \in rs              -> "register"
                  [] p \in Registrars \ rs -> "registered"
                  [] p \in Queriers        -> "idle"

(* Registrars and queriers go through their own control points.            *)
Control ==
    /\ \A r \in Registrars : pc[r] \in {"register", "storing", "registered"}
    /\ \A q \in Queriers : pc[q] \in {"idle", "slow", "check", "storing", "returned"}

(* No querier is past the beginning of a call while a registration runs.   *)
Ordered ==
    \A q \in Queriers : pc[q] # "idle" => \A r \in Registrars : pc[r] = "registered"

(* A querier stores columns only while no instance is published.           *)
Unpublished == \A q \in Queriers : pc[q] = "storing" => instance = NoInstance

(* What is no longer pending has been stored.                              *)
Stored == \A p \in Processes : \A f \in Present(p) : f \in pending[p] \/ <<p, f>> \in columns

(* The published instance is complete, or its registrar is at work.        *)
Complete ==
    instance \in Processes =>
        pending[instance] = {} \/ (instance \in Registrars /\ pc[instance] = "storing")

IInv == /\ TypeOK /\ Control /\ Ordered /\ MutualExclusion
        /\ Unpublished /\ Stored /\ Complete /\ Canonical /\ Resolvable

LEMMA InitEstablishes == Init => IInv
<1> SUFFICES ASSUME Init PROVE IInv  OBVIOUS
<1> USE ProcessesAssumption, FieldsAssumption
<1>1. \A p \in Processes : Present(p) \subseteq Fields  BY DEF Present
<1>2. allocated \subseteq Processes /\ Queriers \subseteq allocated
  BY DEF Init, Processes
<1>3. PICK rs \in SUBSET Registrars : pc = [p \in Processes |-> Start(rs, p)]
  BY DEF Init, Start
<1>4. \A p \in Processes : pc[p] = IF p \in rs THEN "register"
                                   ELSE IF p \in Registrars THEN "registered" ELSE "idle"
  BY <1>3 DEF Processes, Start
<1>5. pc \in [Processes -> Points]
  <2>1. \A p \in Processes : Start(rs, p) \in Points  BY DEF Start, Points, Processes
  <2> QED  BY <1>3, <2>1
<1>6. TypeOK
  BY <1>1, <1>2, <1>5 DEF Init, TypeOK, Free, Points
<1>7. Control /\ Ordered /\ MutualExclusion /\ Unpublished
  BY <1>4 DEF Control, Ordered, MutualExclusion, Unpublished, Processes
<1>8. Stored /\ Complete /\ Canonical /\ Resolvable
  BY DEF Init, Stored, Complete, Canonical, Resolvable, Processes
<1> QED  BY <1>6, <1>7, <1>8 DEF IInv

(* Present depends on allocated only.                                      *)
LEMMA PresentFixed ==
    ASSUME allocated' = allocated, NEW p
    PROVE  Present(p)' = Present(p)
BY DEF Present

(* A step that stores and publishes nothing and returns nothing keeps the  *)
(* facts about the published instance.                                     *)
LEMMA QuietStep ==
    ASSUME IInv, UNCHANGED <<instance, columns, allocated, pending, seen>>,
           instance \in Registrars /\ pc[instance] = "storing" => pc'[instance] = "storing"
    PROVE  Stored' /\ Complete' /\ Canonical' /\ Resolvable'
BY PresentFixed DEF IInv, Stored, Complete, Canonical, Resolvable

(* Returning the published instance: registrations are over, so it is      *)
(* complete and every field it has is stored.                              *)
LEMMA ReturnStep ==
    ASSUME IInv, UNCHANGED <<instance, columns, allocated, pending>>,
           seen' = seen \cup {instance}, instance # NoInstance,
           \A r \in Registrars : pc[r] = "registered"
    PROVE  Stored' /\ Complete' /\ Canonical' /\ Resolvable' /\ seen' \subseteq Processes
<1>1. instance \in Processes  BY DEF IInv, TypeOK
<1>2. pending[instance] = {}  BY <1>1 DEF IInv, Complete
<1>3. {instance} \X Present(instance) \subseteq columns
  BY <1>1, <1>2 DEF IInv, Stored
<1>4. \A p : Present(p)' = Present(p)  BY PresentFixed
<1> QED
  BY <1>1, <1>2, <1>3, <1>4 DEF IInv, TypeOK, Stored, Complete, Canonical, Resolvable

LEMMA LoadOrStoreStep ==
    ASSUME IInv, NEW r \in Registrars, LoadOrStore(r)
    PROVE  IInv'
<1> USE ProcessesAssumption
<1>1. r \in Processes /\ pc[r] = "register" /\ r # NoInstance
  BY DEF LoadOrStore, Processes
<1>2. \A q \in Queriers : pc[q] = "idle"
  BY <1>1 DEF IInv, Ordered
<1>3. CASE instance = NoInstance
  <2>1. seen = {}  BY <1>3 DEF IInv, TypeOK, Canonical, Processes
  <2>2. instance' = r /\ pc' = [pc EXCEPT ![r] = "storing"]
        /\ UNCHANGED <<columns, allocated, modelInitMu, pending, seen>>
    BY <1>3 DEF LoadOrStore
  <2>3. TypeOK'
    BY <1>1, <2>2 DEF IInv, TypeOK
  <2>4. Control' /\ Ordered' /\ MutualExclusion' /\ Unpublished'
    BY <1>1, <1>2, <2>2
    DEF IInv, TypeOK, Control, Ordered, MutualExclusion, Unpublished, Processes
  <2>5. Stored' /\ Complete' /\ Canonical' /\ Resolvable'
    BY <1>1, <2>1, <2>2, PresentFixed
    DEF IInv, TypeOK, Stored, Complete, Canonical, Resolvable
  <2> QED  BY <2>3, <2>4, <2>5 DEF IInv
<1>4. CASE instance # NoInstance
  <2>1. pc' = [pc EXCEPT ![r] = "registered"]
        /\ UNCHANGED <<instance, columns, allocated, modelInitMu, pending, seen>>
    BY <1>4 DEF LoadOrStore
  <2>2. TypeOK'  BY <2>1 DEF IInv, TypeOK, Points
  <2>3. Control' /\ Ordered' /\ MutualExclusion' /\ Unpublished'
    BY <1>1, <1>2, <2>1
    DEF IInv, TypeOK, Control, Ordered, MutualExclusion, Unpublished, Processes
  <2>4. Stored' /\ Complete' /\ Canonical' /\ Resolvable'
    BY <1>1, <2>1, QuietStep DEF IInv, TypeOK
  <2> QED  BY <2>2, <2>3, <2>4 DEF IInv
<1> QED  BY <1>3, <1>4

LEMMA StoreColumnStep ==
    ASSUME IInv, NEW p \in Processes, NEW f \in Fields, StoreColumn(p, f)
    PROVE  IInv'
<1>1. columns' = columns \cup {<<p, f>>} /\ pending' = [pending EXCEPT ![p] = @ \ {f}]
      /\ UNCHANGED <<instance, modelInitMu, pc, allocated, seen>>
  BY DEF StoreColumn
<1>2. TypeOK'  BY <1>1 DEF IInv, TypeOK, Points
<1>3. Control' /\ Ordered' /\ MutualExclusion' /\ Unpublished'
  BY <1>1 DEF IInv, Control, Ordered, MutualExclusion, Unpublished
<1>4. Stored' /\ Complete'
  BY <1>1, PresentFixed DEF IInv, TypeOK, Stored, Complete
<1>5. Canonical' /\ Resolvable'
  BY <1>1, PresentFixed DEF IInv, Canonical, Resolvable
<1> QED  BY <1>2, <1>3, <1>4, <1>5 DEF IInv

LEMMA RegisteredStep ==
    ASSUME IInv, NEW r \in Registrars, Registered(r)
    PROVE  IInv'
<1> USE ProcessesAssumption
<1>1. /\ r \in Processes /\ pc[r] = "storing" /\ pending[r] = {}
      /\ pc' = [pc EXCEPT ![r] = "registered"]
      /\ UNCHANGED <<instance, columns, allocated, modelInitMu, pending, seen>>
  BY DEF Registered, Processes
<1>2. \A q \in Queriers : pc[q] = "idle"  BY <1>1 DEF IInv, Ordered
<1>3. TypeOK'  BY <1>1 DEF IInv, TypeOK, Points
<1>4. Control' /\ Ordered' /\ MutualExclusion' /\ Unpublished'
  BY <1>1, <1>2
  DEF IInv, TypeOK, Control, Ordered, MutualExclusion, Unpublished, Processes
<1>5. Stored' /\ Complete' /\ Canonical' /\ Resolvable'
  BY <1>1, PresentFixed DEF IInv, TypeOK, Stored, Complete, Canonical, Resolvable
<1> QED  BY <1>3, <1>4, <1>5 DEF IInv

(* A querier that moves on has found the registrations finished.           *)
LEMMA QuerierStep ==
    ASSUME IInv, NEW q \in Queriers, UNCHANGED instance,
           NEW s \in {"idle", "slow", "check", "storing", "returned"},
           pc' = [pc EXCEPT ![q] = s],
           \A r \in Registrars : pc[r] = "registered",
           s = "storing" => instance = NoInstance
    PROVE  /\ Control' /\ Ordered' /\ Unpublished'
           /\ \A r \in Registrars : pc'[r] = "registered"
           /\ pc' \in [Processes -> Points]
<1>1. q \in Processes /\ q \notin Registrars /\ q # NoInstance
  BY ProcessesAssumption DEF Processes
<1>2. \A p \in Processes : pc'[p] = IF p = q THEN s ELSE pc[p]
  BY <1>1 DEF IInv, TypeOK
<1> QED
  BY <1>1, <1>2 DEF IInv, TypeOK, Control, Ordered, Unpublished, Processes, Points

LEMMA FastPathStep ==
    ASSUME IInv, NEW q \in Queriers, FastPath(q)
    PROVE  IInv'
<1>1. /\ pc[q] = "idle" /\ \A r \in Registrars : pc[r] = "registered"
      /\ UNCHANGED <<instance, columns, allocated, modelInitMu, pending>>
  BY DEF FastPath
<1>2. CASE instance # NoInstance
  <2>1. pc' = [pc EXCEPT ![q] = "returned"] /\ seen' = seen \cup {instance}
    BY <1>1, <1>2 DEF FastPath, Return
  <2>2. Control' /\ Ordered' /\ Unpublished' /\ pc' \in [Processes -> Points]
    BY <1>1, <2>1, QuerierStep
  <2>3. Stored' /\ Complete' /\ Canonical' /\ Resolvable' /\ seen' \subseteq Processes
    BY <1>1, <1>2, <2>1, ReturnStep
  <2>4. TypeOK'  BY <1>1, <2>2, <2>3 DEF IInv, TypeOK, Points
  <2>5. MutualExclusion'
    BY <1>1, <2>1 DEF IInv, TypeOK, MutualExclusion, Processes
  <2> QED  BY <2>2, <2>3, <2>4, <2>5 DEF IInv
<1>3. CASE instance = NoInstance
  <2>1. pc' = [pc EXCEPT ![q] = "slow"] /\ seen' = seen
    BY <1>3 DEF FastPath
  <2>2. Control' /\ Ordered' /\ Unpublished' /\ pc' \in [Processes -> Points]
    BY <1>1, <2>1, QuerierStep
  <2>3. Stored' /\ Complete' /\ Canonical' /\ Resolvable'
    BY <1>1, <1>3, <2>1, QuietStep, ProcessesAssumption
  <2>4. TypeOK'  BY <1>1, <2>1, <2>2 DEF IInv, TypeOK, Points
  <2>5. MutualExclusion'
    BY <1>1, <2>1 DEF IInv, TypeOK, MutualExclusion, Processes
  <2> QED  BY <2>2, <2>3, <2>4, <2>5 DEF IInv
<1> QED  BY <1>2, <1>3

LEMMA LockStep ==
    ASSUME IInv, NEW q \in Queriers, Lock(q)
    PROVE  IInv'
<1>1. /\ pc[q] = "slow" /\ modelInitMu = Free /\ modelInitMu' = q
      /\ pc' = [pc EXCEPT ![q] = "check"]
      /\ UNCHANGED <<instance, columns, allocated, pending, seen>>
  BY DEF Lock
<1>2. \A r \in Registrars : pc[r] = "registered"
  BY <1>1 DEF IInv, Ordered
<1>3. Control' /\ Ordered' /\ Unpublished' /\ pc' \in [Processes -> Points]
  BY <1>1, <1>2, QuerierStep
<1>4. Stored' /\ Complete' /\ Canonical' /\ Resolvable'
  BY <1>1, <1>2, QuietStep
<1>5. TypeOK'  BY <1>1, <1>3 DEF IInv, TypeOK, Points
<1>6. MutualExclusion'
  BY <1>1, ProcessesAssumption DEF IInv, TypeOK, MutualExclusion, Processes, Free
<1> QED  BY <1>3, <1>4, <1>5, <1>6 DEF IInv

LEMMA DoubleCheckStep ==
    ASSUME IInv, NEW q \in Queriers, DoubleCheck(q)
    PROVE  IInv'
<1>1. /\ pc[q] = "check" /\ UNCHANGED <<instance, columns, allocated, pending>>
  BY DEF DoubleCheck
<1>2. \A r \in Registrars : pc[r] = "registered"
  BY <1>1 DEF IInv, Ordered
<1>3. \A p \in Queriers : pc[p] \in {"check", "storing"} => p = q
  BY <1>1 DEF IInv, MutualExclusion
<1>4. CASE instance # NoInstance
  <2>1. pc' = [pc EXCEPT ![q] = "returned"] /\ seen' = seen \cup {instance}
        /\ modelInitMu' = Free
    BY <1>1, <1>4 DEF DoubleCheck, Return
  <2>2. Control' /\ Ordered' /\ Unpublished' /\ pc' \in [Processes -> Points]
    BY <1>1, <1>2, <2>1, QuerierStep
  <2>3. Stored' /\ Complete' /\ Canonical' /\ Resolvable' /\ seen' \subseteq Processes
    BY <1>1, <1>2, <1>4, <2>1, ReturnStep
  <2>4. TypeOK'  BY <1>1, <2>1, <2>2, <2>3 DEF IInv, TypeOK, Points
  <2>5. MutualExclusion'
    BY <1>3, <2>1 DEF IInv, TypeOK, MutualExclusion, Processes
  <2> QED  BY <2>2, <2>3, <2>4, <2>5 DEF IInv
<1>5. CASE instance = NoInstance
  <2>1. pc' = [pc EXCEPT ![q] = "storing"] /\ UNCHANGED <<seen, modelInitMu>>
    BY <1>5 DEF DoubleCheck
  <2>2. Control' /\ Ordered' /\ Unpublished' /\ pc' \in [Processes -> Points]
    BY <1>1, <1>2, <1>5, <2>1, QuerierStep
  <2>3. Stored' /\ Complete' /\ Canonical' /\ Resolvable'
    BY <1>1, <1>2, <1>5, <2>1, QuietStep, ProcessesAssumption
  <2>4. TypeOK'  BY <1>1, <2>1, <2>2 DEF IInv, TypeOK, Points
  <2>5. MutualExclusion'
    BY <1>1, <2>1 DEF IInv, TypeOK, MutualExclusion, Processes
  <2> QED  BY <2>2, <2>3, <2>4, <2>5 DEF IInv
<1> QED  BY <1>4, <1>5

LEMMA PublishStep ==
    ASSUME IInv, NEW q \in Queriers, Publish(q)
    PROVE  IInv'
<1> USE ProcessesAssumption
<1>1. /\ pc[q] = "storing" /\ pending[q] = {} /\ instance' = q
      /\ pc' = [pc EXCEPT ![q] = "returned"] /\ seen' = seen \cup {q}
      /\ modelInitMu' = Free /\ UNCHANGED <<columns, allocated, pending>>
  BY DEF Publish, Return
<1>2. q \in Processes /\ q \notin Registrars  BY DEF Processes
<1>3. \A r \in Registrars : pc[r] = "registered"
  BY <1>1 DEF IInv, Ordered
<1>4. \A p \in Queriers : pc[p] \in {"check", "storing"} => p = q
  BY <1>1 DEF IInv, MutualExclusion
<1>5. seen = {}
  <2>1. instance = NoInstance  BY <1>1 DEF IInv, Unpublished
  <2> QED  BY <2>1 DEF IInv, TypeOK, Canonical, Processes
<1>6. \A p \in Processes : pc'[p] = IF p = q THEN "returned" ELSE pc[p]
  BY <1>1, <1>2 DEF IInv, TypeOK
<1>7. TypeOK'  BY <1>1, <1>2, <1>5 DEF IInv, TypeOK, Points
<1>8. Control' /\ Ordered' /\ MutualExclusion' /\ Unpublished'
  BY <1>2, <1>3, <1>4, <1>6
  DEF IInv, Control, Ordered, MutualExclusion, Unpublished, Processes
<1>9. Stored'
  BY <1>1, PresentFixed DEF IInv, Stored
<1>10. Complete' /\ Canonical'
  BY <1>1, <1>5 DEF Complete, Canonical
<1>11. Resolvable'
  <2>1. {q} \X Present(q) \subseteq columns  BY <1>1, <1>2 DEF IInv, Stored
  <2>2. Present(q)' = Present(q)  BY <1>1, PresentFixed
  <2> QED  BY <1>1, <1>5, <2>1, <2>2 DEF Resolvable
<1> QED  BY <1>7, <1>8, <1>9, <1>10, <1>11 DEF IInv

LEMMA AgainStep ==
    ASSUME IInv, NEW q \in Queriers, Again(q)
    PROVE  IInv'
<1>1. /\ pc[q] = "returned" /\ pc' = [pc EXCEPT ![q] = "idle"]
      /\ UNCHANGED <<instance, columns, allocated, modelInitMu, pending, seen>>
  BY DEF Again
<1>2. \A r \in Registrars : pc[r] = "registered"
  BY <1>1 DEF IInv, Ordered
<1>3. Control' /\ Ordered' /\ Unpublished' /\ pc' \in [Processes -> Points]
  BY <1>1, <1>2, QuerierStep
<1>4. Stored' /\ Complete' /\ Canonical' /\ Resolvable'
  BY <1>1, <1>2, QuietStep
<1>5. TypeOK'  BY <1>1, <1>3 DEF IInv, TypeOK, Points
<1>6. MutualExclusion'
  BY <1>1 DEF IInv, TypeOK, MutualExclusion, Processes
<1> QED  BY <1>3, <1>4, <1>5, <1>6 DEF IInv

LEMMA StutterStep ==
    ASSUME IInv, UNCHANGED vars
    PROVE  IInv'
BY PresentFixed
DEF IInv, vars, TypeOK, Control, Ordered, MutualExclusion, Unpublished, Stored,
    Complete, Canonical, Resolvable

(* The inductive invariant holds of every behaviour.                       *)
THEOREM Inductive == Spec => []IInv
<1>1. Init => IInv  BY InitEstablishes
<1>2. IInv /\ [Next]_vars => IInv'
  <2> SUFFICES ASSUME IInv, [Next]_vars PROVE IInv'  OBVIOUS
  <2>1. ASSUME NEW r \in Registrars, Register(r) PROVE IInv'
    BY <2>1, LoadOrStoreStep, RegisteredStep, StoreColumnStep DEF Register, Processes
  <2>2. ASSUME NEW q \in Queriers, Call(q) PROVE IInv'
    BY <2>2, FastPathStep, LockStep, DoubleCheckStep, PublishStep, StoreColumnStep
    DEF Call, Processes
  <2>3. ASSUME NEW q \in Queriers, Again(q) PROVE IInv'
    BY <2>3, AgainStep
  <2> QED  BY <2>1, <2>2, <2>3, StutterStep DEF Next
<1> QED  BY <1>1, <1>2, PTL DEF Spec

(* Every variable has its type, whatever the goroutines do.                *)
THEOREM Typed == Spec => []TypeOK
<1>1. IInv => TypeOK  BY DEF IInv
<1> QED  BY <1>1, Inductive, PTL

(* At most one goroutine initialises an instance of the model.             *)
THEOREM Exclusive == Spec => []MutualExclusion
<1>1. IInv => MutualExclusion  BY DEF IInv
<1> QED  BY <1>1, Inductive, PTL

(* All callers of getModelInstance get the same instance.                  *)
THEOREM OneInstance == Spec => []Canonical
<1>1. IInv => Canonical  BY DEF IInv
<1> QED  BY <1>1, Inductive, PTL

(* Every field of a returned instance has its column stored.               *)
THEOREM NeverHalfRegistered == Spec => []Resolvable
<1>1. IInv => Resolvable  BY DEF IInv
<1> QED  BY <1>1, Inductive, PTL
=============================================================================
