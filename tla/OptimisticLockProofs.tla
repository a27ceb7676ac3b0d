------------------------ MODULE OptimisticLockProofs ------------------------
(***************************************************************************)
(* For any number of clients and rows, however their loads, updates,       *)
(* deletes and transactions interleave: a version stands for one content,  *)
(* an entity can be used again after a success, and no update is lost.     *)
(*                                                                         *)
(* What connects entities with rows is their age.  The content of a sound  *)
(* entity was committed once, so its version is at most the committed one  *)
(* (NotAhead); an uncommitted row is newer than the committed one          *)
(* (Growing); and a client that holds the row of its entity has its latest *)
(* content (UpToDate).                                                     *)
(***************************************************************************)
EXTENDS OptimisticLock, SequenceTheorems, TLAPS

(* Uncommitted writes are locked, by one client at a time.                 *)
Locks ==
    \A c \in Clients :
        /\ \A id \in Ids : write[c][id] # Unwritten => id \in held[c]
        /\ ~tx[c] => held[c] = {}
        /\ \A d \in Clients \ {c} : held[c] \cap held[d] = {}

(* Only a new row has version 0.                                           *)
FromZero ==
    \A id \in Ids : committed[id] # Gone /\ committed[id].ver = 0 => committed[id].edits = <<>>

(* An uncommitted row continues a committed one with higher versions.      *)
Growing(c) ==
    \A id \in Ids :
        write[c][id] \in Row => committed[id] # Gone /\ committed[id].ver < write[c][id].ver

Has(c, id) == entity[c] # NoEntity /\ entity[c].id = id

(* A sound entity is not newer than the committed row and, if it is as new,*)
(* has its content.                                                        *)
NotAhead(c) ==
    \A id \in Ids :
        Has(c, id) /\ entity[c].status = "sound" /\ committed[id] # Gone =>
            /\ entity[c].ver <= committed[id].ver
            /\ entity[c].ver = committed[id].ver => entity[c].edits = committed[id].edits

(* A provisional entity comes from an uncommitted write.                   *)
Traced(c) ==
    \A id \in Ids :
        Has(c, id) /\ entity[c].status = "provisional" => write[c][id] # Unwritten

(* The client that holds a row has its latest content.                     *)
UpToDate(c) ==
    \A id \in held[c] :
        Has(c, id) /\ View(c)[id] # Gone =>
            entity[c].ver = View(c)[id].ver /\ entity[c].edits = View(c)[id].edits

Consistent(c) == Growing(c) /\ NotAhead(c) /\ Traced(c) /\ UpToDate(c)

IInv == /\ TypeOK /\ Locks
        /\ versioned => FromZero /\ \A c \in Clients : Consistent(c)

-----------------------------------------------------------------------------
(* The parts of the state.                                                 *)

LEMMA ViewAt ==
    ASSUME NEW c \in Clients, NEW id \in Ids
    PROVE  View(c)[id] = IF write[c][id] = Unwritten THEN committed[id] ELSE write[c][id]
BY DEF View, Over

LEMMA ViewType ==
    ASSUME TypeOK, NEW c \in Clients PROVE View(c) \in [Ids -> Row \cup {Gone}]
BY DEF TypeOK, View, Over

LEMMA OverType ==
    ASSUME NEW W \in [Ids -> Row \cup {Gone, Unwritten}], NEW B,
           B \in [Ids -> Row \cup {Gone}] \/ B \in [Ids -> Row \cup {Gone, Unwritten}]
    PROVE  /\ B \in [Ids -> Row \cup {Gone}] => Over(B, W) \in [Ids -> Row \cup {Gone}]
           /\ Over(B, W) \in [Ids -> Row \cup {Gone, Unwritten}]
BY DEF Over

LEMMA ExecuteType ==
    ASSUME TypeOK, NEW c \in Clients, NEW W \in [Ids -> Row \cup {Gone, Unwritten}],
           Execute(c, W), entity' \in [Clients -> Entity \cup {NoEntity}]
    PROVE  TypeOK'
<1>1. CASE tx[c]
  <2>1. Over(write[c], W) \in [Ids -> Row \cup {Gone, Unwritten}]  BY OverType DEF TypeOK
  <2>2. write' \in [Clients -> [Ids -> Row \cup {Gone, Unwritten}]]
    BY <1>1, <2>1 DEF TypeOK, Execute
  <2>3. held' \in [Clients -> SUBSET Ids]  BY <1>1 DEF TypeOK, Execute
  <2> QED  BY <1>1, <2>2, <2>3 DEF TypeOK, Execute
<1>2. CASE ~tx[c]
  BY <1>2, OverType DEF TypeOK, Execute
<1> QED  BY <1>1, <1>2

LEMMA SetClauseType ==
    ASSUME NEW c \in Clients, NEW e \in Entity, NEW row \in Row
    PROVE  SetClause(c, e, row) \in Row
<1>1. Append(e.edits, c) \in Seq(Clients)  BY AppendProperties DEF Entity
<1>2. row.ver \in Nat /\ row.ver + 1 \in Nat  BY DEF Row
<1> QED  BY <1>1, <1>2 DEF SetClause, Row

LEMMA WriteBackType ==
    ASSUME NEW c \in Clients, NEW e \in Entity
    PROVE  /\ WriteBack(c, e) \in Entity
           /\ WriteBack(c, e).id = e.id /\ WriteBack(c, e).edits = Append(e.edits, c)
           /\ WriteBack(c, e).ver = IF versioned THEN e.ver + 1 ELSE e.ver
<1>1. Append(e.edits, c) \in Seq(Clients)  BY AppendProperties DEF Entity
<1>2. e.ver \in Nat /\ e.ver + 1 \in Nat  BY DEF Entity
<1> QED  BY <1>1, <1>2 DEF WriteBack, Entity

LEMMA StatusType ==
    ASSUME NEW c \in Clients, NEW ids PROVE Status(c, ids) \in {"sound", "provisional"}
BY DEF Status

-----------------------------------------------------------------------------
(* Types.                                                                  *)

LEMMA InitTyped == Init => TypeOK
<1> SUFFICES ASSUME Init PROVE TypeOK  OBVIOUS
<1>1. [ver |-> 0, edits |-> <<>>] \in Row  BY EmptySeq DEF Row
<1> QED  BY <1>1 DEF Init, TypeOK, Nothing

LEMMA EndTyped == ASSUME TypeOK, NEW c \in Clients, Commit(c) \/ Rollback(c) PROVE TypeOK'
<1>1. versioned' \in BOOLEAN /\ tx' \in [Clients -> BOOLEAN] /\ rules' \in [Clients -> SUBSET SUBSET Ids]
  BY DEF Commit, Rollback, End, TypeOK
<1>2. /\ write' \in [Clients -> [Ids -> Row \cup {Gone, Unwritten}]]
      /\ held' \in [Clients -> SUBSET Ids]
  <2>1. Nothing \in [Ids -> Row \cup {Gone, Unwritten}]  BY DEF Nothing
  <2> QED  BY <2>1 DEF Commit, Rollback, End, TypeOK
<1>3. committed' \in [Ids -> Row \cup {Gone}]
  BY ViewType DEF Commit, Rollback, TypeOK
<1>4. entity' \in [Clients -> Entity \cup {NoEntity}]
  <2>1. Provisional(c) => [entity[c] EXCEPT !.status = "sound"] \in Entity
    BY DEF Provisional, TypeOK, Entity
  <2> QED  BY <2>1 DEF Commit, Rollback, TypeOK
<1> QED  BY <1>1, <1>2, <1>3, <1>4 DEF TypeOK

LEMMA LoadTyped ==
    ASSUME TypeOK, NEW c \in Clients, NEW id \in Ids, GetById(c, id) \/ GetByLock(c, id)
    PROVE  TypeOK'
<1>1. View(c)[id] \in Row  BY ViewType DEF GetById, GetByLock, Load
<1>2. [id |-> id, ver |-> View(c)[id].ver, edits |-> View(c)[id].edits,
       status |-> Status(c, {id})] \in Entity
  BY <1>1, StatusType, IdsAssumption DEF Entity, Row
<1>3. entity' \in [Clients -> Entity \cup {NoEntity}]
  BY <1>2 DEF GetById, GetByLock, Load, TypeOK
<1>4. held' \in [Clients -> SUBSET Ids]
  BY DEF GetById, GetByLock, TypeOK
<1> QED  BY <1>3, <1>4 DEF GetById, GetByLock, Load, TypeOK

LEMMA ComposeTyped ==
    ASSUME TypeOK, NEW c \in Clients, NEW id \in EntityIds, Compose(c, id) PROVE TypeOK'
<1>1. [id |-> id, ver |-> 0, edits |-> <<>>, status |-> "sound"] \in Entity
  BY EmptySeq DEF Entity
<1> QED  BY <1>1 DEF Compose, TypeOK, database

LEMMA DeleteTyped ==
    ASSUME TypeOK, NEW c \in Clients, NEW id \in Ids, DeleteById(c, id) PROVE TypeOK'
<1>1. [i \in Ids |-> IF i = id THEN Gone ELSE Unwritten] \in [Ids -> Row \cup {Gone, Unwritten}]
  OBVIOUS
<1>2. entity' \in [Clients -> Entity \cup {NoEntity}]  BY DEF DeleteById, TypeOK
<1> QED  BY <1>1, <1>2, ExecuteType DEF DeleteById

(* What UpdateById writes, and what it makes of the entity.                *)
Written(c, e) == [id \in Ids |-> IF id \in Matched(c, e) THEN SetClause(c, e, View(c)[id])
                                                         ELSE Unwritten]
Updated(c, e) == [WriteBack(c, e) EXCEPT !.status = Status(c, Matched(c, e))]

LEMMA UpdateUnfolds ==
    ASSUME TypeOK, NEW c \in Clients, UpdateById(c), NEW e, e = entity[c]
    PROVE  /\ e \in Entity /\ Execute(c, Written(c, e)) /\ Free(c, Targets(c, e))
           /\ Written(c, e) \in [Ids -> Row \cup {Gone, Unwritten}]
           /\ entity' = IF versioned /\ Matched(c, e) = {} THEN entity
                        ELSE [entity EXCEPT ![c] = Updated(c, e)]
           /\ Updated(c, e) \in Entity
           /\ Updated(c, e).id = e.id /\ Updated(c, e).edits = Append(e.edits, c)
           /\ Updated(c, e).ver = IF versioned THEN e.ver + 1 ELSE e.ver
           /\ Updated(c, e).status = Status(c, Matched(c, e))
<1>1. e \in Entity  BY DEF UpdateById, TypeOK
<1>2. Execute(c, Written(c, e)) /\ Free(c, Targets(c, e))  BY DEF UpdateById, Written
<1>3. entity' = IF versioned /\ Matched(c, e) = {} THEN entity
                ELSE [entity EXCEPT ![c] = Updated(c, e)]
  BY DEF UpdateById, Updated
<1>4. \A id \in Matched(c, e) : SetClause(c, e, View(c)[id]) \in Row
  BY <1>1, SetClauseType, ViewType DEF Matched, Targets, Permitted
<1>5. Written(c, e) \in [Ids -> Row \cup {Gone, Unwritten}]  BY <1>4 DEF Written
<1>6. /\ Updated(c, e) \in Entity
      /\ Updated(c, e).id = e.id /\ Updated(c, e).edits = Append(e.edits, c)
      /\ Updated(c, e).ver = IF versioned THEN e.ver + 1 ELSE e.ver
      /\ Updated(c, e).status = Status(c, Matched(c, e))
  <2> DEFINE w == WriteBack(c, e)  st == Status(c, Matched(c, e))
  <2>1. /\ w \in Entity /\ w.id = e.id /\ w.edits = Append(e.edits, c)
        /\ w.ver = IF versioned THEN e.ver + 1 ELSE e.ver
    BY <1>1, WriteBackType
  <2>2. st \in {"sound", "provisional"}  BY StatusType
  <2> HIDE DEF w, st
  <2> QED  BY <2>1, <2>2 DEF Updated, w, st, Entity
<1> QED  BY <1>1, <1>2, <1>3, <1>5, <1>6

LEMMA UpdateTyped == ASSUME TypeOK, NEW c \in Clients, UpdateById(c) PROVE TypeOK'
<1> PICK e : e = entity[c]  OBVIOUS
<1>1. /\ Execute(c, Written(c, e)) /\ Written(c, e) \in [Ids -> Row \cup {Gone, Unwritten}]
      /\ entity' = IF versioned /\ Matched(c, e) = {} THEN entity
                   ELSE [entity EXCEPT ![c] = Updated(c, e)]
      /\ Updated(c, e) \in Entity
  BY UpdateUnfolds
<1>2. entity' \in [Clients -> Entity \cup {NoEntity}]  BY <1>1 DEF TypeOK
<1> QED  BY <1>1, <1>2, ExecuteType

LEMMA StepTyped == TypeOK /\ [Next]_vars => TypeOK'
<1> SUFFICES ASSUME TypeOK, [Next]_vars PROVE TypeOK'  OBVIOUS
<1>1. CASE UNCHANGED vars  BY <1>1 DEF vars, database, TypeOK
<1>2. ASSUME NEW c \in Clients, Begin(c) PROVE TypeOK'  BY <1>2 DEF Begin, TypeOK
<1> QED
  BY <1>1, <1>2, EndTyped, LoadTyped, ComposeTyped, DeleteTyped, UpdateTyped DEF Next

-----------------------------------------------------------------------------
(* What a step of one client means for the others.                         *)

OthersUntouched(c) ==
    \A d \in Clients \ {c} : write'[d] = write[d] /\ held'[d] = held[d] /\ entity'[d] = entity[d]

(* Rows change where no other client holds them, to newer ones.            *)
Renewed(c) ==
    \A id \in Ids : committed'[id] # committed[id] =>
        /\ \A d \in Clients \ {c} : id \notin held[d]
        /\ committed'[id] # Gone => committed[id] # Gone /\ committed[id].ver < committed'[id].ver

LEMMA VersionType ==
    /\ \A row \in Row : row.ver \in Nat /\ row.edits \in Seq(Clients) /\ row # Gone
    /\ \A e \in Entity : e.ver \in Nat /\ e.edits \in Seq(Clients) /\ e # NoEntity
BY NullsAssumption DEF Row, Entity

LEMMA OthersKeep ==
    ASSUME TypeOK, TypeOK', Locks, NEW c \in Clients, OthersUntouched(c), Renewed(c),
           NEW d \in Clients \ {c}, Consistent(d)
    PROVE  Consistent(d)'
<1>1. write'[d] = write[d] /\ held'[d] = held[d] /\ entity'[d] = entity[d]
  BY DEF OthersUntouched
<1>2. \A id \in Ids : /\ committed[id] \in Row \cup {Gone} /\ committed'[id] \in Row \cup {Gone}
                      /\ committed[id] # Gone => committed[id].ver \in Nat
                      /\ committed'[id] # Gone => committed'[id].ver \in Nat
                      /\ write[d][id] \in Row => write[d][id].ver \in Nat
  BY VersionType DEF TypeOK
<1>3. entity[d] # NoEntity => entity[d].ver \in Nat  BY VersionType DEF TypeOK
<1>4. \A id \in Ids : id \in held[d] => committed'[id] = committed[id]  BY DEF Renewed
<1>5. \A id \in Ids : write[d][id] # Unwritten => id \in held[d]  BY DEF Locks
<1>6. Growing(d)'
  BY <1>1, <1>4, <1>5, NullsAssumption DEF Consistent, Growing
<1>7. NotAhead(d)'
  <2> SUFFICES ASSUME NEW id \in Ids, Has(d, id)', entity'[d].status = "sound", committed'[id] # Gone
               PROVE  /\ entity'[d].ver <= committed'[id].ver
                      /\ entity'[d].ver = committed'[id].ver => entity'[d].edits = committed'[id].edits
    BY DEF NotAhead
  <2>1. Has(d, id)  BY <1>1 DEF Has
  <2>2. CASE committed'[id] = committed[id]
    BY <1>1, <2>1, <2>2 DEF Consistent, NotAhead
  <2>3. CASE committed'[id] # committed[id]
    <3>1. committed[id] # Gone /\ committed[id].ver < committed'[id].ver  BY <2>3 DEF Renewed
    <3>2. entity[d].ver <= committed[id].ver  BY <1>1, <2>1, <3>1 DEF Consistent, NotAhead
    <3>3. entity[d].ver < committed'[id].ver  BY <1>2, <1>3, <2>1, <3>1, <3>2 DEF Has
    <3> QED  BY <1>1, <1>2, <1>3, <2>1, <3>3 DEF Has
  <2> QED  BY <2>2, <2>3
<1>8. Traced(d)'  BY <1>1 DEF Consistent, Traced, Has
<1>9. UpToDate(d)'
  <2>1. \A id \in held[d] : id \in Ids /\ View(d)'[id] = View(d)[id]
    BY <1>1, <1>4 DEF TypeOK, View, Over
  <2> QED  BY <1>1, <2>1 DEF Consistent, UpToDate, Has
<1> QED  BY <1>6, <1>7, <1>8, <1>9 DEF Consistent

(* A step whose effect on the others is clear only has to keep its own     *)
(* client consistent.                                                      *)
LEMMA OwnPart ==
    ASSUME IInv, TypeOK', Locks', NEW c \in Clients, OthersUntouched(c), versioned' = versioned,
           versioned => Renewed(c) /\ FromZero' /\ Consistent(c)'
    PROVE  IInv'
<1>1. ASSUME versioned, NEW d \in Clients PROVE Consistent(d)'
  <2>1. CASE d = c  BY <1>1, <2>1
  <2>2. CASE d # c  BY <1>1, <2>2, OthersKeep DEF IInv
  <2> QED  BY <2>1, <2>2
<1> QED  BY <1>1 DEF IInv

-----------------------------------------------------------------------------
(* Transactions and reads.                                                 *)

LEMMA InitEstablishes == Init => IInv
<1> SUFFICES ASSUME Init PROVE IInv  OBVIOUS
<1>1. TypeOK  BY InitTyped
<1>2. Locks  BY DEF Init, Locks, Nothing
<1>3. FromZero  BY DEF Init, FromZero
<1>4. \A c \in Clients : Consistent(c)
  BY NullsAssumption DEF Init, Consistent, Growing, NotAhead, Traced, UpToDate, Has, Nothing
<1> QED  BY <1>1, <1>2, <1>3, <1>4 DEF IInv

LEMMA BeginStep == ASSUME IInv, NEW c \in Clients, Begin(c) PROVE IInv'
<1>1. TypeOK'  BY DEF Begin, IInv, TypeOK
<1>2. UNCHANGED <<versioned, committed, write, held, entity>>  BY DEF Begin
<1>3. Locks'
  <2>1. \A d \in Clients : ~tx'[d] => ~tx[d]  BY DEF Begin, IInv, TypeOK
  <2> QED  BY <1>2, <2>1 DEF IInv, Locks
<1>4. FromZero => FromZero'  BY <1>2 DEF FromZero
<1>5. \A d \in Clients : Consistent(d) => Consistent(d)'
  BY <1>2 DEF Consistent, Growing, NotAhead, Traced, UpToDate, Has, View
<1> QED  BY <1>1, <1>2, <1>3, <1>4, <1>5 DEF IInv

LEMMA EndEffect ==
    ASSUME IInv, NEW c \in Clients, Commit(c) \/ Rollback(c)
    PROVE  /\ TypeOK' /\ Locks' /\ OthersUntouched(c) /\ versioned' = versioned
           /\ held'[c] = {} /\ \A id \in Ids : write'[c][id] = Unwritten
<1>1. TypeOK'  BY EndTyped DEF IInv
<1>2. /\ tx' = [tx EXCEPT ![c] = FALSE] /\ write' = [write EXCEPT ![c] = Nothing]
      /\ held' = [held EXCEPT ![c] = {}] /\ versioned' = versioned
  BY DEF Commit, Rollback, End
<1>3. OthersUntouched(c)
  BY <1>2 DEF OthersUntouched, Commit, Rollback, IInv, TypeOK
<1>4. held'[c] = {} /\ \A id \in Ids : write'[c][id] = Unwritten
  BY <1>2 DEF IInv, TypeOK, Nothing
<1>5. Locks'
  <2>1. \A d \in Clients : held'[d] \subseteq held[d]  BY <1>2 DEF IInv, TypeOK
  <2>2. \A d \in Clients : ~tx'[d] => d = c \/ ~tx[d]  BY <1>2 DEF IInv, TypeOK
  <2> QED  BY <1>3, <1>4, <2>1, <2>2 DEF IInv, Locks, OthersUntouched
<1> QED  BY <1>1, <1>2, <1>3, <1>4, <1>5

LEMMA CommitEffect ==
    ASSUME IInv, NEW c \in Clients, Commit(c)
    PROVE  /\ \A id \in Ids : committed'[id] = IF write[c][id] = Unwritten THEN committed[id]
                                                                          ELSE write[c][id]
           /\ versioned => Renewed(c)
<1>1. \A id \in Ids : committed'[id] = IF write[c][id] = Unwritten THEN committed[id] ELSE write[c][id]
  BY ViewAt DEF Commit
<1>2. \A id \in Ids : write[c][id] \in Row \cup {Gone, Unwritten}  BY DEF IInv, TypeOK
<1>3. versioned => Renewed(c)
  BY <1>1, <1>2 DEF Renewed, IInv, Locks, Consistent, Growing
<1> QED  BY <1>1, <1>3

LEMMA CommitStep == ASSUME IInv, NEW c \in Clients, Commit(c) PROVE IInv'
<1>1. /\ TypeOK' /\ Locks' /\ OthersUntouched(c) /\ versioned' = versioned
      /\ held'[c] = {} /\ \A id \in Ids : write'[c][id] = Unwritten
  BY EndEffect
<1>2. \A id \in Ids : committed'[id] = IF write[c][id] = Unwritten THEN committed[id] ELSE write[c][id]
  BY CommitEffect
<1>3. /\ \A id \in Ids : committed[id] \in Row \cup {Gone}
      /\ \A id \in Ids : write[c][id] \in Row \cup {Gone, Unwritten}
      /\ entity[c] \in Entity \cup {NoEntity}
  BY DEF IInv, TypeOK
<1>4. ASSUME versioned PROVE Renewed(c)  BY <1>4, CommitEffect
<1>5. ASSUME versioned PROVE FromZero'
  <2> SUFFICES ASSUME NEW id \in Ids, committed'[id] # Gone, committed'[id].ver = 0
               PROVE  committed'[id].edits = <<>>
    BY DEF FromZero
  <2>1. committed'[id] = committed[id]
    BY <1>3, <1>4, <1>5, VersionType DEF Renewed
  <2> QED  BY <1>5, <2>1 DEF IInv, FromZero
<1>6. ASSUME versioned PROVE Consistent(c)'
  <2>1. Growing(c)' /\ UpToDate(c)'  BY <1>1, NullsAssumption DEF Growing, UpToDate
  <2>2. Traced(c)'
    <3>1. entity'[c] # NoEntity => entity'[c].status = "sound"
      BY <1>3 DEF Commit, IInv, TypeOK, Provisional, Entity
    <3> QED  BY <3>1 DEF Traced, Has
  <2>3. NotAhead(c)'
    <3> SUFFICES ASSUME NEW id \in Ids, Has(c, id)', committed'[id] # Gone
                 PROVE  /\ entity'[c].ver <= committed'[id].ver
                        /\ entity'[c].ver = committed'[id].ver => entity'[c].edits = committed'[id].edits
      BY DEF NotAhead
    <3>1. /\ Has(c, id) /\ entity[c] \in Entity
          /\ entity'[c].ver = entity[c].ver /\ entity'[c].edits = entity[c].edits
      BY <1>3 DEF Commit, IInv, TypeOK, Provisional, Entity, Has
    <3>2. CASE entity[c].status = "provisional"
      <4>1. write[c][id] # Unwritten /\ id \in held[c]
        BY <1>6, <3>1, <3>2 DEF IInv, Consistent, Traced, Locks
      <4>2. committed'[id] = View(c)[id]  BY DEF Commit
      <4>3. entity[c].ver = View(c)[id].ver /\ entity[c].edits = View(c)[id].edits
        BY <1>6, <3>1, <4>1, <4>2 DEF IInv, Consistent, UpToDate
      <4> QED  BY <3>1, <4>2, <4>3, VersionType
    <3>3. CASE entity[c].status = "sound"
      <4>1. CASE committed'[id] = committed[id]
        BY <1>6, <3>1, <3>3, <4>1 DEF IInv, Consistent, NotAhead
      <4>2. CASE committed'[id] # committed[id]
        <5>1. committed[id] # Gone /\ committed[id].ver < committed'[id].ver
          BY <1>4, <1>6, <4>2 DEF Renewed
        <5>2. entity[c].ver <= committed[id].ver
          BY <1>6, <3>1, <3>3, <5>1 DEF IInv, Consistent, NotAhead
        <5>3. committed[id].ver \in Nat /\ committed'[id].ver \in Nat /\ entity[c].ver \in Nat
          BY <1>2, <1>3, <3>1, <5>1, VersionType
        <5> QED  BY <3>1, <5>1, <5>2, <5>3
      <4> QED  BY <4>1, <4>2
    <3> QED  BY <3>1, <3>2, <3>3 DEF Entity
  <2> QED  BY <2>1, <2>2, <2>3 DEF Consistent
<1> QED  BY <1>1, <1>4, <1>5, <1>6, OwnPart

LEMMA RollbackStep == ASSUME IInv, NEW c \in Clients, Rollback(c) PROVE IInv'
<1>1. /\ TypeOK' /\ Locks' /\ OthersUntouched(c) /\ versioned' = versioned
      /\ held'[c] = {} /\ \A id \in Ids : write'[c][id] = Unwritten
  BY EndEffect
<1>2. committed' = committed  BY DEF Rollback
<1>3. entity'[c] = NoEntity \/ (entity'[c] = entity[c] /\ entity[c].status = "sound")
  BY DEF Rollback, IInv, TypeOK, Provisional, Entity
<1>4. Renewed(c) /\ (FromZero => FromZero')  BY <1>2 DEF Renewed, FromZero
<1>5. Consistent(c) => Consistent(c)'
  BY <1>1, <1>2, <1>3, NullsAssumption
     DEF Consistent, Growing, NotAhead, Traced, UpToDate, Has
<1> QED  BY <1>1, <1>4, <1>5, OwnPart DEF IInv

LEMMA LoadStep ==
    ASSUME IInv, NEW c \in Clients, NEW id \in Ids, GetById(c, id) \/ GetByLock(c, id)
    PROVE  IInv'
<1>1. TypeOK'  BY LoadTyped DEF IInv
<1>2. UNCHANGED <<versioned, committed, tx, write>>  BY DEF GetById, GetByLock, Load
<1>3. /\ OthersUntouched(c)
      /\ held'[c] = held[c] \/ (tx[c] /\ Free(c, {id}) /\ held'[c] = held[c] \cup {id})
  BY DEF GetById, GetByLock, Load, OthersUntouched, IInv, TypeOK
<1>4. Locks'
  <2>1. \A d \in Clients \ {c} : held'[c] \cap held[d] = {}
    BY <1>3 DEF IInv, Locks, Free
  <2>2. \A d \in Clients \ {c} : held'[d] = held[d]  BY <1>3 DEF OthersUntouched
  <2> QED  BY <1>2, <1>3, <2>1, <2>2 DEF IInv, Locks
<1>5. /\ entity'[c] # NoEntity /\ entity'[c].id = id /\ entity'[c].ver = View(c)[id].ver
      /\ entity'[c].edits = View(c)[id].edits /\ entity'[c].status = Status(c, {id})
  <2> DEFINE new == [id |-> id, ver |-> View(c)[id].ver, edits |-> View(c)[id].edits,
                     status |-> Status(c, {id})]
  <2>1. entity'[c] = new  BY DEF GetById, GetByLock, Load, IInv, TypeOK
  <2>2. new \in Entity
    <3>1. View(c)[id] \in Row  BY ViewType DEF GetById, GetByLock, Load, IInv
    <3> QED  BY <3>1, StatusType, IdsAssumption DEF Entity, Row
  <2>3. entity'[c] # NoEntity  BY <2>1, <2>2, NullsAssumption
  <2> QED  BY <2>1, <2>3
<1>6. Status(c, {id}) = IF write[c][id] # Unwritten THEN "provisional" ELSE "sound"
  BY <1>2 DEF Status, IInv, Locks
<1>7. View(c)' = View(c)  BY <1>2 DEF View, Over
<1>8. ASSUME Consistent(c) PROVE Consistent(c)'
  <2>1. Growing(c)'  BY <1>2, <1>8 DEF Consistent, Growing
  <2>2. NotAhead(c)'
    <3> SUFFICES ASSUME Has(c, id)', entity'[c].status = "sound", committed'[id] # Gone
                 PROVE  /\ entity'[c].ver <= committed'[id].ver
                        /\ entity'[c].ver = committed'[id].ver => entity'[c].edits = committed'[id].edits
      BY <1>5 DEF NotAhead, Has
    <3>1. View(c)[id] = committed'[id]  BY <1>2, <1>5, <1>6, ViewAt
    <3>2. committed'[id].ver \in Nat  BY <1>1, VersionType DEF TypeOK
    <3> QED  BY <1>5, <3>1, <3>2
  <2>3. Traced(c)'  BY <1>2, <1>5, <1>6 DEF Traced, Has
  <2>4. UpToDate(c)'  BY <1>5, <1>7 DEF UpToDate, Has
  <2> QED  BY <2>1, <2>2, <2>3, <2>4 DEF Consistent
<1>9. Renewed(c) /\ (FromZero => FromZero')  BY <1>2 DEF Renewed, FromZero
<1> QED  BY <1>1, <1>2, <1>3, <1>4, <1>8, <1>9, OwnPart DEF IInv

LEMMA ComposeStep == ASSUME IInv, NEW c \in Clients, NEW id \in EntityIds, Compose(c, id) PROVE IInv'
<1>1. TypeOK'  BY ComposeTyped DEF IInv
<1>2. UNCHANGED <<versioned, committed, tx, write, held>> /\ ~tx[c]  BY DEF Compose, database
<1>3. OthersUntouched(c)  BY <1>2 DEF Compose, OthersUntouched, IInv, TypeOK
<1>4. Locks' /\ held'[c] = {}  BY <1>2 DEF IInv, Locks
<1>5. entity'[c].ver = 0 /\ entity'[c].edits = <<>> /\ entity'[c].status = "sound"
  BY DEF Compose, IInv, TypeOK
<1>6. ASSUME FromZero, Consistent(c) PROVE Consistent(c)'
  <2>1. Growing(c)'  BY <1>2, <1>6 DEF Consistent, Growing
  <2>2. NotAhead(c)'
    <3>1. \A i \in Ids : committed'[i] # Gone => committed'[i].ver \in Nat
      BY <1>1, VersionType DEF TypeOK
    <3> QED  BY <1>2, <1>5, <1>6, <3>1 DEF NotAhead, FromZero
  <2>3. Traced(c)' /\ UpToDate(c)'  BY <1>4, <1>5 DEF Traced, UpToDate
  <2> QED  BY <2>1, <2>2, <2>3 DEF Consistent
<1>7. Renewed(c) /\ (FromZero => FromZero')  BY <1>2 DEF Renewed, FromZero
<1> QED  BY <1>1, <1>2, <1>3, <1>4, <1>6, <1>7, OwnPart DEF IInv

-----------------------------------------------------------------------------
(* Writes.                                                                 *)

(* A statement may write what no other client holds, and newer rows only.  *)
Admissible(c, W) ==
    \A id \in Ids : W[id] # Unwritten =>
        /\ Free(c, {id})
        /\ versioned /\ W[id] # Gone => View(c)[id] # Gone /\ View(c)[id].ver < W[id].ver

LEMMA ExecuteEffect ==
    ASSUME IInv, TypeOK', NEW c \in Clients, NEW W \in [Ids -> Row \cup {Gone, Unwritten}],
           Execute(c, W), Admissible(c, W),
           \A d \in Clients \ {c} : entity'[d] = entity[d]
    PROVE  /\ Locks' /\ OthersUntouched(c) /\ versioned' = versioned /\ tx' = tx
           /\ held'[c] = IF tx[c] THEN held[c] \cup {id \in Ids : W[id] # Unwritten} ELSE held[c]
           /\ \A id \in Ids : View(c)'[id] = IF W[id] = Unwritten THEN View(c)[id] ELSE W[id]
           /\ \A id \in Ids : write'[c][id] = IF tx[c] /\ W[id] # Unwritten THEN W[id] ELSE write[c][id]
           /\ \A id \in Ids : committed'[id] = IF ~tx[c] /\ W[id] # Unwritten THEN W[id]
                                                                              ELSE committed[id]
           /\ versioned => Renewed(c) /\ FromZero' /\ Growing(c)'
<1>1. versioned' = versioned /\ tx' = tx  BY DEF Execute
<1>2. held'[c] = IF tx[c] THEN held[c] \cup {id \in Ids : W[id] # Unwritten} ELSE held[c]
  BY DEF Execute, IInv, TypeOK
<1>3. \A id \in Ids : write'[c][id] = IF tx[c] /\ W[id] # Unwritten THEN W[id] ELSE write[c][id]
  BY DEF Execute, IInv, TypeOK, Over
<1>4. \A id \in Ids : committed'[id] = IF ~tx[c] /\ W[id] # Unwritten THEN W[id] ELSE committed[id]
  BY DEF Execute, IInv, TypeOK, Over
<1>5. OthersUntouched(c)  BY DEF Execute, OthersUntouched, IInv, TypeOK
<1>6. ~tx[c] => \A id \in Ids : write[c][id] = Unwritten  BY DEF IInv, Locks
<1>7. \A id \in Ids : View(c)'[id] = IF W[id] = Unwritten THEN View(c)[id] ELSE W[id]
  <2>1. \A id \in Ids :
           View(c)'[id] = IF write'[c][id] = Unwritten THEN committed'[id] ELSE write'[c][id]
    BY DEF View, Over
  <2> QED  BY <1>3, <1>4, <1>6, <2>1, ViewAt
<1>8. \A id \in Ids, d \in Clients \ {c} : W[id] # Unwritten => id \notin held[d]
  BY DEF Admissible, Free
<1>9. Locks'
  <2>1. \A d \in Clients \ {c} : held'[c] \cap held[d] = {}
    BY <1>2, <1>8 DEF IInv, Locks, TypeOK
  <2>2. \A id \in Ids : write'[c][id] # Unwritten => id \in held'[c]
    BY <1>2, <1>3 DEF IInv, Locks
  <2>3. \A d \in Clients \ {c} : held'[d] = held[d] /\ write'[d] = write[d]
    BY <1>5 DEF OthersUntouched
  <2>4. ~tx'[c] => held'[c] = {}  BY <1>1, <1>2 DEF IInv, Locks
  <2> QED  BY <1>1, <2>1, <2>2, <2>3, <2>4 DEF IInv, Locks
<1>10. ASSUME versioned PROVE Renewed(c) /\ FromZero' /\ Growing(c)'
  <2>1. \A id \in Ids : ~tx[c] => View(c)[id] = committed[id]  BY <1>6, ViewAt
  <2>2. Renewed(c)
    BY <1>4, <1>8, <1>10, <2>1 DEF Renewed, Admissible
  <2>3. FromZero'
    <3> SUFFICES ASSUME NEW id \in Ids, committed'[id] # Gone, committed'[id].ver = 0
                 PROVE  committed'[id].edits = <<>>
      BY DEF FromZero
    <3>1. committed[id] \in Row \cup {Gone}  BY DEF IInv, TypeOK
    <3>2. committed'[id] = committed[id]  BY <2>2, <3>1, VersionType DEF Renewed
    <3> QED  BY <1>10, <3>2 DEF IInv, FromZero
  <2>4. Growing(c)'
    <3> SUFFICES ASSUME NEW id \in Ids, write'[c][id] \in Row
                 PROVE  committed'[id] # Gone /\ committed'[id].ver < write'[c][id].ver
      BY DEF Growing
    <3>1. Growing(c)  BY <1>10 DEF IInv, Consistent
    <3>2. CASE write'[c][id] = write[c][id]
      <4>1. write[c][id] # Unwritten  BY <3>2, NullsAssumption
      <4>2. committed'[id] = committed[id]  BY <1>4, <1>6, <4>1
      <4> QED  BY <3>1, <3>2, <4>2 DEF Growing
    <3>3. CASE write'[c][id] # write[c][id]
      <4>1. tx[c] /\ W[id] # Unwritten /\ write'[c][id] = W[id] /\ W[id] \in Row /\ W[id] # Gone
        BY <1>3, <3>3, VersionType
      <4>2. View(c)[id] # Gone /\ View(c)[id].ver < W[id].ver  BY <1>10, <4>1 DEF Admissible
      <4>3. committed'[id] = committed[id]  BY <1>4, <4>1
      <4>4. CASE write[c][id] = Unwritten  BY <4>1, <4>2, <4>3, <4>4, ViewAt
      <4>5. CASE write[c][id] # Unwritten
        <5>1. View(c)[id] = write[c][id] /\ write[c][id] \in Row
          BY <4>2, <4>5, ViewAt DEF IInv, TypeOK
        <5>2. committed[id] # Gone /\ committed[id].ver < write[c][id].ver
          BY <3>1, <5>1 DEF Growing
        <5>3. committed[id] \in Row  BY <5>2 DEF IInv, TypeOK
        <5> QED  BY <4>1, <4>2, <4>3, <5>1, <5>2, <5>3, VersionType
      <4> QED  BY <4>4, <4>5
    <3> QED  BY <3>2, <3>3
  <2> QED  BY <2>2, <2>3, <2>4
<1> QED  BY <1>1, <1>2, <1>3, <1>4, <1>5, <1>7, <1>9, <1>10

LEMMA DeleteEffect ==
    ASSUME IInv, NEW c \in Clients, NEW id \in Ids, DeleteById(c, id)
    PROVE  /\ TypeOK' /\ Locks' /\ OthersUntouched(c) /\ versioned' = versioned
           /\ held'[c] \subseteq held[c] \cup {id}
           /\ \A i \in Ids : View(c)'[i] = IF i = id THEN Gone ELSE View(c)[i]
           /\ \A i \in Ids : committed'[i] = committed[i] \/ committed'[i] = Gone
           /\ \A i \in Ids : write'[c][i] = write[c][i] \/ write'[c][i] = Gone
           /\ versioned => Renewed(c) /\ FromZero' /\ Growing(c)'
<1> DEFINE W == [i \in Ids |-> IF i = id THEN Gone ELSE Unwritten]
<1>1. TypeOK'  BY DeleteTyped DEF IInv
<1>2. Execute(c, W) /\ Free(c, {id}) /\ entity' = entity  BY DEF DeleteById
<1>3. W \in [Ids -> Row \cup {Gone, Unwritten}] /\ \A i \in Ids : W[i] = IF i = id THEN Gone ELSE Unwritten
  OBVIOUS
<1> HIDE DEF W
<1>4. Admissible(c, W)  BY <1>2, <1>3 DEF Admissible
<1>5. /\ Locks' /\ OthersUntouched(c) /\ versioned' = versioned
      /\ held'[c] = IF tx[c] THEN held[c] \cup {i \in Ids : W[i] # Unwritten} ELSE held[c]
      /\ \A i \in Ids : View(c)'[i] = IF W[i] = Unwritten THEN View(c)[i] ELSE W[i]
      /\ \A i \in Ids : write'[c][i] = IF tx[c] /\ W[i] # Unwritten THEN W[i] ELSE write[c][i]
      /\ \A i \in Ids : committed'[i] = IF ~tx[c] /\ W[i] # Unwritten THEN W[i] ELSE committed[i]
      /\ versioned => Renewed(c) /\ FromZero' /\ Growing(c)'
  BY <1>1, <1>2, <1>3, <1>4, ExecuteEffect
<1>6. /\ held'[c] \subseteq held[c] \cup {id}
      /\ \A i \in Ids : View(c)'[i] = IF i = id THEN Gone ELSE View(c)[i]
      /\ \A i \in Ids : committed'[i] = committed[i] \/ committed'[i] = Gone
      /\ \A i \in Ids : write'[c][i] = write[c][i] \/ write'[c][i] = Gone
  BY <1>3, <1>5, NullsAssumption
<1> QED  BY <1>1, <1>5, <1>6

LEMMA DeleteStep == ASSUME IInv, NEW c \in Clients, NEW id \in Ids, DeleteById(c, id) PROVE IInv'
<1>1. /\ TypeOK' /\ Locks' /\ OthersUntouched(c) /\ versioned' = versioned
      /\ held'[c] \subseteq held[c] \cup {id}
      /\ \A i \in Ids : View(c)'[i] = IF i = id THEN Gone ELSE View(c)[i]
      /\ \A i \in Ids : committed'[i] = committed[i] \/ committed'[i] = Gone
      /\ \A i \in Ids : write'[c][i] = write[c][i] \/ write'[c][i] = Gone
      /\ versioned => Renewed(c) /\ FromZero' /\ Growing(c)'
  BY DeleteEffect
<1>2. entity' = entity  BY DEF DeleteById
<1>3. ASSUME versioned PROVE Consistent(c)'
  <2>1. NotAhead(c)'  BY <1>1, <1>2, <1>3 DEF IInv, Consistent, NotAhead, Has
  <2>2. Traced(c)'  BY <1>1, <1>2, <1>3, NullsAssumption DEF IInv, Consistent, Traced, Has
  <2>3. UpToDate(c)'
    <3>1. UpToDate(c) /\ held[c] \subseteq Ids  BY <1>3 DEF IInv, TypeOK, Consistent
    <3> SUFFICES ASSUME NEW i \in held'[c], Has(c, i), View(c)'[i] # Gone
                 PROVE  entity[c].ver = View(c)'[i].ver /\ entity[c].edits = View(c)'[i].edits
      BY <1>2 DEF UpToDate, Has
    <3>2. i # id /\ i \in held[c] /\ View(c)'[i] = View(c)[i]  BY <1>1, <3>1
    <3> QED  BY <3>1, <3>2 DEF UpToDate
  <2> QED  BY <1>1, <1>3, <2>1, <2>2, <2>3 DEF Consistent
<1> QED  BY <1>1, <1>3, OwnPart

(* What matches has the entity's key, if it has one, and its version.      *)
LEMMA MatchedRow ==
    ASSUME TypeOK, versioned, NEW c \in Clients, NEW e \in Entity, NEW id \in Matched(c, e)
    PROVE  /\ id \in Ids /\ id \in Targets(c, e) /\ (e.id = id \/ e.id = NoId)
           /\ View(c)[id] \in Row /\ View(c)[id].ver = e.ver
           /\ Written(c, e)[id].ver = e.ver + 1 /\ Written(c, e)[id].edits = Append(e.edits, c)
           /\ Written(c, e)[id] \in Row
<1>1. /\ id \in Ids /\ id \in Targets(c, e) /\ (e.id = id \/ e.id = NoId)
      /\ View(c)[id] # Gone /\ View(c)[id].ver = e.ver
  BY DEF Matched, Targets, Permitted
<1>2. View(c)[id] \in Row  BY <1>1, ViewType
<1>3. Written(c, e)[id] = SetClause(c, e, View(c)[id])  BY <1>1 DEF Written
<1>4. SetClause(c, e, View(c)[id]) \in Row  BY <1>2, SetClauseType
<1> QED  BY <1>1, <1>2, <1>3, <1>4 DEF SetClause

LEMMA UpdateEffect ==
    ASSUME IInv, NEW c \in Clients, UpdateById(c), NEW e, e = entity[c], NEW W, W = Written(c, e)
    PROVE  /\ TypeOK' /\ Locks' /\ OthersUntouched(c) /\ versioned' = versioned /\ tx' = tx
           /\ held'[c] = IF tx[c] THEN held[c] \cup {id \in Ids : W[id] # Unwritten} ELSE held[c]
           /\ \A id \in Ids : View(c)'[id] = IF W[id] = Unwritten THEN View(c)[id] ELSE W[id]
           /\ \A id \in Ids :
                  write'[c][id] = IF tx[c] /\ W[id] # Unwritten THEN W[id] ELSE write[c][id]
           /\ \A id \in Ids :
                  committed'[id] = IF ~tx[c] /\ W[id] # Unwritten THEN W[id] ELSE committed[id]
           /\ versioned => Renewed(c) /\ FromZero' /\ Growing(c)'
<1> DEFINE ids == Matched(c, e)  new == Updated(c, e)
<1>1. TypeOK'  BY UpdateTyped DEF IInv
<1>2. /\ e \in Entity /\ e # NoEntity /\ Execute(c, W) /\ Free(c, Targets(c, e))
      /\ W \in [Ids -> Row \cup {Gone, Unwritten}]
      /\ entity' = IF versioned /\ ids = {} THEN entity ELSE [entity EXCEPT ![c] = new]
      /\ new \in Entity /\ new.id = e.id /\ new.edits = Append(e.edits, c)
      /\ new.ver = IF versioned THEN e.ver + 1 ELSE e.ver
      /\ new.status = Status(c, ids)
  <2>1. TypeOK  BY DEF IInv
  <2>2. /\ e \in Entity /\ Execute(c, Written(c, e)) /\ Free(c, Targets(c, e))
        /\ Written(c, e) \in [Ids -> Row \cup {Gone, Unwritten}]
        /\ entity' = IF versioned /\ ids = {} THEN entity ELSE [entity EXCEPT ![c] = new]
        /\ new \in Entity /\ new.id = e.id /\ new.edits = Append(e.edits, c)
        /\ new.ver = IF versioned THEN e.ver + 1 ELSE e.ver
        /\ new.status = Status(c, ids)
    BY <2>1, UpdateUnfolds
  <2>3. e # NoEntity  BY <2>2, VersionType
  <2> QED  BY <2>2, <2>3
<1>3. \A id \in Ids : W[id] # Unwritten => id \in ids  BY DEF Written
<1>4. \A id \in ids : id \in Ids /\ id \in Targets(c, e)
  BY DEF Matched, Targets, Permitted
<1>5. ASSUME versioned, NEW id \in ids
      PROVE  /\ e.id = id \/ e.id = NoId
             /\ View(c)[id] \in Row /\ View(c)[id].ver = e.ver /\ W[id] \in Row
             /\ W[id].ver = e.ver + 1 /\ W[id].edits = Append(e.edits, c)
  BY <1>2, <1>5, MatchedRow DEF IInv
<1> HIDE DEF ids, new
<1>6. e.ver \in Nat  BY <1>2, VersionType
<1>7. Admissible(c, W)
  BY <1>2, <1>3, <1>4, <1>5, <1>6, VersionType DEF Admissible, Free
<1>8. \A d \in Clients \ {c} : entity'[d] = entity[d]  BY <1>2 DEF IInv, TypeOK
<1>9. /\ Locks' /\ OthersUntouched(c) /\ versioned' = versioned /\ tx' = tx
      /\ held'[c] = IF tx[c] THEN held[c] \cup {id \in Ids : W[id] # Unwritten} ELSE held[c]
      /\ \A id \in Ids : View(c)'[id] = IF W[id] = Unwritten THEN View(c)[id] ELSE W[id]
      /\ \A id \in Ids : write'[c][id] = IF tx[c] /\ W[id] # Unwritten THEN W[id] ELSE write[c][id]
      /\ \A id \in Ids : committed'[id] = IF ~tx[c] /\ W[id] # Unwritten THEN W[id] ELSE committed[id]
      /\ versioned => Renewed(c) /\ FromZero' /\ Growing(c)'
  BY <1>1, <1>2, <1>7, <1>8, ExecuteEffect
<1> QED  BY <1>1, <1>9

LEMMA UpdateStep == ASSUME IInv, NEW c \in Clients, UpdateById(c) PROVE IInv'
<1> PICK e : e = entity[c]  OBVIOUS
<1> PICK W : W = Written(c, e)  OBVIOUS
<1> DEFINE ids == Matched(c, e)  new == Updated(c, e)
<1>1. /\ e \in Entity /\ e # NoEntity /\ Execute(c, W) /\ Free(c, Targets(c, e))
      /\ W \in [Ids -> Row \cup {Gone, Unwritten}]
      /\ entity' = IF versioned /\ ids = {} THEN entity ELSE [entity EXCEPT ![c] = new]
      /\ new \in Entity /\ new.id = e.id /\ new.edits = Append(e.edits, c)
      /\ new.ver = IF versioned THEN e.ver + 1 ELSE e.ver
      /\ new.status = Status(c, ids)
  <2>1. TypeOK  BY DEF IInv
  <2>2. /\ e \in Entity /\ Execute(c, Written(c, e)) /\ Free(c, Targets(c, e))
        /\ Written(c, e) \in [Ids -> Row \cup {Gone, Unwritten}]
        /\ entity' = IF versioned /\ ids = {} THEN entity ELSE [entity EXCEPT ![c] = new]
        /\ new \in Entity /\ new.id = e.id /\ new.edits = Append(e.edits, c)
        /\ new.ver = IF versioned THEN e.ver + 1 ELSE e.ver
        /\ new.status = Status(c, ids)
    BY <2>1, UpdateUnfolds
  <2>3. e # NoEntity  BY <2>2, VersionType
  <2> QED  BY <2>2, <2>3
<1>2. \A id \in Ids : W[id] # Unwritten => id \in ids  BY DEF Written
<1>3. \A id \in ids : id \in Ids /\ id \in Targets(c, e)
  BY DEF Matched, Targets, Permitted
<1>4. ASSUME versioned, NEW id \in ids
      PROVE  /\ e.id = id \/ e.id = NoId
             /\ View(c)[id] \in Row /\ View(c)[id].ver = e.ver /\ W[id] \in Row
             /\ W[id].ver = e.ver + 1 /\ W[id].edits = Append(e.edits, c)
  BY <1>1, <1>4, MatchedRow DEF IInv
<1> HIDE DEF ids, new
<1>5. /\ TypeOK' /\ Locks' /\ OthersUntouched(c) /\ versioned' = versioned /\ tx' = tx
      /\ held'[c] = IF tx[c] THEN held[c] \cup {id \in Ids : W[id] # Unwritten} ELSE held[c]
      /\ \A id \in Ids : View(c)'[id] = IF W[id] = Unwritten THEN View(c)[id] ELSE W[id]
      /\ \A id \in Ids : write'[c][id] = IF tx[c] /\ W[id] # Unwritten THEN W[id] ELSE write[c][id]
      /\ \A id \in Ids : committed'[id] = IF ~tx[c] /\ W[id] # Unwritten THEN W[id] ELSE committed[id]
      /\ versioned => Renewed(c) /\ FromZero' /\ Growing(c)'
  BY UpdateEffect
<1>6. ASSUME versioned PROVE Consistent(c)'
  <2>1. Consistent(c)  BY <1>6 DEF IInv
  <2>2. CASE ids = {}
    <3>1. \A id \in Ids : W[id] = Unwritten  BY <1>2, <2>2
    <3>2. entity'[c] = entity[c]  BY <1>1, <1>6, <2>2
    <3>3. held'[c] = held[c]  BY <1>5, <3>1
    <3>4. \A id \in Ids : /\ View(c)'[id] = View(c)[id] /\ write'[c][id] = write[c][id]
                          /\ committed'[id] = committed[id]
      BY <1>5, <3>1
    <3>5. held[c] \subseteq Ids  BY DEF IInv, TypeOK
    <3>6. NotAhead(c)' /\ Traced(c)'
      BY <2>1, <3>2, <3>4 DEF Consistent, NotAhead, Traced, Has
    <3>7. UpToDate(c)'
      BY <2>1, <3>2, <3>3, <3>4, <3>5 DEF Consistent, UpToDate, Has
    <3> QED  BY <1>5, <1>6, <3>6, <3>7 DEF Consistent
  <2>3. CASE ids # {}
    <3>1. entity'[c] = new  BY <1>1, <2>3 DEF IInv, TypeOK
    <3>2. ASSUME NEW id \in Ids, Has(c, id)'
          PROVE  id \in ids /\ e.id = id
      <4>1. e.id = id  BY <1>1, <3>1, <3>2 DEF Has
      <4>2. PICK i \in ids : TRUE  BY <2>3
      <4>3. i \in Ids /\ (e.id = i \/ e.id = NoId)  BY <1>3, <1>4, <1>6, <4>2
      <4> QED  BY <4>1, <4>2, <4>3, IdsAssumption
    <3>3. ASSUME NEW id \in Ids, Has(c, id)'
          PROVE  W[id] # Unwritten /\ W[id] \in Row /\ W[id].ver = new.ver /\ W[id].edits = new.edits
      BY <1>1, <1>4, <1>6, <3>2, <3>3, NullsAssumption
    <3>4. ASSUME NEW id \in Ids, Has(c, id)'
          PROVE  entity'[c].status = IF tx[c] THEN "provisional" ELSE "sound"
      <4>1. tx[c] => write'[c][id] = W[id]  BY <1>5, <3>3, <3>4
      <4> QED  BY <1>1, <3>1, <3>2, <3>3, <3>4, <4>1 DEF Status
    <3>5. NotAhead(c)'
      <4> SUFFICES ASSUME NEW id \in Ids, Has(c, id)', entity'[c].status = "sound"
                   PROVE  /\ entity'[c].ver <= committed'[id].ver
                          /\ entity'[c].ver = committed'[id].ver =>
                                 entity'[c].edits = committed'[id].edits
        BY DEF NotAhead
      <4>1. committed'[id] = W[id]  BY <1>5, <3>3, <3>4
      <4>2. W[id].ver \in Nat  BY <3>3, VersionType
      <4> QED  BY <3>1, <3>3, <4>1, <4>2
    <3>6. Traced(c)'
      <4> SUFFICES ASSUME NEW id \in Ids, Has(c, id)', entity'[c].status = "provisional"
                   PROVE  write'[c][id] # Unwritten
        BY DEF Traced
      <4> QED  BY <1>5, <3>3, <3>4
    <3>7. UpToDate(c)'
      <4>1. held'[c] \subseteq Ids  BY <1>5 DEF TypeOK
      <4>2. \A id \in Ids : Has(c, id)' => View(c)'[id] = W[id]  BY <1>5, <3>3
      <4> QED  BY <3>1, <3>3, <4>1, <4>2 DEF UpToDate
    <3> QED  BY <1>5, <1>6, <3>5, <3>6, <3>7 DEF Consistent
  <2> QED  BY <2>2, <2>3
<1> QED  BY <1>5, <1>6, OwnPart

LEMMA StepPreserves == IInv /\ [Next]_vars => IInv'
<1> SUFFICES ASSUME IInv, [Next]_vars PROVE IInv'  OBVIOUS
<1>1. CASE UNCHANGED vars
  <2>1. TypeOK'  BY <1>1, StepTyped DEF IInv
  <2>2. UNCHANGED <<versioned, committed, tx, write, held, entity>>  BY <1>1 DEF vars, database
  <2>3. Locks' /\ (FromZero => FromZero')  BY <2>2 DEF IInv, Locks, FromZero
  <2>4. \A d \in Clients : Consistent(d) => Consistent(d)'
    BY <2>2 DEF Consistent, Growing, NotAhead, Traced, UpToDate, Has, View
  <2> QED  BY <2>1, <2>2, <2>3, <2>4 DEF IInv
<1>2. CASE Next
  BY <1>2, BeginStep, CommitStep, RollbackStep, UpdateStep, ComposeStep, LoadStep, DeleteStep
     DEF Next
<1> QED  BY <1>1, <1>2

(* The ages of rows and entities fit together in every reachable state.    *)
THEOREM Inductive == Spec => []IInv
BY InitEstablishes, StepPreserves, PTL DEF Spec

(* The state is well formed, whatever the clients do.                      *)
THEOREM Typed == Spec => []TypeOK
<1>1. IInv => TypeOK  BY DEF IInv
<1> QED  BY <1>1, Inductive, PTL

LEMMA Known == IInv => VersionIdentifiesContent
<1> SUFFICES ASSUME IInv, NEW c \in Clients, versioned, NEW id \in Ids, Has(c, id),
                    View(c)[id] # Gone, View(c)[id].ver = entity[c].ver
             PROVE  View(c)[id].edits = entity[c].edits
  BY DEF VersionIdentifiesContent, Has
<1>1. entity[c] \in Entity /\ View(c)[id] \in Row
  BY ViewType DEF IInv, TypeOK, Has
<1>2. Consistent(c)  BY DEF IInv
<1>3. CASE write[c][id] # Unwritten
  BY <1>2, <1>3 DEF IInv, Locks, Consistent, UpToDate
<1>4. CASE write[c][id] = Unwritten
  <2>1. View(c)[id] = committed[id]  BY <1>4, ViewAt
  <2>2. entity[c].status = "sound"  BY <1>1, <1>2, <1>4 DEF Consistent, Traced, Entity
  <2> QED  BY <1>2, <2>1, <2>2 DEF Consistent, NotAhead
<1> QED  BY <1>3, <1>4

(* An entity whose version is that of the row has the row's content: the   *)
(* comparison in UpdateById's WHERE is as good as one of whole rows.       *)
THEOREM OneContent == Spec => []VersionIdentifiesContent
BY Inductive, Known, PTL

(* In a transaction that has written or locked the row of its entity,      *)
(* UpdateById finds it with the entity's version, time after time          *)
(* (repository.go:490).                                                    *)
THEOREM UsableAgain == Spec => []DirectlyAgain
<1>1. IInv => DirectlyAgain
  BY DEF IInv, TypeOK, Consistent, UpToDate, DirectlyAgain, Has
<1> QED  BY <1>1, Inductive, PTL

-----------------------------------------------------------------------------
(* No update is lost.  For this every entity must have a key: one without  *)
(* overwrites any row of its version (repository.go:513).                  *)

Keyed == NoId \notin EntityIds

(* An uncommitted row has the edits of the committed one and more.         *)
Extending(c) ==
    \A id \in Ids :
        write[c][id] \in Row => IsPrefix(committed[id].edits, write[c][id].edits)

Preserved ==
    \A id \in Ids : committed[id] # Gone /\ committed'[id] # Gone =>
        IsPrefix(committed[id].edits, committed'[id].edits)

LEMMA PrefixSelf ==
    ASSUME IInv, NEW id \in Ids, committed[id] # Gone
    PROVE  IsPrefix(committed[id].edits, committed[id].edits)
<1>1. committed[id].edits \in Seq(Clients)  BY VersionType DEF IInv, TypeOK
<1>2. Len(committed[id].edits) <= Len(committed[id].edits)  BY <1>1, LenProperties
<1> QED  BY <1>2 DEF IsPrefix

LEMMA PrefixAppend ==
    ASSUME NEW t \in Seq(Clients), NEW u \in Seq(Clients), NEW c \in Clients, IsPrefix(t, u)
    PROVE  IsPrefix(t, Append(u, c))
<1>1. Len(t) \in Nat /\ Len(u) \in Nat /\ Len(t) <= Len(u)  BY LenProperties DEF IsPrefix
<1>2. Append(u, c) \in Seq(Clients) /\ Len(Append(u, c)) = Len(u) + 1  BY AppendProperties
<1>3. SubSeq(Append(u, c), 1, Len(t)) = SubSeq(u, 1, Len(t))
  <2>1. CASE Len(t) = 0  BY <2>1, SubSeqEmpty
  <2>2. CASE Len(t) # 0
    <3>1. 1 \in 1..Len(u) /\ Len(t) \in 1..Len(u)  BY <1>1, <2>2
    <3>2. Append(u, c) = u \o <<c>> /\ <<c>> \in Seq(Clients)  BY AppendIsConcat
    <3> QED  BY <3>1, <3>2, SubSeqOfConcat1
  <2> QED  BY <2>1, <2>2
<1> QED  BY <1>1, <1>2, <1>3 DEF IsPrefix

(* Where no row is written, nothing but removals happens to the edits.     *)
LEMMA QuietStep ==
    ASSUME IInv, \A d \in Clients : Extending(d),
           \A id \in Ids : committed'[id] = committed[id] \/ committed'[id] = Gone,
           NEW c \in Clients, OthersUntouched(c), Renewed(c),
           \A id \in Ids : write'[c][id] \in {write[c][id], Gone, Unwritten},
           \A id \in Ids : write'[c][id] \in Row => committed'[id] = committed[id]
    PROVE  Preserved /\ \A d \in Clients : Extending(d)'
<1>1. Preserved  BY PrefixSelf DEF Preserved
<1>2. Extending(c)'  BY NullsAssumption DEF Extending
<1>3. ASSUME NEW d \in Clients \ {c} PROVE Extending(d)'
  <2>1. write'[d] = write[d]  BY DEF OthersUntouched
  <2>2. \A id \in Ids : write[d][id] \in Row => committed'[id] = committed[id]
    BY NullsAssumption DEF Renewed, IInv, Locks
  <2> QED  BY <2>1, <2>2 DEF Extending
<1> QED  BY <1>1, <1>2, <1>3

LEMMA CommitPreserves ==
    ASSUME IInv, versioned, \A d \in Clients : Extending(d), NEW c \in Clients, Commit(c)
    PROVE  Preserved /\ \A d \in Clients : Extending(d)'
<1>1. /\ \A id \in Ids : committed'[id] = IF write[c][id] = Unwritten THEN committed[id]
                                                                     ELSE write[c][id]
      /\ Renewed(c)
  BY CommitEffect
<1>2. OthersUntouched(c) /\ \A id \in Ids : write'[c][id] = Unwritten  BY EndEffect
<1>3. Preserved
  <2> SUFFICES ASSUME NEW id \in Ids, committed[id] # Gone, committed'[id] # Gone
               PROVE  IsPrefix(committed[id].edits, committed'[id].edits)
    BY DEF Preserved
  <2>1. CASE write[c][id] = Unwritten  BY <1>1, <2>1, PrefixSelf
  <2>2. CASE write[c][id] # Unwritten
    <3>1. committed'[id] = write[c][id] /\ write[c][id] \in Row
      BY <1>1, <2>2 DEF IInv, TypeOK
    <3> QED  BY <3>1 DEF Extending
  <2> QED  BY <2>1, <2>2
<1>4. Extending(c)'  BY <1>2, NullsAssumption DEF Extending
<1>5. ASSUME NEW d \in Clients \ {c} PROVE Extending(d)'
  <2>1. write'[d] = write[d]  BY <1>2 DEF OthersUntouched
  <2>2. \A id \in Ids : write[d][id] \in Row => committed'[id] = committed[id]
    BY <1>1, NullsAssumption DEF Renewed, IInv, Locks
  <2> QED  BY <2>1, <2>2 DEF Extending
<1> QED  BY <1>3, <1>4, <1>5

LEMMA UpdatePreserves ==
    ASSUME Keyed, IInv, \A d \in Clients : Extending(d), NEW c \in Clients, UpdateById(c)
    PROVE  versioned => Preserved /\ \A d \in Clients : Extending(d)'
<1> PICK e : e = entity[c]  OBVIOUS
<1> PICK W : W = Written(c, e)  OBVIOUS
<1>1. /\ TypeOK' /\ Locks' /\ OthersUntouched(c) /\ versioned' = versioned /\ tx' = tx
      /\ held'[c] = IF tx[c] THEN held[c] \cup {id \in Ids : W[id] # Unwritten} ELSE held[c]
      /\ \A id \in Ids : View(c)'[id] = IF W[id] = Unwritten THEN View(c)[id] ELSE W[id]
      /\ \A id \in Ids : write'[c][id] = IF tx[c] /\ W[id] # Unwritten THEN W[id] ELSE write[c][id]
      /\ \A id \in Ids : committed'[id] = IF ~tx[c] /\ W[id] # Unwritten THEN W[id] ELSE committed[id]
      /\ versioned => Renewed(c) /\ FromZero' /\ Growing(c)'
  BY UpdateEffect
<1> HAVE versioned
<1>2. e \in Entity /\ e # NoEntity  BY UpdateUnfolds, VersionType DEF IInv
<1>3. ASSUME NEW id \in Ids, W[id] # Unwritten
      PROVE  /\ View(c)[id] \in Row /\ W[id] \in Row
             /\ W[id].edits = Append(View(c)[id].edits, c)
  <2>1. id \in Matched(c, e)  BY <1>3 DEF Written
  <2>2. /\ (e.id = id \/ e.id = NoId) /\ View(c)[id] \in Row /\ View(c)[id].ver = e.ver
        /\ W[id] \in Row /\ W[id].edits = Append(e.edits, c)
    BY <1>2, <2>1, MatchedRow DEF IInv
  <2>3. e.id = id  BY <1>2, <2>2 DEF Keyed, Entity
  <2>4. View(c)[id].edits = e.edits
    BY <1>2, <2>2, <2>3, Known, VersionType DEF VersionIdentifiesContent
  <2> QED  BY <2>2, <2>4
<1>4. ASSUME NEW id \in Ids, W[id] # Unwritten
      PROVE  committed[id] # Gone /\ IsPrefix(committed[id].edits, W[id].edits)
  <2>1. CASE write[c][id] = Unwritten
    <3>1. View(c)[id] = committed[id]  BY <2>1, ViewAt
    <3>2. committed[id].edits \in Seq(Clients) /\ committed[id] # Gone
      BY <1>3, <1>4, <3>1, VersionType
    <3>3. IsPrefix(committed[id].edits, Append(committed[id].edits, c))
      BY <3>2, PrefixSelf, PrefixAppend
    <3> QED  BY <1>3, <1>4, <3>1, <3>2, <3>3
  <2>2. CASE write[c][id] # Unwritten
    <3>1. View(c)[id] = write[c][id] /\ write[c][id] \in Row  BY <1>3, <1>4, <2>2, ViewAt
    <3>2. committed[id] # Gone  BY <3>1 DEF IInv, Consistent, Growing
    <3>3. committed[id].edits \in Seq(Clients) /\ write[c][id].edits \in Seq(Clients)
      BY <3>1, <3>2, VersionType DEF IInv, TypeOK
    <3>4. IsPrefix(committed[id].edits, write[c][id].edits)  BY <3>1 DEF Extending
    <3> QED  BY <1>3, <1>4, <3>1, <3>2, <3>3, <3>4, PrefixAppend
  <2> QED  BY <2>1, <2>2
<1>5. Preserved  BY <1>1, <1>4, PrefixSelf DEF Preserved
<1>6. Extending(c)'
  <2> SUFFICES ASSUME NEW id \in Ids, write'[c][id] \in Row
               PROVE  IsPrefix(committed'[id].edits, write'[c][id].edits)
    BY DEF Extending
  <2>1. write'[c][id] # Unwritten  BY NullsAssumption
  <2>2. CASE tx[c]
    <3>1. committed'[id] = committed[id]  BY <1>1, <2>2
    <3>2. CASE W[id] # Unwritten  BY <1>1, <1>4, <2>2, <3>1, <3>2
    <3>3. CASE W[id] = Unwritten  BY <1>1, <3>1, <3>3 DEF Extending
    <3> QED  BY <3>2, <3>3
  <2>3. CASE ~tx[c]  BY <1>1, <2>1, <2>3 DEF IInv, Locks
  <2> QED  BY <2>2, <2>3
<1>7. ASSUME NEW d \in Clients \ {c} PROVE Extending(d)'
  <2>1. write'[d] = write[d]  BY <1>1 DEF OthersUntouched
  <2>2. \A id \in Ids : write[d][id] \in Row => committed'[id] = committed[id]
    BY <1>1, NullsAssumption DEF Renewed, IInv, Locks
  <2> QED  BY <2>1, <2>2 DEF Extending
<1> QED  BY <1>5, <1>6, <1>7

LEMMA NothingLostInStep ==
    ASSUME Keyed, IInv, versioned, \A d \in Clients : Extending(d), [Next]_vars
    PROVE  Preserved /\ \A d \in Clients : Extending(d)'
<1>1. ASSUME UNCHANGED <<committed, write>>
      PROVE  Preserved /\ \A d \in Clients : Extending(d)'
  BY <1>1, PrefixSelf DEF Preserved, Extending
<1>2. CASE UNCHANGED vars  BY <1>1, <1>2 DEF vars, database
<1>3. ASSUME NEW c \in Clients, Begin(c) PROVE Preserved /\ \A d \in Clients : Extending(d)'
  BY <1>1, <1>3 DEF Begin
<1>4. ASSUME NEW c \in Clients, NEW id \in EntityIds, Compose(c, id)
      PROVE  Preserved /\ \A d \in Clients : Extending(d)'
  BY <1>1, <1>4 DEF Compose, database
<1>5. ASSUME NEW c \in Clients, NEW id \in Ids, GetById(c, id) \/ GetByLock(c, id)
      PROVE  Preserved /\ \A d \in Clients : Extending(d)'
  BY <1>1, <1>5 DEF GetById, GetByLock, Load
<1>6. ASSUME NEW c \in Clients, Rollback(c) PROVE Preserved /\ \A d \in Clients : Extending(d)'
  <2>1. OthersUntouched(c) /\ \A i \in Ids : write'[c][i] = Unwritten  BY <1>6, EndEffect
  <2>2. committed' = committed  BY <1>6 DEF Rollback
  <2>3. Renewed(c)  BY <2>2 DEF Renewed
  <2> QED  BY <2>1, <2>2, <2>3, QuietStep
<1>7. ASSUME NEW c \in Clients, NEW id \in Ids, DeleteById(c, id)
      PROVE  Preserved /\ \A d \in Clients : Extending(d)'
  <2>1. /\ TypeOK' /\ Locks' /\ OthersUntouched(c) /\ Renewed(c) /\ Growing(c)'
        /\ \A i \in Ids : committed'[i] = committed[i] \/ committed'[i] = Gone
        /\ \A i \in Ids : write'[c][i] = write[c][i] \/ write'[c][i] = Gone
    BY <1>7, DeleteEffect
  <2>2. \A i \in Ids : write'[c][i] \in Row => committed'[i] = committed[i]
    BY <2>1 DEF Growing
  <2> QED  BY <2>1, <2>2, QuietStep
<1> QED
  BY <1>2, <1>3, <1>4, <1>5, <1>6, <1>7, CommitPreserves, UpdatePreserves DEF Next

(* What one client committed is part of whatever is committed over it,     *)
(* whatever the clients load, lock, update, commit and roll back.          *)
THEOREM NothingLost ==
    ASSUME Keyed PROVE Spec => NoLostUpdate
<1> DEFINE KInv == IInv /\ (versioned => \A d \in Clients : Extending(d))
<1>1. Init => KInv
  <2> SUFFICES ASSUME Init PROVE KInv  OBVIOUS
  <2>1. \A d \in Clients : Extending(d)
    BY NullsAssumption DEF Init, Extending, Nothing
  <2> QED  BY <2>1, InitEstablishes
<1>2. KInv /\ [Next]_vars => KInv'
  <2> SUFFICES ASSUME KInv, [Next]_vars PROVE KInv'  OBVIOUS
  <2>1. versioned' = versioned
    <3>1. ASSUME NEW c \in Clients, UpdateById(c)  PROVE versioned' = versioned
      BY <3>1 DEF UpdateById, Execute
    <3>2. ASSUME NEW c \in Clients, NEW id \in Ids, DeleteById(c, id)
          PROVE  versioned' = versioned
      BY <3>2 DEF DeleteById, Execute
    <3>3. ASSUME NEW c \in Clients, Begin(c) \/ Commit(c) \/ Rollback(c)
          PROVE  versioned' = versioned
      BY <3>3 DEF Begin, Commit, Rollback, End
    <3>4. ASSUME NEW c \in Clients, NEW id, Compose(c, id) \/ GetById(c, id) \/ GetByLock(c, id)
          PROVE  versioned' = versioned
      BY <3>4 DEF Compose, GetById, GetByLock, Load
    <3>5. CASE UNCHANGED vars  BY <3>5 DEF vars
    <3> QED  BY <3>1, <3>2, <3>3, <3>4, <3>5 DEF Next
  <2>2. IInv'  BY StepPreserves
  <2> QED  BY <2>1, <2>2, NothingLostInStep
<1>3. KInv /\ [Next]_vars =>
        [versioned => \A id \in Ids : committed[id] # Gone /\ committed'[id] # Gone
                          => IsPrefix(committed[id].edits, committed'[id].edits)]_vars
  BY NothingLostInStep DEF Preserved
<1> QED  BY <1>1, <1>2, <1>3, PTL DEF Spec, NoLostUpdate
=============================================================================
