--------------------------- MODULE OptimisticLock ---------------------------
(***************************************************************************)
(* UpdateById of models with and without a gplus:"version" field, between  *)
(* clients that keep entities in memory across transactions.               *)
(*                                                                         *)
(* A client loads a row, changes the entity and writes it back, in a       *)
(* transaction of its own or in one that it commits or rolls back later.   *)
(* The content of a row is abstracted to the edits it is made of: an update*)
(* writes the edits its entity was loaded with and one by its client.      *)
(*                                                                         *)
(* The database is external: a row that was written or selected FOR UPDATE *)
(* is held until the end of the transaction, others wait for it and then   *)
(* see the committed row; a plain read sees committed rows and the reader's*)
(* own writes.  Rows are not created again under a key they had before.    *)
(***************************************************************************)
EXTENDS Naturals, SequencesExt

CONSTANTS
    Clients,
    Ids,          \* primary keys of the rows
    NoId,         \* the zero key of an entity that was not loaded
    EntityIds,    \* keys entities come with: those of rows, perhaps NoId
    MaxVersion,   \* bound: versions and edits of a row
    Gone, Unwritten, NoEntity

ASSUME IdsAssumption ==
    NoId \notin Ids /\ Ids \subseteq EntityIds /\ EntityIds \subseteq Ids \cup {NoId}
ASSUME MaxVersionAssumption == MaxVersion \in Nat

Row    == [ver : Nat, edits : Seq(Clients)]
Entity == [id : EntityIds, ver : Nat, edits : Seq(Clients),
           status : {"sound", "provisional"}]

ASSUME NullsAssumption == /\ Gone \notin Row /\ Unwritten \notin Row \cup {Gone}
                          /\ NoEntity \notin Entity

VARIABLES
    versioned,  \* the model has a version field
    rules,      \* the rows each effective rule of a client lets through
    committed,  \* the rows as committed
    tx,         \* the client has an open transaction
    write,      \* its uncommitted writes
    held,       \* the rows it has locked
    entity      \* the entity it has in memory

database == <<committed, tx, write, held>>
vars == <<versioned, rules, database, entity>>

Nothing == [id \in Ids |-> Unwritten]
Over(base, writes) ==
    [id \in Ids |-> IF writes[id] = Unwritten THEN base[id] ELSE writes[id]]

(* The rows as a client sees them.                                         *)
View(c) == Over(committed, write[c])
Permitted(c) == {id \in Ids : \A v \in rules[c] : id \in v}
Free(c, ids) == \A d \in Clients \ {c} : held[d] \cap ids = {}

Init ==
    /\ versioned \in BOOLEAN
    /\ rules \in [Clients -> {{}} \cup {{v} : v \in SUBSET Ids}]
    /\ committed = [id \in Ids |-> [ver |-> 0, edits |-> <<>>]]
    /\ tx = [c \in Clients |-> FALSE]
    /\ write = [c \in Clients |-> Nothing]
    /\ held = [c \in Clients |-> {}]
    /\ entity = [c \in Clients |-> NoEntity]

-----------------------------------------------------------------------------
(* Transactions (external; Repository.Transaction opens and ends them).    *)

Begin(c) ==
    /\ ~tx[c]
    /\ tx' = [tx EXCEPT ![c] = TRUE]
    /\ UNCHANGED <<versioned, rules, committed, write, held, entity>>

End(c) ==
    /\ tx[c]
    /\ tx' = [tx EXCEPT ![c] = FALSE]
    /\ write' = [write EXCEPT ![c] = Nothing]
    /\ held' = [held EXCEPT ![c] = {}]
    /\ UNCHANGED <<versioned, rules>>

(* An entity is provisional while its version and content come from        *)
(* uncommitted writes of its client.                                       *)
Status(c, ids) == IF tx[c] /\ (\E id \in ids : write'[c][id] # Unwritten)
                  THEN "provisional" ELSE "sound"
Provisional(c) == entity[c] # NoEntity /\ entity[c].status = "provisional"

Commit(c) ==
    /\ End(c)
    /\ committed' = View(c)
    /\ entity' = [entity EXCEPT ![c] = IF Provisional(c) THEN [@ EXCEPT !.status = "sound"]
                                                        ELSE @]

(* Rolling back undoes the rows and not the version UpdateById has already *)
(* written into the entity: the client has to drop it (README.md:237).     *)
Rollback(c) ==
    /\ End(c)
    /\ entity' = [entity EXCEPT ![c] = IF Provisional(c) THEN NoEntity ELSE @]
    /\ UNCHANGED committed

(* A statement of a client: at once durable, or part of its transaction.   *)
Execute(c, writes) ==
    /\ IF tx[c]
       THEN /\ write' = [write EXCEPT ![c] = Over(@, writes)]
            /\ held' = [held EXCEPT ![c] = @ \cup {id \in Ids : writes[id] # Unwritten}]
            /\ UNCHANGED committed
       ELSE committed' = Over(committed, writes) /\ UNCHANGED <<write, held>>
    /\ UNCHANGED <<versioned, rules, tx>>

-----------------------------------------------------------------------------
(* Operations of the Repository.                                           *)

Load(c, id) ==
    /\ id \in Permitted(c) /\ View(c)[id] # Gone
    /\ UNCHANGED <<versioned, rules, committed, tx, write>>
    /\ entity' = [entity EXCEPT ![c] =
                     [id |-> id, ver |-> View(c)[id].ver,
                      edits |-> View(c)[id].edits, status |-> Status(c, {id})]]

GetById(c, id) == Load(c, id) /\ UNCHANGED held

(* SELECT ... FOR UPDATE in the caller's transaction.                      *)
GetByLock(c, id) ==
    /\ tx[c] /\ Free(c, {id})
    /\ Load(c, id)
    /\ held' = [held EXCEPT ![c] = @ \cup {id}]

(* The caller fills an entity itself, its version left at zero and perhaps *)
(* its key as well.                                                        *)
Compose(c, id) ==
    /\ ~tx[c]
    /\ entity' = [entity EXCEPT ![c] =
                     [id |-> id, ver |-> 0, edits |-> <<>>, status |-> "sound"]]
    /\ UNCHANGED <<versioned, rules, database>>

DeleteById(c, id) ==
    /\ id \in Permitted(c) /\ Free(c, {id})
    /\ Execute(c, [i \in Ids |-> IF i = id THEN Gone ELSE Unwritten])
    /\ UNCHANGED entity

(* Model(entity) restricts to the key of the entity, if it has one.        *)
Targets(c, e) == {id \in Permitted(c) : (e.id = id \/ e.id = NoId) /\ View(c)[id] # Gone}

(* Mutation: the WHERE has no version.                                     *)
MatchedAnyVersion(c, e) == Targets(c, e)

(* ... WHERE version = the entity's.                                       *)
Matched(c, e) == {id \in Targets(c, e) : versioned => View(c)[id].ver = e.ver}

(* Mutation: SET takes the entity's version, not version + 1.              *)
SetClauseKeepsVersion(c, e, row) == [ver |-> e.ver, edits |-> Append(e.edits, c)]

(* buildUpdateMap and version = version + 1.                               *)
SetClause(c, e, row) ==
    [ver |-> IF versioned THEN row.ver + 1 ELSE row.ver, edits |-> Append(e.edits, c)]

(* Mutation: the new version is not written into the entity.               *)
WriteBackMissing(c, e) == [e EXCEPT !.edits = Append(@, c)]

(* Mutation: the version is counted down in the entity.                    *)
WriteBackDown(c, e) == [e EXCEPT !.edits = Append(@, c), !.ver = @ - 1]

(* writeVersionValue(oldVer + 1).                                          *)
WriteBack(c, e) ==
    [e EXCEPT !.edits = Append(@, c), !.ver = IF versioned THEN @ + 1 ELSE @]

(* GORM refuses an UPDATE without WHERE: no version, no key and no rules;  *)
(* nothing changes then.                                                   *)
MissingWhere(c, e) == ~versioned /\ e.id = NoId /\ rules[c] = {}

(* ErrOptimisticLock reports that a versioned model has no matching row;   *)
(* the entity is left alone then.  Without a version success is reported.  *)
UpdateById(c) ==
    /\ entity[c] # NoEntity
    /\ LET e   == entity[c]
           ids == Matched(c, e)
       IN  /\ Len(e.edits) < MaxVersion
           /\ ~MissingWhere(c, e)
           /\ Free(c, Targets(c, e))
           /\ Execute(c, [id \in Ids |-> IF id \in ids THEN SetClause(c, e, View(c)[id])
                                                        ELSE Unwritten])
           /\ entity' = IF versioned /\ ids = {} THEN entity
                        ELSE [entity EXCEPT ![c] =
                                 [WriteBack(c, e) EXCEPT !.status = Status(c, ids)]]

Next == \E c \in Clients :
            \/ Begin(c) \/ Commit(c) \/ Rollback(c)
            \/ UpdateById(c) \/ \E id \in EntityIds : Compose(c, id)
            \/ \E id \in Ids : GetById(c, id) \/ GetByLock(c, id) \/ DeleteById(c, id)

Spec == Init /\ [][Next]_vars

-----------------------------------------------------------------------------
(* Properties.                                                             *)

TypeOK ==
    /\ versioned \in BOOLEAN /\ tx \in [Clients -> BOOLEAN]
    /\ rules \in [Clients -> SUBSET SUBSET Ids]
    /\ committed \in [Ids -> Row \cup {Gone}]
    /\ write \in [Clients -> [Ids -> Row \cup {Gone, Unwritten}]]
    /\ held \in [Clients -> SUBSET Ids]
    /\ entity \in [Clients -> Entity \cup {NoEntity}]

(* No update is lost: what one client committed is part of whatever is     *)
(* committed over it, however loads, updates and transactions interleave.  *)
NoLostUpdate ==
    [][versioned => \A id \in Ids :
          committed[id] # Gone /\ committed'[id] # Gone
              => IsPrefix(committed[id].edits, committed'[id].edits)]_vars

(* A version stands for one content: an entity whose version is that of    *)
(* the row its client sees has the content of that row.                    *)
VersionIdentifiesContent ==
    \A c \in Clients :
        LET e == entity[c] IN
        versioned /\ e # NoEntity =>
            \A id \in Ids : e.id = id /\ View(c)[id] # Gone /\ View(c)[id].ver = e.ver
                => View(c)[id].edits = e.edits

(* repository.go:490: after a success the entity can be used again at once.*)
(* In a transaction that has updated or locked the row of its entity, the  *)
(* entity is up to date and no conflict can happen.                        *)
DirectlyAgain ==
    \A c \in Clients :
        LET e == entity[c] IN
        versioned /\ e # NoEntity =>
            \A id \in held[c] : e.id = id /\ View(c)[id] # Gone => View(c)[id].ver = e.ver
=============================================================================
