----------------------------- MODULE WhereClause -----------------------------
(***************************************************************************)
(* Which rows a statement touches: the WHERE clause that gplus and GORM    *)
(* put together from business conditions, primary keys, WithScope          *)
(* functions, the soft-delete filter and the permission rules.             *)
(*                                                                         *)
(* A condition is represented by the rows it is true of and by whether it  *)
(* is joined with OR; a nested group is a condition too, true of what its  *)
(* list selects.  The text of SQL joins a flat list in which AND binds     *)
(* tighter than OR, so the order in which the parts arrive matters: what   *)
(* is passed to Where, Delete or First directly comes first, the deferred  *)
(* scopes (business conditions, then WithScope functions) follow, then the *)
(* soft-delete filter, then the key of a loaded model.                     *)
(***************************************************************************)
EXTENDS Naturals, Sequences, FiniteSetsExt, SequencesExt

CONSTANTS
    Rows,     \* primary keys
    MaxConds  \* bound: conditions of one builder

ASSUME RowsAssumption == Rows \subseteq Nat
ASSUME MaxCondsAssumption == MaxConds \in Nat

VARIABLES
    softDelete,  \* the model has a gorm.DeletedAt field
    rules,       \* the rows each effective rule of the context lets through
    table,       \* rows that exist
    deleted,     \* rows with deleted_at set
    last         \* the last statement: operation, arguments, rows touched

vars == <<softDelete, rules, table, deleted, last>>

Condition == [isOr: BOOLEAN, rows: SUBSET Rows]
Conditions == BoundedSeq(Condition, MaxConds)

And(rows) == [isOr |-> FALSE, rows |-> rows]

-----------------------------------------------------------------------------
(* GORM (external).                                                        *)

(* The rows a flat list selects: some run of AND-joined conditions,        *)
(* beginning at the head or at an OR, holds as a whole.                    *)
Sat(exprs) ==
    {r \in Rows :
        \/ exprs = <<>>
        \/ \E s \in DOMAIN exprs :
              /\ s = 1 \/ exprs[s].isOr
              /\ \A k \in DOMAIN exprs :
                    k >= s /\ (\A j \in s + 1 .. k : ~exprs[j].isOr)
                        => r \in exprs[k].rows}

(* clause.Where.Build: a list that opens with an OR condition is written   *)
(* with its first AND condition swapped to the head.                       *)
FirstPlain(exprs) == Min({k \in DOMAIN exprs : ~exprs[k].isOr})
Reordered(exprs) ==
    IF \A k \in DOMAIN exprs : exprs[k].isOr THEN exprs
    ELSE [k \in DOMAIN exprs |->
             CASE k = 1                 -> exprs[FirstPlain(exprs)]
               [] k = FirstPlain(exprs) -> exprs[1]
               [] OTHER                 -> exprs[k]]

(* The soft-delete clause isolates what is already there if it has an OR.  *)
LiveOnly(exprs) ==
    IF \E k \in DOMAIN exprs : exprs[k].isOr
    THEN <<And(Sat(exprs)), And(Rows \ deleted)>>
    ELSE Append(exprs, And(Rows \ deleted))

Filtered(exprs, unscoped) ==
    IF softDelete /\ ~unscoped THEN LiveOnly(exprs) ELSE exprs

-----------------------------------------------------------------------------
(* gplus.                                                                  *)

(* Mutation: the rules are appended to the list like other conditions.     *)
applyWhereAppended(exprs, rs) ==
    Sat(exprs \o SetToSeq({And(v) : v \in rs}))

(* Mutation: the protected clause holds the rules only.                    *)
applyWhereReplaced(exprs, rs) ==
    IF rs = {} THEN Sat(Reordered(exprs)) ELSE {r \in Rows : \A v \in rs : r \in v}

(* Mutation: the rules are isolated, the list before them is split.        *)
applyWhereDistributed(exprs, rs) ==
    IF rs = {} THEN Sat(Reordered(exprs))
    ELSE {r \in Rows : (\A v \in rs : r \in v) /\ \A k \in DOMAIN exprs : r \in exprs[k].rows}

(* applyWhere: without rules the list is left to GORM.  With rules, the    *)
(* builder installed on the WHERE clause runs when the text is made, after *)
(* every scope: the whole list becomes one group, the rules another.       *)
applyWhere(exprs, rs) ==
    IF rs = {} THEN Sat(Reordered(exprs))
    ELSE Sat(exprs) \cap {r \in Rows : \A v \in rs : r \in v}

(* GORM refuses an UPDATE or DELETE whose WHERE has nothing but the        *)
(* soft-delete filter; the conditions written back by applyWhere make it   *)
(* see a statement that is restricted by rules alone.                      *)
MissingWhere(exprs, rs) == exprs = <<>> /\ rs = {}

(* The rows there are for a statement, whatever its conditions.            *)
Live(unscoped) == IF softDelete /\ ~unscoped THEN table \ deleted ELSE table

(* A statement with the rows it touches.  The properties also need: ids,   *)
(* the rows the operation names; asked, what the list says in SQL's own    *)
(* reading; kept, what a HAVING or a JOIN is meant to keep.                *)
Statement(op, ids, exprs, rs, unscoped) ==
    [op |-> op, ids |-> ids, rules |-> rs, err |-> "none",
     leadingOr |-> exprs # <<>> /\ Head(exprs).isOr,
     mixed |-> \E k \in DOMAIN exprs : exprs[k].isOr,
     asked |-> Live(unscoped) \cap Sat(exprs),
     rows  |-> table \cap applyWhere(Filtered(exprs, unscoped), rs),
     hidden |-> IF unscoped THEN {} ELSE deleted,
     kept  |-> Rows]

Failed(op, rs, e) ==
    [op |-> op, ids |-> {}, rules |-> rs, err |-> e, leadingOr |-> FALSE,
     mixed |-> FALSE, asked |-> {}, rows |-> {}, hidden |-> {}, kept |-> {}]

Write(op, exprs, unscoped) ==
    IF MissingWhere(exprs, rules) THEN Failed(op, rules, "ErrMissingWhereClause")
    ELSE Statement(op, Rows, exprs, rules, unscoped)

Init ==
    /\ softDelete \in BOOLEAN
    /\ rules \in {{}} \cup {{v} : v \in SUBSET Rows}
    /\ table = Rows
    /\ deleted \in IF softDelete THEN SUBSET Rows ELSE {{}}
    /\ last = Failed("none", {}, "none")

Read(stmt) ==
    /\ last' = stmt
    /\ UNCHANGED <<softDelete, rules, table, deleted>>

(* List, GetOne, Count, ...: business conditions, then WithScope functions *)
(* (scopes), which may join with OR.                                       *)
Find(conds, scopes, unscoped) ==
    Read(Statement("Find", Rows, conds \o scopes, rules, unscoped))

(* Mutation: the HAVING list is joined as text, like the WHERE list.       *)
havingExprsFlat(havings) == <<Sat(havings)>>

(* buildHavingExprs: an OR item is merged into the item before it; GORM    *)
(* joins what remains with AND.                                            *)
Merge(result, c) ==
    IF c.isOr /\ result # <<>>
    THEN [result EXCEPT ![Len(result)] = @ \cup c.rows]
    ELSE Append(result, c.rows)
havingExprs(havings) ==
    LET result[n \in 0..Len(havings)] ==
            IF n = 0 THEN <<>> ELSE Merge(result[n - 1], havings[n])
    IN  result[Len(havings)]

(* applyGroupHaving, with one row in every group.                          *)
applyGroupHaving(havings) ==
    {r \in Rows : \A k \in DOMAIN havingExprs(havings) : r \in havingExprs(havings)[k]}

(* How a reader of the chain takes it: every Having, together with the     *)
(* OrHavings that follow it, is one requirement.                           *)
Required(havings) ==
    {r \in Rows : \A s \in DOMAIN havings :
        s = 1 \/ ~havings[s].isOr =>
            \E k \in s .. Len(havings) :
                (\A j \in s + 1 .. k : havings[j].isOr) /\ r \in havings[k].rows}

FindGrouped(conds, havings, unscoped) ==
    LET stmt == Statement("FindGrouped", Rows, conds, rules, unscoped)
    IN  Read([stmt EXCEPT !.rows = @ \cap applyGroupHaving(havings),
                          !.kept = Required(havings)])

(* Mutation: no parentheses around the further conditions.                 *)
applyJoinsBare(equal, on) == Sat(<<And(equal)>> \o on)

(* A JOIN whose columns are equal for the rows of `equal`, with further    *)
(* conditions.  renderJoinOn writes their list in order, AND and OR as     *)
(* they come, and applyJoins puts it in parentheses.                       *)
applyJoins(equal, on) ==
    Sat(IF on = <<>> THEN <<And(equal)>> ELSE <<And(equal), And(Sat(on))>>)

FindJoined(conds, inner, equal, on) ==
    LET stmt == Statement("FindJoined", Rows, conds, rules, FALSE)
    IN  Read([stmt EXCEPT !.rows = IF inner THEN @ \cap applyJoins(equal, on) ELSE @,
                          !.kept = IF inner THEN {r \in equal : on = <<>> \/ r \in Sat(on)}
                                   ELSE Rows])

(* GetById and GetByIds.                                                   *)
GetByIds(ids) == Read(Statement("GetByIds", ids, <<And(ids)>>, rules, FALSE))

(* Deleting marks the rows of a soft-delete model, else removes them.      *)
Delete(stmt, unscoped) ==
    /\ last' = stmt
    /\ IF softDelete /\ ~unscoped
       THEN deleted' = deleted \cup stmt.rows /\ UNCHANGED table
       ELSE /\ table' = table \ stmt.rows
            /\ deleted' = deleted \ stmt.rows
    /\ UNCHANGED <<softDelete, rules>>

(* IsEmpty lets a query pass that holds only the rules of an earlier use.  *)
DeleteByCond(conds, scopes, unscoped) ==
    /\ conds # <<>> \/ rules # {}
    /\ Delete(Write("DeleteByCond", conds \o scopes, unscoped), unscoped)

(* DeleteById and DeleteByIds.                                             *)
DeleteByIds(ids) ==
    Delete(Statement("DeleteByIds", ids, <<And(ids)>>, rules, FALSE), FALSE)

UpdateByCond(conds, scopes) ==
    /\ conds # <<>> \/ rules # {}
    /\ Read(Write("UpdateByCond", conds \o scopes, FALSE))

(* Mutation: the ids are not part of the statement.                        *)
UpdateByIdsUnbound(ids, conds) ==
    Read(Statement("UpdateByIds", ids, conds, rules, FALSE))

(* Where(ids), then the conditions of the updater as a second scope.       *)
UpdateByIds(ids, conds) ==
    Read(Statement("UpdateByIds", ids, <<And(ids)>> \o conds, rules, FALSE))

Undelete(stmt) ==
    /\ softDelete
    /\ last' = stmt
    /\ deleted' = deleted \ stmt.rows
    /\ UNCHANGED <<softDelete, rules, table>>

Restore(id) ==
    Undelete(Statement("Restore", {id}, <<And({id}), And(deleted)>>, rules, TRUE))

(* Unscoped, Where("deleted_at IS NOT NULL") before the deferred scope.    *)
RestoreByCond(conds) ==
    /\ conds # <<>> \/ rules # {}
    /\ Undelete(Statement("RestoreByCond", deleted, <<And(deleted)>> \o conds, rules, TRUE))

(* Mutation: the update runs outside a transaction, the failed re-read     *)
(* cannot undo it.                                                         *)
FirstOrUpdateKeeps(conds, updConds, updRules, moves) ==
    LET found   == table \cap applyWhere(Filtered(conds, FALSE), rules)
        key     == Min(found)
        updated == table \cap applyWhere(Append(Filtered(updConds, FALSE), And({key})), updRules)
        lost    == moves /\ rules # {} /\ key \in updated
    IN  Read(IF found = {} THEN Failed("Create", rules, "none")
             ELSE [Statement("FirstOrUpdate", {key}, updConds, updRules, FALSE)
                      EXCEPT !.rows = updated,
                             !.err = IF lost THEN "ErrRecordNotFound" ELSE "none"])

(* The row is looked up with the query, in primary key order; the updater  *)
(* runs its conditions under the rules of its own context, and GORM adds   *)
(* the key of the loaded row last.  An update that moves the found row out *)
(* of the rules' sight is undone (module FirstOr has the transaction).     *)
(* Not finding a row creates one.                                          *)
FirstOrUpdate(conds, updConds, updRules, moves) ==
    LET found   == table \cap applyWhere(Filtered(conds, FALSE), rules)
        key     == Min(found)
        updated == table \cap applyWhere(Append(Filtered(updConds, FALSE), And({key})), updRules)
        lost    == moves /\ rules # {} /\ key \in updated
    IN  Read(IF found = {} THEN Failed("Create", rules, "none")
             ELSE IF lost THEN Failed("FirstOrUpdate", rules, "ErrRecordNotFound")
             ELSE [Statement("FirstOrUpdate", {key}, updConds, updRules, FALSE)
                      EXCEPT !.rows = updated])

Scopes == {<<>>} \cup {<<c>> : c \in Condition}

Reads == \/ \E conds \in Conditions, scopes \in Scopes, unscoped \in BOOLEAN :
               Find(conds, scopes, unscoped)
         \/ \E conds \in Scopes, havings \in BoundedSeq(Condition, MaxConds + 1),
               unscoped \in BOOLEAN : FindGrouped(conds, havings, unscoped)
         \/ \E conds \in Scopes, inner \in BOOLEAN, equal \in SUBSET Rows, on \in Conditions :
               FindJoined(conds, inner, equal, on)
         \/ \E ids \in SUBSET Rows \ {{}} : GetByIds(ids)
Deletes == \/ \E conds \in Conditions, scopes \in Scopes, unscoped \in BOOLEAN :
                 DeleteByCond(conds, scopes, unscoped)
           \/ \E ids \in SUBSET Rows \ {{}} : DeleteByIds(ids)
Updates == \/ \E conds \in Conditions, scopes \in Scopes : UpdateByCond(conds, scopes)
           \/ \E ids \in SUBSET Rows \ {{}}, conds \in Conditions : UpdateByIds(ids, conds)
           \/ \E id \in Rows : Restore(id)
           \/ \E conds \in Conditions : RestoreByCond(conds)
           \/ \E conds, updConds \in Conditions, updRules \in {{}, rules}, moves \in BOOLEAN :
                 FirstOrUpdate(conds, updConds, updRules, moves)

(* One statement at a time: its result is taken before the next is issued. *)
Nothing == Failed("none", {}, "none")
Result == last # Nothing /\ Read(Nothing)
Next == Result \/ (last = Nothing /\ (Reads \/ Deletes \/ Updates))

Spec == Init /\ [][Next]_vars

-----------------------------------------------------------------------------
(* Properties.                                                             *)

(* Types; a deleted row is a row of the table, and an operation that       *)
(* answers an error has touched none.                                      *)
TypeOK ==
    /\ softDelete \in BOOLEAN
    /\ rules \subseteq SUBSET Rows
    /\ table \subseteq Rows /\ deleted \subseteq table
    /\ last.rows \subseteq Rows /\ last.ids \subseteq Rows
    /\ last.err \in {"none", "ErrMissingWhereClause", "ErrRecordNotFound"}
    /\ last.err # "none" => last.rows = {}

(* Rows a set of rules lets through.                                       *)
Permitted(rs) == {r \in Rows : \A v \in rs : r \in v}

(* No statement reads or changes a row that a rule hides, wherever an OR   *)
(* stands: in the query, in a WithScope function that runs after the rules *)
(* were attached, in the updater, or next to the primary keys.             *)
RulesHold == last.rows \subseteq Permitted(last.rules)

(* The rules take rows away and change nothing else: what the business     *)
(* conditions select in SQL's own reading, minus the deleted rows, is what *)
(* is left of them (builder.go:23).                                        *)
RulesOnlyRestrict ==
    last.op \in {"Find", "DeleteByCond", "UpdateByCond"} /\ ~last.leadingOr
        => last.rows = last.asked \cap Permitted(last.rules)

(* A soft-deleted row is out of reach of a statement that did not ask for  *)
(* Unscoped, be there an OR or a rule: it cannot be returned, updated or   *)
(* deleted again.                                                          *)
DeletedStayHidden ==
    last.op \notin {"Restore", "RestoreByCond"} => last.rows \cap last.hidden = {}

(* The operations on primary keys, and the update of FirstOrUpdate, stay   *)
(* within their keys as long as the updater brings no OR condition.        *)
KeysBound == ~last.mixed => last.rows \subseteq last.ids

(* builder.go:774: a HAVING narrows the result to the groups that meet     *)
(* each requirement of its chain, wherever its ORs stand, and never brings *)
(* back a row that WHERE, a rule or the soft-delete filter took away.  The *)
(* conditions of an inner JOIN narrow it to rows whose columns are equal,  *)
(* those of a LEFT JOIN leave it alone (join_on.go:78).                    *)
FiltersNarrow ==
    last.op \in {"FindGrouped", "FindJoined"} /\ ~last.leadingOr
        => last.rows = last.asked \cap Permitted(last.rules) \cap last.kept

(* repository.go:885, README.md:132 and repository.go:720: UpdateByIds is  *)
(* an update by a list of primary keys, FirstOrUpdate updates the record   *)
(* it found; an OR condition of the updater takes both outside.            *)
UpdatesStayOnKeys ==
    last.op \in {"UpdateByIds", "FirstOrUpdate"} => last.rows \subseteq last.ids
=============================================================================
