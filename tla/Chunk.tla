-------------------------------- MODULE Chunk --------------------------------
(***************************************************************************)
(* ChunkTx: a query result is handed to a callback batch by batch.         *)
(*                                                                         *)
(* The loop is GORM's FindInBatches.  It reads a batch into a slice of     *)
(* gplus, calls back, and takes the key of the last element of that slice  *)
(* for the next batch's WHERE.  The user's callback owns the batch it is   *)
(* given and may change it, so gplus replaces the slice by one holding a   *)
(* copy of the key, made before the callback runs and only when it expects *)
(* GORM to go on.  Between the batches other sessions insert and delete    *)
(* rows.  The checks ChunkTx makes before the loop (repository.go:826-840) *)
(* are QueryBuilder's ChunkTx.                                             *)
(***************************************************************************)
EXTENDS Integers, FiniteSets, SequencesExt, KeyOrder

CONSTANTS
    Keys,       \* primary keys, 0 is the zero value of the key's type
    BatchSizes, Limits, Offsets   \* arguments; limit 0 and offset 0 are unset

ASSUME KeysAssumption == Keys \subseteq Nat /\ IsFiniteSet(Keys)
ASSUME ArgumentsAssumption ==
    BatchSizes \subseteq Nat \ {0} /\ Limits \subseteq Nat /\ Offsets \subseteq Nat

VARIABLES
    batchSize, limit, offset,  \* the arguments of this call
    table,    \* keys of the rows matching query and rules
    stable,   \* those that are there since the call began
    size,     \* GORM: rows to read next
    batchNo,  \* GORM: batches read
    got,      \* GORM: rows in the last batch
    after,    \* GORM: key of the cursor condition, -1 before the first one
    batch,    \* the slice both GORM and gplus hold, as its keys
    handed,   \* keys handed to the callback, in order
    pc, err

args == <<batchSize, limit, offset>>
loop == <<size, batchNo, got, after>>
vars == <<args, table, stable, loop, batch, handed, pc, err>>

NoKey == -1

(* Mutation: the limit stays in the query, where FindInBatches overwrites  *)
(* it with the batch size.                                                 *)
TotalUnseen(lim) == 0

(* ChunkTx takes Limit and Offset out of its copy of the query and sets    *)
(* them on the session before its scopes run; FindInBatches reads there    *)
(* how many rows it may hand over in total.                                *)
Total(lim) == lim

(* GORM: a batch is never larger than the total.                           *)
FirstSize(n, total) == IF total > 0 /\ n > total THEN total ELSE n

Init ==
    /\ batchSize \in BatchSizes /\ limit \in Limits /\ offset \in Offsets
    /\ table \in SUBSET Keys /\ stable = table
    /\ size = FirstSize(batchSize, Total(limit))
    /\ batchNo = 0 /\ got = 0 /\ after = NoKey
    /\ batch = <<>> /\ handed = <<>>
    /\ pc = "find" /\ err = "none"

Stop(e) == pc' = "stopped" /\ err' = e

(* Limit(size).Find: the rows after the cursor, in key order; the offset   *)
(* applies to the first batch only.                                        *)
Rows == LET ahead == InOrder({k \in table : k > after})
            skip  == IF batchNo = 0 THEN offset ELSE 0
        IN  SubSeq(ahead, skip + 1, IF skip + size <= Len(ahead) THEN skip + size
                                                                 ELSE Len(ahead))
Find ==
    /\ pc = "find"
    /\ batch' = Rows
    /\ batchNo' = batchNo + 1 /\ got' = Len(Rows)
    /\ IF Rows = <<>> THEN Stop("none") ELSE pc' = "callback" /\ UNCHANGED err
    /\ UNCHANGED <<args, table, stable, size, after, handed>>

(* An error of the database in any batch ends the loop.                    *)
FindFails ==
    /\ pc = "find"
    /\ Stop("database")
    /\ UNCHANGED <<args, table, stable, loop, batch, handed>>

(* Mutation: another page is expected only if a full one fits in the limit.*)
SavesCursorFullPages(rows, processed) ==
    /\ Len(rows) = batchSize
    /\ limit <= 0 \/ processed + batchSize <= limit

(* gplus expects another page after a full batch, unless the limit is used *)
(* up; processed counts this batch too.                                    *)
SavesCursor(rows, processed) ==
    /\ Len(rows) = batchSize
    /\ limit <= 0 \/ processed < limit

(* Mutation: the slice handed to the callback stays GORM's slice.          *)
SliceAfterShared(rows, changed, processed) == changed

(* Mutation: no record is put in the slice when no page is expected.       *)
SliceAfterEmpty(rows, changed, processed) ==
    IF SavesCursor(rows, processed) THEN <<Last(rows)>> ELSE <<>>

(* The slice after the callback: one record with the key of the last row   *)
(* as it was before the callback, or with the zero key.                    *)
SliceAfter(rows, changed, processed) ==
    IF SavesCursor(rows, processed) THEN <<Last(rows)>> ELSE <<0>>

(* The callback may reverse the batch or overwrite the key of its last row.*)
Mutations(rows) ==
    {rows, Reverse(rows)} \cup {ReplaceAt(rows, Len(rows), k) : k \in Keys}

Callback ==
    /\ pc = "callback"
    /\ handed' = handed \o batch
    /\ \E changed \in Mutations(batch) :
          batch' = SliceAfter(batch, changed, Len(handed'))
    /\ pc' = "advance"
    /\ UNCHANGED <<args, table, stable, loop, err>>

CallbackFails ==
    /\ pc = "callback"
    /\ handed' = handed \o batch
    /\ Stop("fn")
    /\ UNCHANGED <<args, table, stable, loop, batch>>

(* The key cannot be set in the cursor record: the callback still gets its *)
(* batch, then the call ends with that error.                              *)
CursorFails ==
    /\ pc = "callback"
    /\ handed' = handed \o batch
    /\ SavesCursor(batch, Len(handed'))
    /\ batch' = <<0>>
    /\ Stop("cursor")
    /\ UNCHANGED <<args, table, stable, loop>>

(* The rest of FindInBatches; the rows read so far are those handed over.  *)
Exhausted == got < size \/ (Total(limit) > 0 /\ Total(limit) <= Len(handed))

NextSize(n) == IF Total(limit) > 0 /\ Total(limit) \div n = batchNo
               THEN Total(limit) % n ELSE n

Advance ==
    /\ pc = "advance"
    /\ IF Exhausted THEN Stop("none") /\ UNCHANGED <<size, after>>
       ELSE IF Last(batch) = 0 THEN Stop("ErrPrimaryKeyRequired") /\ UNCHANGED <<size, after>>
       ELSE /\ pc' = "find"
            /\ size' = NextSize(size)
            /\ after' = Last(batch)
            /\ UNCHANGED err
    /\ UNCHANGED <<args, table, stable, batchNo, got, batch, handed>>

(* Other sessions, or the callback itself.                                 *)
Insert(k) ==
    /\ pc # "stopped" /\ k \notin table
    /\ table' = table \cup {k}
    /\ UNCHANGED <<args, stable, loop, batch, handed, pc, err>>
Delete(k) ==
    /\ pc # "stopped" /\ k \in table
    /\ table' = table \ {k} /\ stable' = stable \ {k}
    /\ UNCHANGED <<args, loop, batch, handed, pc, err>>

Loop == Find \/ FindFails \/ Callback \/ CallbackFails \/ CursorFails \/ Advance
Next == Loop \/ \E k \in Keys : Insert(k) \/ Delete(k)

(* No fairness: nothing in the code bounds a call without a limit while    *)
(* others keep inserting ahead of its cursor.                              *)
Spec == Init /\ [][Next]_vars

-----------------------------------------------------------------------------
(* Properties.                                                             *)

TypeOK ==
    /\ batchSize \in BatchSizes /\ limit \in Limits /\ offset \in Offsets
    /\ table \subseteq Keys /\ stable \subseteq table
    /\ size \in 1..batchSize /\ batchNo \in Nat /\ got \in Nat /\ after \in Keys \cup {NoKey}
    /\ batch \in Seq(Keys \cup {0}) /\ handed \in Seq(Keys)
    /\ pc \in {"find", "callback", "advance", "stopped"}
    /\ err \in {"none", "database", "fn", "cursor", "ErrPrimaryKeyRequired"}
    /\ pc = "advance" => Len(batch) = 1

(* Query.Limit is the total over all batches, however the batches divide   *)
(* it, and no batch is larger than batchSize (README.md:405).              *)
LimitHeld == /\ limit > 0 => Len(handed) <= limit
             /\ pc = "callback" => Len(batch) <= batchSize

(* A row that is there during the whole call is handed over, unless the    *)
(* limit was used up first; at most offset such rows are missing.          *)
NothingLost ==
    pc = "stopped" /\ err = "none" /\ (limit = 0 \/ Len(handed) < limit) =>
        Cardinality(stable \ ToSet(handed)) <= offset

(* gplus predicts when GORM goes on, from its own batchSize and counter    *)
(* while GORM uses a size it shrinks: whenever GORM reads the cursor, it   *)
(* is the key of the last row handed over, and the only row on which a     *)
(* call can fail for its key is one whose key is zero.                     *)
CursorReady == pc = "advance" /\ ~Exhausted => Last(batch) = Last(handed)

(* The rows arrive as OrderedScan says: ascending, none twice, none jumped *)
(* over, no matter how the callback changes the batches.                   *)
Read == IF pc = "callback" THEN handed \o batch ELSE handed
Scan == INSTANCE OrderedScan WITH handed <- Read, finished <- pc = "stopped"
ImplementsScan == Scan!Spec
=============================================================================
