------------------------------- MODULE FirstOr -------------------------------
(***************************************************************************)
(* FirstOrCreate and FirstOrUpdate of several clients at once.             *)
(*                                                                         *)
(* A call is a transaction of a few statements: look for the first row the *)
(* query matches, without locking it; if there is one, FirstOrCreate is    *)
(* done and FirstOrUpdate updates it by key and reads it again; otherwise  *)
(* the defaults are inserted.  Other clients and sessions run in between.  *)
(*                                                                         *)
(* The database is external: statements read committed rows and their own  *)
(* transaction's writes; a written row is held to the end of the           *)
(* transaction; a unique index on the searched column, if there is one,    *)
(* makes a writer of a value wait for an uncommitted one and fails it when *)
(* the value is taken.  Keys are never used again.                         *)
(***************************************************************************)
EXTENDS Naturals, FiniteSetsExt

CONSTANTS
    Clients,
    Ids,          \* primary keys, in the order they are given out
    Values,       \* of the searched column
    Calls,        \* what clients may ask for; the defaults match the search
    Gone,         \* no row of that key
    Idle, None

ASSUME IdsAssumption == Ids \subseteq Nat \ {0}
Row == [val : Values, tenant : {"own", "foreign"}]
ASSUME NullsAssumption == Gone \notin Row /\ None \notin Row \cup {Gone} \cup Clients

VARIABLES
    unique,     \* there is a unique index on the searched column
    rows,       \* the committed rows
    born,       \* the keys given out
    call, pc,   \* what each client asks for, and where it is
    data,       \* the key of the record it has read or written, 0 for none
    write,      \* the uncommitted row, of key data, in its transaction
    created,
    answer,     \* the answer the last step gave, if it gave one
    seen, absent   \* history: rows that matched during the call; none did

table == <<unique, rows, born>>
local == <<call, pc, data, write, created>>
vars == <<table, local, answer, seen, absent>>

Contract == INSTANCE FirstOrContract

(* ruled and updRuled: the contexts of the query and of the updater have a *)
(* rule on tenant; set: the updater's assignments, as a record of columns. *)
ASSUME CallsAssumption ==
    /\ \A asked \in Calls :
           /\ asked.op \in {"create", "update"} /\ asked.val \in Values
           /\ asked.defaults \in Row /\ asked.ruled \in BOOLEAN /\ asked.updRuled \in BOOLEAN
           /\ \A row \in Row : Contract!Assigned(row, asked.set) \in Row
    /\ Idle \notin Calls

Init ==
    /\ unique \in BOOLEAN
    /\ rows = [id \in Ids |-> Gone] /\ born = {}
    /\ call = [c \in Clients |-> Idle] /\ pc = [c \in Clients |-> "idle"]
    /\ data = [c \in Clients |-> 0] /\ write = [c \in Clients |-> None]
    /\ created = [c \in Clients |-> FALSE]
    /\ answer = None
    /\ seen = [c \in Clients |-> {}] /\ absent = [c \in Clients |-> FALSE]

-----------------------------------------------------------------------------
(* The database.                                                           *)

Held(id) == \E d \in Clients : data[d] = id /\ write[d] # None
Fresh(id) == id \in Ids \ born /\ \A other \in Ids \ born : id <= other

(* Someone else's uncommitted row makes a writer of its value wait; under  *)
(* an index also one that would leave the value by a commit.               *)
ValueBusy(c, v) ==
    unique /\ \E d \in Clients \ {c} :
        write[d] # None /\ (write[d].val = v \/ (rows[data[d]] # Gone /\ rows[data[d]].val = v))
ValueTaken(id, v) ==
    unique /\ \E other \in Ids \ {id} : rows[other] # Gone /\ rows[other].val = v

(* The history of every step: which rows matched, whether none did.        *)
Observe == Contract!Observed
Silent == answer' = None

-----------------------------------------------------------------------------
(* A call.                                                                 *)

Go(c, label) == pc' = [pc EXCEPT ![c] = label]

(* The checks of builders and arguments come first (module QueryBuilder).  *)
Begin(c, asked) ==
    /\ pc[c] = "idle"
    /\ call' = [call EXCEPT ![c] = asked]
    /\ Go(c, "lookup")
    /\ Silent /\ UNCHANGED <<table, data, write, created>>

(* tx.Scopes(q.BuildCount()).First(&data)                                  *)
Lookup(c) ==
    /\ pc[c] = "lookup"
    /\ LET found == Contract!Matching(rows, call[c]) IN
       IF found # {}
       THEN /\ data' = [data EXCEPT ![c] = Min(found)]
            /\ Go(c, IF call[c].op = "create" THEN "commit" ELSE "update")
            /\ UNCHANGED created
       ELSE /\ created' = [created EXCEPT ![c] = TRUE]
            /\ Go(c, "insert")
            /\ UNCHANGED data
    /\ Silent /\ UNCHANGED <<table, call, write>>

(* Mutation: the flag created is not reset when the transaction fails.     *)
ReturnsKeepFlag(c, err) ==
    answer' = [client |-> c, err |-> err, created |-> created[c], id |-> data[c]]

(* created is reported only without an error.                              *)
Returns(c, err) ==
    answer' = [client |-> c, err |-> err, created |-> created[c] /\ err = "none",
               id |-> data[c]]

(* Mutation: a failed transaction is not rolled back, its row stays held.  *)
EndNoRollback(c, err) ==
    /\ Returns(c, err)
    /\ rows' = IF err = "none" /\ write[c] # None THEN [rows EXCEPT ![data[c]] = write[c]]
                                                  ELSE rows
    /\ Go(c, "idle")
    /\ call' = [call EXCEPT ![c] = Idle] /\ data' = [data EXCEPT ![c] = 0]
    /\ write' = IF err = "none" THEN [write EXCEPT ![c] = None] ELSE write
    /\ created' = [created EXCEPT ![c] = FALSE]
    /\ UNCHANGED <<unique, born>>

(* The end of the transaction; its row is committed or forgotten.          *)
End(c, err) ==
    /\ Returns(c, err)
    /\ rows' = IF err = "none" /\ write[c] # None THEN [rows EXCEPT ![data[c]] = write[c]]
                                                  ELSE rows
    /\ Go(c, "idle")
    /\ call' = [call EXCEPT ![c] = Idle] /\ data' = [data EXCEPT ![c] = 0]
    /\ write' = [write EXCEPT ![c] = None] /\ created' = [created EXCEPT ![c] = FALSE]
    /\ UNCHANGED <<unique, born>>

(* Mutation: the look-up takes shared locks, and the update waits for them.*)
UpdateLocks(c) ==
    /\ pc[c] = "update"
    /\ \A d \in Clients \ {c} : data[d] # data[c]
    /\ Go(c, "reload") /\ Silent /\ UNCHANGED <<table, call, data, write, created>>

(* tx.Model(&data).Scopes(u.BuildUpdate()).Updates(u.setMap): by key, with *)
(* the updater's rules; it waits for the row and looks at it again then.   *)
(* No affected row is no error.                                            *)
Update(c) ==
    /\ pc[c] = "update"
    /\ ~Held(data[c])
    /\ LET old == rows[data[c]]
           new == Contract!Assigned(old, call[c].set)
       IN  IF ~Contract!Visible(old, call[c].updRuled)
           THEN Go(c, "reload") /\ Silent /\ UNCHANGED <<table, call, data, write, created>>
           ELSE /\ new.val # old.val => ~ValueBusy(c, new.val)
                /\ IF new.val # old.val /\ ValueTaken(data[c], new.val)
                   THEN End(c, "duplicate")
                   ELSE /\ write' = [write EXCEPT ![c] = new]
                        /\ Go(c, "reload")
                        /\ Silent /\ UNCHANGED <<table, call, data, created>>

(* Mutation: the row is read again without the rules.                      *)
ReloadUnruled(c) ==
    /\ pc[c] = "reload"
    /\ IF write[c] # None \/ rows[data[c]] # Gone
       THEN Go(c, "commit") /\ Silent /\ UNCHANGED <<table, call, data, write, created>>
       ELSE End(c, "not found")

(* The row is read again by key, under the rules of the query: a row that  *)
(* the update has moved out of sight, or that is gone, undoes everything.  *)
Reload(c) ==
    /\ pc[c] = "reload"
    /\ LET now == IF write[c] # None THEN write[c] ELSE rows[data[c]] IN
       IF Contract!Visible(now, call[c].ruled)
       THEN Go(c, "commit") /\ Silent /\ UNCHANGED <<table, call, data, write, created>>
       ELSE End(c, "not found")

(* tx.Create(&data) with data = *defaults.  Bound: it fails without a key. *)
Insert(c) ==
    /\ pc[c] = "insert"
    /\ LET v == call[c].defaults.val IN
       /\ ~ValueBusy(c, v)
       /\ IF ValueTaken(0, v) \/ born = Ids
          THEN End(c, IF born = Ids THEN "database" ELSE "duplicate")
          ELSE \E id \in Ids :
                  /\ Fresh(id) /\ born' = born \cup {id}
                  /\ data' = [data EXCEPT ![c] = id]
                  /\ write' = [write EXCEPT ![c] = call[c].defaults]
                  /\ Go(c, "commit")
                  /\ Silent /\ UNCHANGED <<unique, rows, call, created>>

Commit(c) == pc[c] = "commit" /\ End(c, "none")

(* A statement or the commit fails for reasons of its own.                 *)
Fails(c) == pc[c] # "idle" /\ End(c, "database")

-----------------------------------------------------------------------------
(* Other sessions, one statement each; they wait for held rows as well.    *)

OtherInserts(row) ==
    /\ ~ValueBusy(None, row.val) /\ ~ValueTaken(0, row.val)
    /\ \E id \in Ids : Fresh(id) /\ born' = born \cup {id} /\ rows' = [rows EXCEPT ![id] = row]
    /\ Silent /\ UNCHANGED <<unique, local>>

OtherWrites(id, row) ==
    /\ rows[id] # Gone /\ ~Held(id) /\ rows[id] # row
    /\ row # Gone => /\ row.val # rows[id].val => ~ValueBusy(None, row.val)
                     /\ ~ValueTaken(id, row.val)
    /\ rows' = [rows EXCEPT ![id] = row]
    /\ Silent /\ UNCHANGED <<unique, born, local>>

Step(c) == (Lookup(c) \/ Update(c) \/ Reload(c) \/ Insert(c) \/ Commit(c)) /\ Observe

Next ==
    \/ \E c \in Clients : Step(c) \/ (Fails(c) /\ Observe)
    \/ \E c \in Clients, asked \in Calls : Begin(c, asked) /\ Observe
    \/ \E row \in Row : OtherInserts(row) /\ Observe
    \/ \E id \in Ids, row \in Row \cup {Gone} : OtherWrites(id, row) /\ Observe

(* A transaction goes on as long as the database answers, and waiting      *)
(* writers are served in turn: one that could go on again and again does.  *)
Spec == Init /\ [][Next]_vars /\ \A c \in Clients : SF_vars(Step(c))

-----------------------------------------------------------------------------
(* Properties.                                                             *)

(* Every variable has its type, and no transaction is open between calls.  *)
TypeOK ==
    /\ unique \in BOOLEAN /\ rows \in [Ids -> Row \cup {Gone}] /\ born \subseteq Ids
    /\ call \in [Clients -> Calls \cup {Idle}]
    /\ pc \in [Clients -> {"idle", "lookup", "update", "reload", "insert", "commit"}]
    /\ data \in [Clients -> Ids \cup {0}]
    /\ write \in [Clients -> Row \cup {None}]
    /\ created \in [Clients -> BOOLEAN]
    /\ answer \in [client : Clients, err : {"none", "not found", "duplicate", "database"},
                   created : BOOLEAN, id : Ids \cup {0}] \cup {None}
    /\ seen \in [Clients -> SUBSET Ids] /\ absent \in [Clients -> BOOLEAN]
    /\ \A c \in Clients : pc[c] = "idle" => call[c] = Idle /\ data[c] = 0 /\ write[c] = None

(* The calls keep FirstOrContract: an error leaves no trace, created means *)
(* that this call's defaults are in the table, under a unique index as the *)
(* only row of their value, and an updated row is one the search found and *)
(* is visible afterwards.                                                  *)
KeepsContract == Contract!Spec

(* repository.go:686, repository.go:723 and README.md:1303: the transaction*)
(* makes look-up and creation atomic, so a row is created only while none  *)
(* matches.  Two calls that look before either commits both create.        *)
CreatesOnlyAbsent ==
    [][answer' # None /\ answer'.created =>
           Contract!Matching(rows, call[answer'.client]) = {}]_vars

(* repository.go:726-729: under rules in both contexts FirstOrUpdate       *)
(* changes only rows the rules show when they are changed, and leaves them *)
(* visible, although the row found may be moved between the look-up and    *)
(* the update.                                                             *)
StaysInTenant ==
    [][\A c \in Clients :
          pc[c] # "idle" /\ pc'[c] = "idle" /\ call[c].ruled /\ call[c].updRuled /\ ~created[c] =>
              \A id \in Ids : rows'[id] # rows[id] =>
                  Contract!Visible(rows[id], TRUE) /\ Contract!Visible(rows'[id], TRUE)]_vars

(* Every call is answered: no two of them wait for each other.             *)
Answered == \A c \in Clients : pc[c] # "idle" ~> pc[c] = "idle"
=============================================================================
