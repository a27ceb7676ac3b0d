---------------------------- MODULE FirstOrProofs ----------------------------
(***************************************************************************)
(* For any number of clients, rows and calls: FirstOrCreate and            *)
(* FirstOrUpdate keep the promise of FirstOrContract, and calls under rules*)
(* stay within them.                                                       *)
(*                                                                         *)
(* Between its statements a call relies on what it has seen before.  What  *)
(* remains true of it is collected in Own: the row of an uncommitted       *)
(* update stays as it was read, a new row stays unknown to others, a       *)
(* value written under the unique index stays reserved.                    *)
(***************************************************************************)
EXTENDS FirstOr, WellFoundedInduction, TLAPS

(* Where a client is and what it carries.                                  *)
Control(c) ==
    /\ pc[c] = "idle" <=> call[c] = Idle
    /\ pc[c] \in {"idle", "lookup"} => data[c] = 0 /\ write[c] = None /\ ~created[c]
    /\ pc[c] = "insert" => data[c] = 0 /\ write[c] = None /\ created[c]
    /\ pc[c] = "update" => data[c] \in Ids /\ write[c] = None /\ ~created[c]
    /\ pc[c] = "reload" => data[c] \in Ids /\ ~created[c]
    /\ pc[c] = "commit" => data[c] \in Ids
    /\ pc[c] \in {"update", "reload"} => call[c].op = "update"

(* Keys in use have been given out.                                        *)
RowsBorn == \A id \in Ids : rows[id] # Gone => id \in born
DataBorn(c) == data[c] # 0 => data[c] \in born

(* The row of an update has not changed since it was written.              *)
Pending(c) ==
    write[c] # None /\ ~created[c] =>
        /\ call[c].op = "update" /\ rows[data[c]] # Gone
        /\ Contract!Visible(rows[data[c]], call[c].updRuled)
        /\ write[c] = Contract!Assigned(rows[data[c]], call[c].set)

(* It was visible when it was read again.                                  *)
Reread(c) ==
    pc[c] = "commit" /\ write[c] # None /\ ~created[c] =>
        Contract!Visible(write[c], call[c].ruled)

(* A new row exists in its transaction only.                               *)
NewRow(c) ==
    pc[c] = "commit" /\ created[c] => write[c] = call[c].defaults /\ rows[data[c]] = Gone

(* What the call has seen during its life.                                 *)
Searched(c) ==
    /\ pc[c] \in {"update", "reload", "commit"} /\ ~created[c] => data[c] \in seen[c]
    /\ created[c] => absent[c]

(* Under the index no other row has the value that is written.             *)
Reserved(c) ==
    unique /\ write[c] # None =>
        \A id \in Ids \ {data[c]} : rows[id] # Gone => rows[id].val # write[c].val

Own(c) ==
    /\ Control(c) /\ DataBorn(c) /\ Pending(c) /\ Reread(c) /\ NewRow(c) /\ Searched(c)
    /\ Reserved(c)

(* Two clients' transactions do not meet in a row or a reserved value.     *)
Apart(c, d) ==
    /\ write[c] # None /\ write[d] # None =>
           data[c] # data[d] /\ (unique => write[c].val # write[d].val)
    /\ pc[c] = "commit" /\ created[c] => data[c] # data[d]

UniqueRows ==
    unique => \A i \in Ids, j \in Ids :
                  i # j /\ rows[i] # Gone /\ rows[j] # Gone => rows[i].val # rows[j].val

IInv ==
    /\ TypeOK /\ RowsBorn /\ UniqueRows
    /\ \A c \in Clients : Own(c)
    /\ \A c \in Clients, d \in Clients : c # d => Apart(c, d)

-----------------------------------------------------------------------------
(* Types, and what an action means for the clients one by one.             *)

Errors == {"none", "not found", "duplicate", "database"}
Same(d) == /\ call'[d] = call[d] /\ pc'[d] = pc[d] /\ data'[d] = data[d]
           /\ write'[d] = write[d] /\ created'[d] = created[d]

LEMMA MinInSet ==
    ASSUME NEW S \in SUBSET Ids, S # {}
    PROVE  Min(S) \in S
<1>1. S \subseteq Nat  BY IdsAssumption
<1>2. \E x \in S : \A y \in S : ~ (<<y, x>> \in OpToRel(<, Nat))
  BY <1>1, WFMin, NatLessThanWellFounded
<1>3. \A x, y \in Nat : <<y, x>> \in OpToRel(<, Nat) <=> y < x
  BY DEF OpToRel
<1>4. \E x \in S : \A y \in S : ~(y < x)
  BY <1>1, <1>2, <1>3, Zenon
<1>5. \E x \in S : \A y \in S : x =< y
  BY <1>1, <1>4
<1> QED  BY <1>5 DEF Min

LEMMA CallType ==
    ASSUME NEW asked \in Calls
    PROVE  /\ asked # Idle /\ asked.op \in {"create", "update"}
           /\ asked.defaults \in Row /\ asked.defaults # None
           /\ asked.ruled \in BOOLEAN /\ asked.updRuled \in BOOLEAN
           /\ \A row \in Row : Contract!Assigned(row, asked.set) \in Row
BY CallsAssumption, NullsAssumption

LEMMA HistoryTyped ==
    ASSUME TypeOK, Observe
    PROVE  seen' \in [Clients -> SUBSET Ids] /\ absent' \in [Clients -> BOOLEAN]
<1>1. \A c \in Clients : Contract!Matching(rows', call'[c]) \subseteq Ids
  BY DEF Contract!Matching
<1>2. seen' \in [Clients -> SUBSET Ids]
  BY <1>1 DEF TypeOK, Observe, Contract!Observed
<1>3. absent' \in [Clients -> BOOLEAN]
  BY DEF Observe, Contract!Observed
<1> QED  BY <1>2, <1>3

LEMMA EndTyped ==
    ASSUME TypeOK, NEW c \in Clients, NEW err \in Errors, End(c, err), Observe
    PROVE  TypeOK'
<1>1. rows' \in [Ids -> Row \cup {Gone}]  BY DEF TypeOK, End
<1>2. answer' \in [client : Clients, err : Errors, created : BOOLEAN, id : Ids \cup {0}]
  <2>1. (created[c] /\ err = "none") \in BOOLEAN  OBVIOUS
  <2> QED  BY <2>1 DEF TypeOK, End, Returns
<1>3. /\ unique' \in BOOLEAN /\ born' \subseteq Ids
      /\ call' \in [Clients -> Calls \cup {Idle}]
      /\ pc' \in [Clients -> {"idle", "lookup", "update", "reload", "insert", "commit"}]
      /\ data' \in [Clients -> Ids \cup {0}]
      /\ write' \in [Clients -> Row \cup {None}]
      /\ created' \in [Clients -> BOOLEAN]
  BY DEF TypeOK, End, Go
<1>4. \A d \in Clients : pc'[d] = "idle" => call'[d] = Idle /\ data'[d] = 0 /\ write'[d] = None
  BY DEF TypeOK, End, Go
<1> QED  BY <1>1, <1>2, <1>3, <1>4, HistoryTyped DEF TypeOK, Errors

LEMMA BeginTyped ==
    ASSUME TypeOK, NEW c \in Clients, NEW asked \in Calls, Begin(c, asked), Observe PROVE TypeOK'
<1>1. /\ call' \in [Clients -> Calls \cup {Idle}]
      /\ pc' \in [Clients -> {"idle", "lookup", "update", "reload", "insert", "commit"}]
      /\ UNCHANGED <<unique, rows, born, data, write, created>> /\ answer' = None
  BY DEF TypeOK, Begin, Go, Silent, table
<1>2. \A d \in Clients : pc'[d] = "idle" => call'[d] = Idle /\ data'[d] = 0 /\ write'[d] = None
  BY DEF TypeOK, Begin, Go
<1> QED  BY <1>1, <1>2, HistoryTyped DEF TypeOK

LEMMA LookupTyped ==
    ASSUME TypeOK, NEW c \in Clients, Lookup(c), Observe PROVE TypeOK'
<1> PICK found : found = Contract!Matching(rows, call[c])  OBVIOUS
<1>0. found \subseteq Ids /\ (found # {} => Min(found) \in Ids)
  BY MinInSet DEF Contract!Matching
<1>1. /\ data' \in [Clients -> Ids \cup {0}] /\ created' \in [Clients -> BOOLEAN]
      /\ pc' \in [Clients -> {"idle", "lookup", "update", "reload", "insert", "commit"}]
      /\ UNCHANGED <<unique, rows, born, call, write>> /\ answer' = None
  BY <1>0 DEF TypeOK, Lookup, Go, Silent, table
<1>2. \A d \in Clients : pc'[d] = "idle" => call'[d] = Idle /\ data'[d] = 0 /\ write'[d] = None
  BY DEF TypeOK, Lookup, Go
<1> QED  BY <1>1, <1>2, HistoryTyped DEF TypeOK

(* The step between two statements only moves on.                          *)
Moves(c, label) == /\ Go(c, label) /\ Silent
                   /\ UNCHANGED <<table, call, data, write, created>>

LEMMA MovesTyped ==
    ASSUME TypeOK, NEW c \in Clients, NEW label \in {"reload", "commit"}, Moves(c, label), Observe
    PROVE  TypeOK'
<1>1. /\ pc' \in [Clients -> {"idle", "lookup", "update", "reload", "insert", "commit"}]
      /\ UNCHANGED <<unique, rows, born, call, data, write, created>> /\ answer' = None
  BY DEF TypeOK, Moves, Go, Silent, table
<1>2. \A d \in Clients : pc'[d] = "idle" => call'[d] = Idle /\ data'[d] = 0 /\ write'[d] = None
  BY <1>1 DEF TypeOK, Moves, Go
<1> QED  BY <1>1, <1>2, HistoryTyped DEF TypeOK

(* The step that writes row: an update of the found row or a new one.      *)
Writes(c, row) == /\ write' = [write EXCEPT ![c] = row] /\ Silent
                  /\ UNCHANGED <<unique, rows, call, created>>

LEMMA UpdateCases ==
    ASSUME TypeOK, NEW c \in Clients, Control(c), Update(c),
           NEW old, old = rows[data[c]], NEW new, new = Contract!Assigned(old, call[c].set)
    PROVE  \/ Moves(c, "reload")
           \/ End(c, "duplicate")
           \/ /\ Writes(c, new) /\ Go(c, "reload") /\ UNCHANGED <<data, born>>
              /\ Contract!Visible(old, call[c].updRuled) /\ old \in Row /\ new \in Row
              /\ new.val # old.val => ~ValueBusy(c, new.val) /\ ~ValueTaken(data[c], new.val)
              /\ ~Held(data[c])
<1>1. CASE ~Contract!Visible(old, call[c].updRuled)
  BY <1>1 DEF Update, Moves
<1>2. CASE Contract!Visible(old, call[c].updRuled)
  <2>1. call[c] \in Calls /\ data[c] \in Ids
    BY DEF TypeOK, Control, Update
  <2>2. old \in Row  BY <1>2, <2>1 DEF TypeOK, Contract!Visible
  <2>3. new \in Row  BY <2>1, <2>2, CallType
  <2>4. CASE new.val # old.val /\ ValueTaken(data[c], new.val)
    BY <1>2, <2>4 DEF Update
  <2>5. CASE ~(new.val # old.val /\ ValueTaken(data[c], new.val))
    BY <1>2, <2>2, <2>3, <2>5 DEF Update, Writes, table
  <2> QED  BY <2>4, <2>5
<1> QED  BY <1>1, <1>2

LEMMA InsertCases ==
    ASSUME TypeOK, NEW c \in Clients, Control(c), Insert(c)
    PROVE  \/ \E err \in {"database", "duplicate"} : End(c, err)
           \/ \E id \in Ids \ born :
                /\ Writes(c, call[c].defaults) /\ Go(c, "commit")
                /\ born' = born \cup {id} /\ data' = [data EXCEPT ![c] = id]
                /\ call[c].defaults \in Row
                /\ ~ValueBusy(c, call[c].defaults.val) /\ ~ValueTaken(0, call[c].defaults.val)
<1>1. call[c] \in Calls  BY DEF TypeOK, Control, Insert
<1>2. call[c].defaults \in Row  BY <1>1, CallType
<1>3. CASE ValueTaken(0, call[c].defaults.val) \/ born = Ids
  BY <1>3 DEF Insert
<1>4. CASE ~(ValueTaken(0, call[c].defaults.val) \/ born = Ids)
  BY <1>2, <1>4 DEF Insert, Writes, Fresh
<1> QED  BY <1>3, <1>4

LEMMA WritesTyped ==
    ASSUME TypeOK, NEW c \in Clients, NEW row \in Row, Writes(c, row), Observe,
           NEW label \in {"reload", "commit"}, Go(c, label),
           \/ UNCHANGED <<data, born>>
           \/ \E id \in Ids : born' = born \cup {id} /\ data' = [data EXCEPT ![c] = id]
    PROVE  TypeOK'
<1>1. /\ write' \in [Clients -> Row \cup {None}] /\ data' \in [Clients -> Ids \cup {0}]
      /\ born' \subseteq Ids
      /\ pc' \in [Clients -> {"idle", "lookup", "update", "reload", "insert", "commit"}]
      /\ UNCHANGED <<unique, rows, call, created>> /\ answer' = None
  BY DEF TypeOK, Writes, Go, Silent
<1>2. \A d \in Clients : pc'[d] = "idle" => call'[d] = Idle /\ data'[d] = 0 /\ write'[d] = None
  BY <1>1 DEF TypeOK, Writes, Go
<1> QED  BY <1>1, <1>2, HistoryTyped DEF TypeOK

LEMMA OthersTyped ==
    ASSUME TypeOK, Observe,
           \/ \E row \in Row : OtherInserts(row)
           \/ \E id \in Ids, row \in Row \cup {Gone} : OtherWrites(id, row)
    PROVE  TypeOK'
<1>1. /\ rows' \in [Ids -> Row \cup {Gone}] /\ born' \subseteq Ids
      /\ UNCHANGED <<unique, call, pc, data, write, created>> /\ answer' = None
  BY DEF TypeOK, OtherInserts, OtherWrites, Silent, local
<1> QED  BY <1>1, HistoryTyped DEF TypeOK

-----------------------------------------------------------------------------
(* A step of others that a client does not take part in.                   *)

LEMMA HistoryGrows ==
    ASSUME Observe, NEW d \in Clients, call'[d] # Idle
    PROVE  /\ Contract!Matching(rows', call'[d]) \subseteq seen'[d]
           /\ Contract!Matching(rows', call'[d]) = {} => absent'[d]
           /\ call'[d] = call[d] => seen[d] \subseteq seen'[d] /\ (absent[d] => absent'[d])
BY DEF Observe, Contract!Observed

(* No row changes that the client's transaction depends on.                *)
Spares(d) ==
    /\ unique' = unique /\ born \subseteq born'
    /\ write[d] # None => rows'[data[d]] = rows[data[d]]
    /\ unique /\ write[d] # None =>
           \A id \in Ids \ {data[d]} :
               rows'[id] # Gone /\ rows'[id] # rows[id] => rows'[id].val # write[d].val

LEMMA OwnKeeps ==
    ASSUME TypeOK, Observe, NEW d \in Clients, Own(d), Same(d), Spares(d)
    PROVE  Own(d)'
<1>1. Control(d)' /\ DataBorn(d)' /\ Pending(d)' /\ Reread(d)'
  BY DEF Own, Same, Spares, Control, DataBorn, Pending, Reread
<1>2. NewRow(d)'
  <2>1. pc[d] = "commit" /\ created[d] => write[d] = call[d].defaults /\ write[d] # None
    BY CallType DEF Own, NewRow, Control, TypeOK
  <2> QED  BY <2>1 DEF Own, Same, Spares, NewRow
<1>3. Searched(d)'
  <2>1. pc[d] \in {"update", "reload", "commit"} \/ created[d] => call'[d] # Idle
    BY DEF Own, Control, Same, TypeOK
  <2> QED  BY <2>1, HistoryGrows DEF Own, Same, Searched
<1>4. Reserved(d)'  BY DEF Own, Same, Spares, Reserved
<1> QED  BY <1>1, <1>2, <1>3, <1>4 DEF Own

LEMMA NewRowWritten ==
    ASSUME IInv, NEW d \in Clients, pc[d] = "commit", created[d]
    PROVE  write[d] # None /\ data[d] # 0
<1>1. call[d] \in Calls /\ NewRow(d) /\ data[d] \in Ids
  BY DEF IInv, Own, Control, TypeOK
<1> QED  BY <1>1, CallType, IdsAssumption DEF NewRow

LEMMA SparesSame ==
    ASSUME TypeOK, NEW d \in Clients, UNCHANGED <<unique, rows>>, born \subseteq born'
    PROVE  Spares(d)
BY DEF Spares

(* A client's step that leaves the committed rows alone has to keep what   *)
(* is its own, and its distance from the others.                           *)
LEMMA OwnStep ==
    ASSUME IInv, TypeOK', Observe, NEW c \in Clients,
           UNCHANGED <<unique, rows>>, born \subseteq born',
           \A d \in Clients \ {c} : Same(d),
           Own(c)',
           \A d \in Clients \ {c} : Apart(c, d)' /\ Apart(d, c)'
    PROVE  IInv'
<1>1. ASSUME NEW d \in Clients PROVE Own(d)'
  <2>1. CASE d = c  BY <2>1
  <2>2. CASE d # c  BY <2>2, SparesSame, OwnKeeps DEF IInv
  <2> QED  BY <2>1, <2>2
<1>2. ASSUME NEW d \in Clients, NEW e \in Clients, d # e PROVE Apart(d, e)'
  <2>1. CASE d = c \/ e = c  BY <1>2, <2>1
  <2>2. CASE d # c /\ e # c
    <3>1. Apart(d, e) /\ Same(d) /\ Same(e)  BY <1>2, <2>2 DEF IInv
    <3> QED  BY <3>1 DEF Apart, Same
  <2> QED  BY <2>1, <2>2
<1>3. RowsBorn' /\ UniqueRows'  BY DEF IInv, RowsBorn, UniqueRows
<1> QED  BY <1>1, <1>2, <1>3 DEF IInv

-----------------------------------------------------------------------------
(* The steps of a call.                                                    *)

LEMMA InitEstablishes == Init => IInv
<1> SUFFICES ASSUME Init PROVE IInv  OBVIOUS
<1>1. TypeOK  BY DEF Init, TypeOK
<1>2. RowsBorn /\ UniqueRows  BY DEF Init, RowsBorn, UniqueRows
<1>3. \A c \in Clients : Own(c)
  BY DEF Init, Own, Control, DataBorn, Pending, Reread, NewRow, Searched, Reserved
<1>4. \A c \in Clients, d \in Clients : c # d => Apart(c, d)  BY DEF Init, Apart
<1> QED  BY <1>1, <1>2, <1>3, <1>4 DEF IInv

LEMMA BeginStep ==
    ASSUME IInv, NEW c \in Clients, NEW asked \in Calls, Begin(c, asked), Observe PROVE IInv'
<1>1. TypeOK'  BY BeginTyped DEF IInv
<1>2. /\ UNCHANGED <<unique, rows, born, data, write, created>>
      /\ call'[c] = asked /\ asked # Idle /\ pc'[c] = "lookup"
  BY CallType DEF Begin, Go, table, IInv, TypeOK
<1>3. \A d \in Clients \ {c} : Same(d)
  BY DEF Begin, Go, Same, IInv, TypeOK
<1>4. data[c] = 0 /\ write[c] = None /\ ~created[c] /\ pc[c] = "idle"
  BY DEF IInv, Own, Control, Begin
<1>5. Own(c)'
  BY <1>2, <1>4 DEF Own, Control, DataBorn, Pending, Reread, NewRow, Searched, Reserved
<1>6. \A d \in Clients \ {c} : Apart(c, d) /\ Apart(d, c)  BY DEF IInv
<1>7. \A d \in Clients \ {c} : Apart(c, d)' /\ Apart(d, c)'
  BY <1>2, <1>3, <1>4, <1>6 DEF Apart, Same
<1> QED  BY <1>1, <1>2, <1>3, <1>5, <1>7, OwnStep

LEMMA LookupStep ==
    ASSUME IInv, NEW c \in Clients, Lookup(c), Observe PROVE IInv'
<1> PICK found : found = Contract!Matching(rows, call[c])  OBVIOUS
<1>1. TypeOK'  BY LookupTyped DEF IInv
<1>2. /\ UNCHANGED <<unique, rows, born, call, write>> /\ call[c] # Idle
      /\ data[c] = 0 /\ write[c] = None /\ ~created[c] /\ pc[c] = "lookup"
  BY DEF Lookup, table, IInv, Own, Control
<1>3. \A d \in Clients \ {c} : Same(d)
  BY DEF Lookup, Go, Same, IInv, TypeOK
<1>4. \A d \in Clients \ {c} : Apart(c, d) /\ Apart(d, c) /\ NewRow(d)
  BY DEF IInv, Own
<1>5. CASE found # {}
  <2>1. Min(found) \in found  BY <1>5, MinInSet DEF Contract!Matching
  <2>2. data'[c] = Min(found) /\ ~created'[c]
        /\ pc'[c] = IF call[c].op = "create" THEN "commit" ELSE "update"
    BY <1>2, <1>5 DEF Lookup, Go, IInv, TypeOK
  <2>3. data'[c] \in Ids /\ rows[data'[c]] # Gone
    BY <2>1, <2>2 DEF Contract!Matching, Contract!Visible
  <2>4. data'[c] \in born /\ data'[c] \in seen'[c]
    BY <1>2, <2>1, <2>2, <2>3, HistoryGrows DEF IInv, RowsBorn
  <2>5. call[c].op \in {"create", "update"}
    <3>1. call[c] \in Calls  BY <1>2 DEF IInv, TypeOK
    <3> QED  BY <3>1, CallType
  <2>6. Own(c)'
    BY <1>2, <2>2, <2>3, <2>4, <2>5
       DEF Own, Control, DataBorn, Pending, Reread, NewRow, Searched, Reserved
  <2>7. \A d \in Clients \ {c} : Apart(c, d)' /\ Apart(d, c)'
    BY <1>2, <1>3, <1>4, <2>2, <2>3 DEF Apart, Same, NewRow
  <2> QED  BY <1>1, <1>2, <1>3, <2>6, <2>7, OwnStep
<1>6. CASE found = {}
  <2>1. data'[c] = 0 /\ created'[c] /\ pc'[c] = "insert" /\ absent'[c]
    BY <1>2, <1>6, HistoryGrows DEF Lookup, Go, IInv, TypeOK
  <2>2. Own(c)'
    BY <1>2, <2>1 DEF Own, Control, DataBorn, Pending, Reread, NewRow, Searched, Reserved
  <2>3. \A d \in Clients \ {c} : data[d] # 0 \/ ~(pc[d] = "commit")
    BY IdsAssumption DEF IInv, Own, Control
  <2>4. \A d \in Clients \ {c} : Apart(c, d)' /\ Apart(d, c)'
    BY <1>2, <1>3, <1>4, <2>1, <2>3 DEF Apart, Same
  <2> QED  BY <1>1, <1>2, <1>3, <2>2, <2>4, OwnStep
<1> QED  BY <1>5, <1>6

LEMMA MovesStep ==
    ASSUME IInv, NEW c \in Clients, Observe, NEW label, Moves(c, label),
           \/ pc[c] = "update" /\ label = "reload"
           \/ /\ pc[c] = "reload" /\ label = "commit"
              /\ write[c] # None => Contract!Visible(write[c], call[c].ruled)
    PROVE  IInv'
<1>1. TypeOK'  BY MovesTyped DEF IInv
<1>2. /\ UNCHANGED <<unique, rows, born, call, data, write, created>>
      /\ pc'[c] = label /\ \A d \in Clients \ {c} : Same(d)
  BY DEF Moves, Go, Same, table, IInv, TypeOK
<1>3. Own(c) /\ data[c] \in Ids /\ ~created[c]  BY DEF IInv, Own, Control
<1>4. Control(c)' /\ DataBorn(c)' /\ Pending(c)' /\ Reread(c)' /\ NewRow(c)' /\ Reserved(c)'
  BY <1>2, <1>3 DEF Own, Control, DataBorn, Pending, Reread, NewRow, Reserved
<1>5. Searched(c)'
  <2>1. call'[c] # Idle  BY <1>2, <1>3 DEF Own, Control
  <2> QED  BY <1>2, <1>3, <2>1, HistoryGrows DEF Own, Searched
<1>6. \A d \in Clients \ {c} : Apart(c, d) /\ Apart(d, c)  BY DEF IInv
<1>7. \A d \in Clients \ {c} : Apart(c, d)' /\ Apart(d, c)'
  BY <1>2, <1>3, <1>6 DEF Apart, Same
<1> QED  BY <1>1, <1>2, <1>4, <1>5, <1>7, OwnStep DEF Own

(* After its end a call owns nothing.                                      *)
LEMMA Ended ==
    ASSUME IInv, NEW c \in Clients, NEW err \in Errors, End(c, err), Observe
    PROVE  /\ TypeOK' /\ UNCHANGED <<unique, born>>
           /\ \A d \in Clients \ {c} : Same(d) /\ Apart(c, d)' /\ Apart(d, c)'
           /\ Own(c)'
<1>1. TypeOK'  BY EndTyped DEF IInv
<1>2. /\ UNCHANGED <<unique, born>> /\ pc'[c] = "idle" /\ call'[c] = Idle
      /\ data'[c] = 0 /\ write'[c] = None /\ ~created'[c]
      /\ \A d \in Clients \ {c} : Same(d)
  BY DEF End, Go, Same, IInv, TypeOK
<1>3. Own(c)'
  BY <1>2 DEF Own, Control, DataBorn, Pending, Reread, NewRow, Searched, Reserved
<1>4. \A d \in Clients \ {c} : pc[d] = "commit" => data[d] # 0
  BY IdsAssumption DEF IInv, Own, Control
<1>5. \A d \in Clients \ {c} : Apart(c, d)' /\ Apart(d, c)'
  BY <1>2, <1>4 DEF Apart, Same
<1> QED  BY <1>1, <1>2, <1>3, <1>5

LEMMA FailStep ==
    ASSUME IInv, NEW c \in Clients, NEW err \in Errors \ {"none"}, End(c, err), Observe
    PROVE  IInv'
<1>1. rows' = rows  BY DEF End
<1> QED  BY <1>1, Ended, OwnStep

LEMMA UpdateStep ==
    ASSUME IInv, NEW c \in Clients, Update(c), Observe PROVE IInv'
<1> PICK old : old = rows[data[c]]  OBVIOUS
<1> PICK new : new = Contract!Assigned(old, call[c].set)  OBVIOUS
<1>1. Own(c) /\ Control(c) /\ TypeOK /\ pc[c] = "update"  BY DEF IInv, Own, Update
<1>2. \/ Moves(c, "reload")
      \/ End(c, "duplicate")
      \/ /\ Writes(c, new) /\ Go(c, "reload") /\ UNCHANGED <<data, born>>
         /\ Contract!Visible(old, call[c].updRuled) /\ old \in Row /\ new \in Row
         /\ new.val # old.val => ~ValueBusy(c, new.val) /\ ~ValueTaken(data[c], new.val)
         /\ ~Held(data[c])
  BY <1>1, UpdateCases
<1>3. CASE Moves(c, "reload")  BY <1>1, <1>3, MovesStep
<1>4. CASE End(c, "duplicate")  BY <1>4, FailStep DEF Errors
<1>5. CASE /\ Writes(c, new) /\ Go(c, "reload") /\ UNCHANGED <<data, born>>
           /\ Contract!Visible(old, call[c].updRuled) /\ old \in Row /\ new \in Row
           /\ new.val # old.val => ~ValueBusy(c, new.val) /\ ~ValueTaken(data[c], new.val)
           /\ ~Held(data[c])
  <2>1. TypeOK'  BY <1>1, <1>5, WritesTyped
  <2>2. /\ UNCHANGED <<unique, rows, born, call, data, created>>
        /\ write'[c] = new /\ pc'[c] = "reload" /\ \A d \in Clients \ {c} : Same(d)
    BY <1>1, <1>5 DEF Writes, Go, Same, TypeOK
  <2>3. /\ data[c] \in Ids /\ ~created[c] /\ call[c].op = "update" /\ call[c] # Idle
        /\ rows[data[c]] # Gone /\ new # None
    BY <1>1, <1>5, NullsAssumption DEF Control
  <2>4. Control(c)' /\ DataBorn(c)' /\ Pending(c)' /\ Reread(c)' /\ NewRow(c)'
    BY <1>1, <1>5, <2>2, <2>3 DEF Own, Control, DataBorn, Pending, Reread, NewRow
  <2>5. Searched(c)'
    BY <1>1, <2>2, <2>3, HistoryGrows DEF Own, Searched
  <2>6. Reserved(c)'
    <3> SUFFICES ASSUME unique, NEW id \in Ids \ {data[c]}, rows[id] # Gone
                 PROVE  rows[id].val # new.val
      BY <2>2 DEF Reserved
    <3>1. CASE new.val = old.val  BY <2>3, <3>1 DEF IInv, UniqueRows
    <3>2. CASE new.val # old.val  BY <1>5, <3>2 DEF ValueTaken
    <3> QED  BY <3>1, <3>2
  <2>7. ASSUME NEW d \in Clients \ {c} PROVE Apart(c, d)' /\ Apart(d, c)'
    <3>1. write[d] # None => data[d] # data[c]  BY <1>5 DEF Held
    <3>2. ASSUME unique, write[d] # None PROVE write[d].val # new.val
      <4>1. CASE new.val = old.val
        <5>1. Reserved(d)  BY DEF IInv, Own
        <5> QED  BY <2>3, <3>1, <3>2, <4>1, <5>1 DEF Reserved
      <4>2. CASE new.val # old.val  BY <1>5, <3>2, <4>2 DEF ValueBusy
      <4> QED  BY <4>1, <4>2
    <3>3. pc[d] = "commit" /\ created[d] => write[d] # None
      BY NewRowWritten
    <3> QED  BY <2>2, <2>3, <3>1, <3>2, <3>3 DEF Apart, Same
  <2> QED  BY <2>1, <2>2, <2>4, <2>5, <2>6, <2>7, OwnStep DEF Own
<1> QED  BY <1>2, <1>3, <1>4, <1>5

LEMMA InsertStep ==
    ASSUME IInv, NEW c \in Clients, Insert(c), Observe PROVE IInv'
<1> PICK row : row = call[c].defaults  OBVIOUS
<1>1. Own(c) /\ Control(c) /\ TypeOK /\ pc[c] = "insert"  BY DEF IInv, Own, Insert
<1>2. \/ \E err \in {"database", "duplicate"} : End(c, err)
      \/ \E id \in Ids \ born :
           /\ Writes(c, row) /\ Go(c, "commit")
           /\ born' = born \cup {id} /\ data' = [data EXCEPT ![c] = id]
           /\ row \in Row
           /\ ~ValueBusy(c, row.val) /\ ~ValueTaken(0, row.val)
  BY <1>1, InsertCases
<1>3. CASE \E err \in {"database", "duplicate"} : End(c, err)
  BY <1>3, FailStep DEF Errors
<1>4. ASSUME NEW id \in Ids \ born,
             Writes(c, row), Go(c, "commit"),
             born' = born \cup {id}, data' = [data EXCEPT ![c] = id],
             row \in Row, ~ValueBusy(c, row.val), ~ValueTaken(0, row.val)
      PROVE  IInv'
  <2>1. TypeOK'  BY <1>1, <1>4, WritesTyped
  <2>2. /\ UNCHANGED <<unique, rows, call, created>> /\ born \subseteq born'
        /\ write'[c] = row /\ data'[c] = id /\ id \in born' /\ pc'[c] = "commit"
        /\ \A d \in Clients \ {c} : Same(d)
    BY <1>1, <1>4 DEF Writes, Go, Same, TypeOK
  <2>3. /\ created[c] /\ call[c] # Idle /\ row # None
        /\ rows[id] = Gone /\ id # 0
    BY <1>1, <1>4, NullsAssumption, IdsAssumption DEF Control, IInv, RowsBorn
  <2>4. Control(c)' /\ DataBorn(c)' /\ Pending(c)' /\ Reread(c)' /\ NewRow(c)'
    BY <1>1, <2>2, <2>3 DEF Control, DataBorn, Pending, Reread, NewRow
  <2>5. Searched(c)'
    BY <1>1, <2>2, <2>3, HistoryGrows DEF Own, Searched
  <2>6. Reserved(c)'
    BY <1>4, <2>2, IdsAssumption DEF Reserved, ValueTaken
  <2>7. ASSUME NEW d \in Clients \ {c} PROVE Apart(c, d)' /\ Apart(d, c)'
    <3>1. data[d] # id  BY <1>4, <2>3 DEF IInv, Own, DataBorn
    <3>2. unique /\ write[d] # None => write[d].val # row.val
      BY <1>4 DEF ValueBusy
    <3> QED  BY <2>2, <3>1, <3>2 DEF Apart, Same
  <2> QED  BY <2>1, <2>2, <2>4, <2>5, <2>6, <2>7, OwnStep DEF Own
<1> QED  BY <1>2, <1>3, <1>4

LEMMA ReloadStep ==
    ASSUME IInv, NEW c \in Clients, Reload(c), Observe PROVE IInv'
<1>1. CASE Moves(c, "commit") /\ (write[c] # None => Contract!Visible(write[c], call[c].ruled))
  BY <1>1, MovesStep DEF Reload
<1>2. CASE End(c, "not found")  BY <1>2, FailStep DEF Errors
<1> QED  BY <1>1, <1>2 DEF Reload, Moves

(* The commit puts a row into the table that everyone else has been kept   *)
(* away from.                                                              *)
LEMMA CommitStep ==
    ASSUME IInv, NEW c \in Clients, Commit(c), Observe PROVE IInv'
<1>1. /\ TypeOK' /\ UNCHANGED <<unique, born>> /\ Own(c)'
      /\ \A d \in Clients \ {c} : Same(d) /\ Apart(c, d)' /\ Apart(d, c)'
  BY Ended DEF Commit, Errors
<1>2. CASE write[c] = None
  <2>1. rows' = rows  BY <1>2 DEF Commit, End
  <2> QED  BY <1>1, <2>1, OwnStep
<1>3. CASE write[c] # None
  <2>1. rows' = [rows EXCEPT ![data[c]] = write[c]] /\ pc[c] = "commit"
    BY <1>3 DEF Commit, End
  <2>2. data[c] \in Ids /\ data[c] \in born /\ Reserved(c)
    BY <2>1, IdsAssumption DEF IInv, Own, Control, DataBorn
  <2>3. /\ rows'[data[c]] = write[c]
        /\ \A id \in Ids \ {data[c]} : rows'[id] = rows[id]
    BY <2>1, <2>2 DEF IInv, TypeOK
  <2>4. RowsBorn'  BY <1>1, <2>2, <2>3 DEF IInv, RowsBorn
  <2>5. UniqueRows'
    BY <1>1, <1>3, <2>2, <2>3 DEF IInv, UniqueRows, Reserved
  <2>6. ASSUME NEW d \in Clients \ {c} PROVE Own(d)'
    <3>1. Apart(c, d) /\ Own(d)  BY DEF IInv
    <3>2. Spares(d)
      <4>1. write[d] # None => rows'[data[d]] = rows[data[d]]
        <5>1. ASSUME write[d] # None PROVE data[d] \in Ids \ {data[c]}
          BY <1>3, <3>1, <5>1 DEF Apart, IInv, Own, Control, TypeOK
        <5> QED  BY <2>3, <5>1
      <4> QED  BY <1>1, <1>3, <2>3, <3>1, <4>1 DEF Spares, Apart
    <3> QED  BY <1>1, <3>1, <3>2, OwnKeeps DEF IInv
  <2>7. ASSUME NEW d \in Clients, NEW e \in Clients, d # e PROVE Apart(d, e)'
    <3>1. CASE d = c \/ e = c  BY <1>1, <2>7, <3>1
    <3>2. CASE d # c /\ e # c
      <4>1. Apart(d, e) /\ Same(d) /\ Same(e)  BY <1>1, <2>7, <3>2 DEF IInv
      <4> QED  BY <4>1, <1>1 DEF Apart, Same
    <3> QED  BY <3>1, <3>2
  <2>8. \A d \in Clients : Own(d)'  BY <1>1, <2>6
  <2> QED  BY <1>1, <2>4, <2>5, <2>7, <2>8 DEF IInv
<1> QED  BY <1>2, <1>3

-----------------------------------------------------------------------------
(* Other sessions.                                                         *)

(* One row changes: one that no transaction holds, to a value nobody has   *)
(* and nobody reserves.                                                    *)
LEMMA OtherStep ==
    ASSUME IInv, TypeOK', Observe, UNCHANGED <<unique, local>>, born \subseteq born',
           NEW id \in born' \cap Ids, NEW row \in Row \cup {Gone},
           rows' = [rows EXCEPT ![id] = row],
           ~Held(id),
           row # Gone /\ unique =>
               /\ \A d \in Clients : write[d] # None => write[d].val # row.val
               /\ \A other \in Ids \ {id} : rows[other] # Gone => rows[other].val # row.val
    PROVE  IInv'
<1>1. rows'[id] = row /\ \A other \in Ids \ {id} : rows'[other] = rows[other]
  BY DEF IInv, TypeOK
<1>2. \A d \in Clients : Same(d)  BY DEF local, Same
<1>3. RowsBorn'  BY <1>1 DEF IInv, RowsBorn
<1>4. UniqueRows'  BY <1>1 DEF IInv, UniqueRows
<1>5. ASSUME NEW d \in Clients PROVE Own(d)'
  <2>1. write[d] # None => data[d] \in Ids \ {id}
    BY DEF Held, IInv, Own, Control, TypeOK
  <2>2. Spares(d)  BY <1>1, <2>1 DEF Spares
  <2> QED  BY <1>2, <2>2, OwnKeeps DEF IInv
<1>6. \A d \in Clients, e \in Clients : d # e => Apart(d, e)'
  BY <1>2 DEF IInv, Apart, Same
<1> QED  BY <1>3, <1>4, <1>5, <1>6 DEF IInv

LEMMA NotBusy ==
    ASSUME NEW v, ~ValueBusy(None, v), unique, NEW d \in Clients, write[d] # None
    PROVE  write[d].val # v
<1>1. d \in Clients \ {None}  BY NullsAssumption
<1> QED  BY <1>1 DEF ValueBusy

LEMMA OtherInsertsStep ==
    ASSUME IInv, NEW row \in Row, OtherInserts(row), Observe PROVE IInv'
<1>1. TypeOK'  BY OthersTyped DEF IInv
<1>2. PICK id \in Ids : Fresh(id) /\ born' = born \cup {id} /\ rows' = [rows EXCEPT ![id] = row]
  BY DEF OtherInserts
<1>3. id \notin born /\ id # 0  BY <1>2, IdsAssumption DEF Fresh
<1>4. ~Held(id)  BY <1>3 DEF Held, IInv, Own, DataBorn
<1>5. unique => \A d \in Clients : write[d] # None => write[d].val # row.val
  BY NotBusy DEF OtherInserts
<1>6. unique => \A other \in Ids \ {id} : rows[other] # Gone => rows[other].val # row.val
  BY IdsAssumption DEF OtherInserts, ValueTaken
<1>7. UNCHANGED <<unique, local>>  BY DEF OtherInserts
<1> QED  BY <1>1, <1>2, <1>4, <1>5, <1>6, <1>7, OtherStep

LEMMA OtherWritesStep ==
    ASSUME IInv, NEW id \in Ids, NEW row \in Row \cup {Gone}, OtherWrites(id, row), Observe
    PROVE  IInv'
<1>1. TypeOK'  BY OthersTyped DEF IInv
<1>2. /\ rows[id] # Gone /\ ~Held(id) /\ rows' = [rows EXCEPT ![id] = row]
      /\ UNCHANGED <<unique, born, local>>
  BY DEF OtherWrites
<1>3. id \in born  BY <1>2 DEF IInv, RowsBorn
<1>4. ASSUME row # Gone, unique, NEW d \in Clients, write[d] # None PROVE write[d].val # row.val
  <2>1. CASE row.val = rows[id].val
    <3>1. Reserved(d) /\ data[d] # id  BY <1>2, <1>4 DEF Held, IInv, Own
    <3> QED  BY <1>2, <1>4, <2>1, <3>1 DEF Reserved
  <2>2. CASE row.val # rows[id].val
    BY <1>4, <2>2, NotBusy DEF OtherWrites
  <2> QED  BY <2>1, <2>2
<1>5. ASSUME row # Gone, unique
      PROVE  \A other \in Ids \ {id} : rows[other] # Gone => rows[other].val # row.val
  BY <1>5 DEF OtherWrites, ValueTaken
<1> QED  BY <1>1, <1>2, <1>3, <1>4, <1>5, OtherStep

-----------------------------------------------------------------------------
(* The invariant and the types.                                            *)

LEMMA NextPreserves == IInv /\ [Next]_vars => IInv'
<1> SUFFICES ASSUME IInv, [Next]_vars PROVE IInv'  OBVIOUS
<1>1. CASE UNCHANGED vars
  <2>1. UNCHANGED <<unique, rows, born, call, pc, data, write, created, answer, seen, absent>>
    BY <1>1 DEF vars, table, local
  <2>2. TypeOK' /\ RowsBorn' /\ UniqueRows'  BY <2>1 DEF IInv, TypeOK, RowsBorn, UniqueRows
  <2>3. ASSUME NEW c \in Clients PROVE Own(c)'
    BY <2>1 DEF IInv, Own, Control, DataBorn, Pending, Reread, NewRow, Searched, Reserved
  <2>4. ASSUME NEW c \in Clients, NEW d \in Clients, c # d PROVE Apart(c, d)'
    BY <2>1, <2>4 DEF IInv, Apart
  <2> QED  BY <2>2, <2>3, <2>4 DEF IInv
<1>2. ASSUME NEW c \in Clients, Step(c) PROVE IInv'
  BY <1>2, LookupStep, UpdateStep, ReloadStep, InsertStep, CommitStep DEF Step
<1>3. ASSUME NEW c \in Clients, Fails(c), Observe PROVE IInv'
  BY <1>3, FailStep DEF Fails, Errors
<1> QED
  BY <1>1, <1>2, <1>3, BeginStep, OtherInsertsStep, OtherWritesStep DEF Next

(* The inductive invariant holds in every behaviour: what a call has read  *)
(* or written stays true until its transaction ends.                       *)
THEOREM Inductive == Spec => []IInv
<1>1. Init => IInv  BY InitEstablishes
<1>2. IInv /\ [Next]_vars => IInv'  BY NextPreserves
<1> QED  BY <1>1, <1>2, PTL DEF Spec

(* Every variable has its type, and no transaction is open between calls.  *)
THEOREM Typed == Spec => []TypeOK
<1>1. IInv => TypeOK  BY DEF IInv
<1> QED  BY <1>1, Inductive, PTL

-----------------------------------------------------------------------------
(* The refinement: every step is one of FirstOrContract.                   *)

LEMMA SilentOthers ==
    ASSUME Observe, Silent, UNCHANGED <<unique, call>> PROVE Contract!ANext
BY DEF Observe, Silent, Contract!ANext, Contract!Others

LEMMA BeginAsks ==
    ASSUME IInv, NEW c \in Clients, NEW asked \in Calls, Begin(c, asked), Observe
    PROVE  Contract!ANext
<1>1. /\ call[c] = Idle /\ call'[c] = asked /\ asked # Idle /\ answer' = None
      /\ UNCHANGED <<unique, rows>> /\ \A d \in Clients \ {c} : call'[d] = call[d]
  BY CallType DEF Begin, Silent, table, IInv, TypeOK, Own, Control
<1> QED  BY <1>1 DEF Observe, Contract!ANext, Contract!Ask

(* An error changes no row; the answer of a failed call creates nothing.   *)
LEMMA EndFails ==
    ASSUME IInv, NEW c \in Clients, NEW err \in Errors \ {"none"}, End(c, err), Observe,
           pc[c] # "idle"
    PROVE  Contract!ANext
<1>1. /\ call[c] # Idle /\ call'[c] = Idle /\ UNCHANGED <<unique, rows>>
      /\ \A d \in Clients \ {c} : call'[d] = call[d]
      /\ data[c] \in Ids \cup {0}
  BY DEF End, IInv, TypeOK, Own, Control
<1>2. answer' = [client |-> c, err |-> err, created |-> FALSE, id |-> data[c]]
  <2>1. (created[c] /\ err = "none") = FALSE  OBVIOUS
  <2> QED  BY <2>1 DEF End, Returns
<1>3. Contract!Failed(c)
  BY <1>1, <1>2 DEF Contract!Failed, Contract!Return, Errors
<1> QED  BY <1>1, <1>3 DEF Observe, Contract!ANext, Contract!Answer

(* What a commit does to the table, and what it answers.                   *)
LEMMA CommitEffect ==
    ASSUME IInv, NEW c \in Clients, Commit(c)
    PROVE  /\ call[c] # Idle /\ call'[c] = Idle /\ UNCHANGED unique
           /\ \A d \in Clients \ {c} : call'[d] = call[d]
           /\ data[c] \in Ids
           /\ answer' = [client |-> c, err |-> "none", created |-> created[c], id |-> data[c]]
           /\ rows' = IF write[c] # None THEN [rows EXCEPT ![data[c]] = write[c]] ELSE rows
           /\ created[c] => /\ write[c] = call[c].defaults /\ write[c] # None
                            /\ rows[data[c]] = Gone /\ absent[c]
           /\ ~created[c] /\ write[c] # None =>
                 /\ call[c].op = "update" /\ rows[data[c]] # Gone
                 /\ Contract!Visible(rows[data[c]], call[c].updRuled)
                 /\ write[c] = Contract!Assigned(rows[data[c]], call[c].set)
                 /\ Contract!Visible(write[c], call[c].ruled)
           /\ ~created[c] => data[c] \in seen[c]
<1>1. pc[c] = "commit" /\ Own(c) /\ End(c, "none")  BY DEF Commit, IInv
<1>2. /\ call[c] # Idle /\ data[c] \in Ids  BY <1>1 DEF Own, Control
<1>3. /\ call'[c] = Idle /\ UNCHANGED unique /\ \A d \in Clients \ {c} : call'[d] = call[d]
      /\ rows' = IF write[c] # None THEN [rows EXCEPT ![data[c]] = write[c]] ELSE rows
  BY <1>1 DEF End, IInv, TypeOK
<1>4. answer' = [client |-> c, err |-> "none", created |-> created[c], id |-> data[c]]
  <2>1. (created[c] /\ "none" = "none") = created[c]  BY DEF IInv, TypeOK
  <2> QED  BY <1>1, <2>1 DEF End, Returns
<1>5. created[c] => /\ write[c] = call[c].defaults /\ write[c] # None
                    /\ rows[data[c]] = Gone /\ absent[c]
  BY <1>1, NewRowWritten DEF Own, NewRow, Searched
<1>6. ~created[c] => data[c] \in seen[c]  BY <1>1 DEF Own, Searched
<1>7. ~created[c] /\ write[c] # None =>
         /\ call[c].op = "update" /\ rows[data[c]] # Gone
         /\ Contract!Visible(rows[data[c]], call[c].updRuled)
         /\ write[c] = Contract!Assigned(rows[data[c]], call[c].set)
         /\ Contract!Visible(write[c], call[c].ruled)
  BY <1>1 DEF Own, Pending, Reread
<1> QED  BY <1>2, <1>3, <1>4, <1>5, <1>6, <1>7

LEMMA CommitAnswers ==
    ASSUME IInv, NEW c \in Clients, Commit(c), Observe PROVE Contract!ANext
<1> PICK id : id = data[c]  OBVIOUS
<1>1. /\ call[c] # Idle /\ call'[c] = Idle /\ UNCHANGED unique
      /\ \A d \in Clients \ {c} : call'[d] = call[d]
      /\ id \in Ids
      /\ answer' = [client |-> c, err |-> "none", created |-> created[c], id |-> id]
      /\ rows' = IF write[c] # None THEN [rows EXCEPT ![id] = write[c]] ELSE rows
      /\ created[c] => /\ write[c] = call[c].defaults /\ write[c] # None
                       /\ rows[id] = Gone /\ absent[c]
      /\ ~created[c] /\ write[c] # None =>
            /\ call[c].op = "update" /\ rows[id] # Gone
            /\ Contract!Visible(rows[id], call[c].updRuled)
            /\ write[c] = Contract!Assigned(rows[id], call[c].set)
            /\ Contract!Visible(write[c], call[c].ruled)
      /\ ~created[c] => id \in seen[c]
  BY CommitEffect
<1>2. CASE created[c]
  <2>1. created[c] = TRUE  BY <1>2 DEF IInv, TypeOK
  <2>2. rows' = [rows EXCEPT ![id] = call[c].defaults]  BY <1>1, <1>2
  <2>3. unique => \A other \in Ids : rows[other] # Gone => rows[other].val # call[c].defaults.val
    BY <1>1, <1>2 DEF IInv, Own, Reserved
  <2>4. Contract!Created(c)
    BY <1>1, <1>2, <2>1, <2>2, <2>3 DEF Contract!Created, Contract!Return
  <2> QED  BY <1>1, <2>4 DEF Observe, Contract!ANext, Contract!Answer
<1>3. CASE ~created[c]
  <2>1. created[c] = FALSE  BY <1>3 DEF IInv, TypeOK
  <2>2. \/ UNCHANGED rows
        \/ /\ call[c].op = "update" /\ rows[id] # Gone
           /\ rows' = [rows EXCEPT ![id] = Contract!Assigned(@, call[c].set)]
           /\ Contract!Visible(rows'[id], call[c].ruled)
    <3>1. CASE write[c] = None  BY <1>1, <3>1
    <3>2. CASE write[c] # None
      <4>1. rows'[id] = write[c]  BY <1>1, <3>2 DEF IInv, TypeOK
      <4> QED  BY <1>1, <1>3, <3>2, <4>1
    <3> QED  BY <3>1, <3>2
  <2>3. Contract!Found(c)
    BY <1>1, <1>3, <2>1, <2>2 DEF Contract!Found, Contract!Return
  <2> QED  BY <1>1, <2>3 DEF Observe, Contract!ANext, Contract!Answer
<1> QED  BY <1>2, <1>3

(* A statement of a call either ends it or says nothing.                   *)
LEMMA StatementCases ==
    ASSUME IInv, NEW c \in Clients, Step(c)
    PROVE  /\ Observe
           /\ \/ Silent /\ UNCHANGED <<unique, call>> /\ pc'[c] # "idle"
              \/ pc[c] # "idle" /\ \E err \in Errors \ {"none"} : End(c, err)
              \/ Commit(c)
<1>0. TypeOK /\ Control(c)  BY DEF IInv, Own
<1>1. CASE Lookup(c)
  BY <1>0, <1>1 DEF Step, Lookup, Go, table, TypeOK
<1>2. CASE Update(c)
  <2> PICK old : old = rows[data[c]]  OBVIOUS
  <2> PICK new : new = Contract!Assigned(old, call[c].set)  OBVIOUS
  <2>1. \/ Moves(c, "reload") \/ End(c, "duplicate") \/ (Writes(c, new) /\ Go(c, "reload"))
    BY <1>0, <1>2, UpdateCases
  <2> QED  BY <1>0, <1>2, <2>1 DEF Step, Moves, Writes, Go, table, Errors, Update, TypeOK
<1>3. CASE Reload(c)
  BY <1>0, <1>3 DEF Step, Reload, Go, table, Errors, TypeOK
<1>4. CASE Insert(c)
  <2>1. \/ \E err \in {"database", "duplicate"} : End(c, err)
        \/ Writes(c, call[c].defaults) /\ Go(c, "commit")
    BY <1>0, <1>4, InsertCases
  <2> QED  BY <1>0, <1>4, <2>1 DEF Step, Writes, Go, Errors, Insert, TypeOK
<1>5. CASE Commit(c)  BY <1>5 DEF Step
<1> QED  BY <1>1, <1>2, <1>3, <1>4, <1>5 DEF Step

LEMMA StepRefines == IInv /\ [Next]_vars => [Contract!ANext]_(Contract!avars)
<1> SUFFICES ASSUME IInv, [Next]_vars PROVE [Contract!ANext]_(Contract!avars)  OBVIOUS
<1>1. CASE UNCHANGED vars  BY <1>1 DEF vars, table, local, Contract!avars
<1>2. ASSUME NEW c \in Clients, Step(c) PROVE Contract!ANext
  BY <1>2, StatementCases, SilentOthers, EndFails, CommitAnswers
<1>3. ASSUME NEW c \in Clients, Fails(c), Observe PROVE Contract!ANext
  BY <1>3, EndFails DEF Fails, Errors
<1>4. ASSUME NEW row \in Row, OtherInserts(row), Observe PROVE Contract!ANext
  BY <1>4, SilentOthers DEF OtherInserts, local
<1>5. ASSUME NEW id \in Ids, NEW row \in Row \cup {Gone}, OtherWrites(id, row), Observe
      PROVE  Contract!ANext
  BY <1>5, SilentOthers DEF OtherWrites, local
<1> QED  BY <1>1, <1>2, <1>3, <1>4, <1>5, BeginAsks DEF Next

(* FirstOrCreate and FirstOrUpdate keep FirstOrContract: an error leaves   *)
(* no trace, created means that this call's defaults are in the table, an  *)
(* updated row is one the search found and stays visible.                  *)
THEOREM Refines == Spec => KeepsContract
<1>1. Init => Contract!AInit  BY DEF Init, Contract!AInit
<1>2. IInv /\ [Next]_vars => [Contract!ANext]_(Contract!avars)  BY StepRefines
<1> QED  BY <1>1, <1>2, Inductive, PTL DEF Spec, KeepsContract, Contract!Spec

-----------------------------------------------------------------------------
(* Rules.                                                                  *)

LEMMA StepStays ==
    IInv /\ [Next]_vars =>
        [\A c \in Clients :
            pc[c] # "idle" /\ pc'[c] = "idle" /\ call[c].ruled /\ call[c].updRuled /\ ~created[c] =>
                \A id \in Ids : rows'[id] # rows[id] =>
                    Contract!Visible(rows[id], TRUE) /\ Contract!Visible(rows'[id], TRUE)]_vars
<1> SUFFICES ASSUME IInv, Next, NEW c \in Clients, pc[c] # "idle", pc'[c] = "idle",
                    call[c].ruled, call[c].updRuled, ~created[c],
                    NEW id \in Ids, rows'[id] # rows[id]
             PROVE  Contract!Visible(rows[id], TRUE) /\ Contract!Visible(rows'[id], TRUE)
  OBVIOUS
<1>1. CASE Commit(c)
  <2>1. /\ rows' = IF write[c] # None THEN [rows EXCEPT ![data[c]] = write[c]] ELSE rows
        /\ data[c] \in Ids
        /\ write[c] # None => /\ Contract!Visible(rows[data[c]], call[c].updRuled)
                              /\ Contract!Visible(write[c], call[c].ruled)
    BY <1>1, CommitEffect
  <2>2. id = data[c] /\ write[c] # None /\ rows'[id] = write[c]
    BY <2>1 DEF IInv, TypeOK
  <2> QED  BY <2>1, <2>2 DEF Contract!Visible
<1>2. CASE Step(c) \/ (Fails(c) /\ Observe)
  <2>1. Commit(c) \/ \E err \in Errors \ {"none"} : End(c, err)
    BY <1>2, StatementCases DEF Fails, Errors
  <2> QED  BY <1>1, <2>1 DEF End
<1>3. ASSUME NEW d \in Clients \ {c}, Step(d) \/ Fails(d) PROVE FALSE
  BY <1>3 DEF Step, Lookup, Update, Reload, Insert, Commit, Fails, End, Go, IInv, TypeOK
<1>4. ASSUME NEW d \in Clients, NEW asked \in Calls, Begin(d, asked) PROVE FALSE
  BY <1>4 DEF Begin, Go, IInv, TypeOK
<1>5. ~UNCHANGED local  BY DEF local
<1>6. \A d \in Clients : Step(d) \/ (Fails(d) /\ Observe) => d = c  BY <1>3
<1>7. \/ \E d \in Clients : Step(d) \/ (Fails(d) /\ Observe)
      \/ \E d \in Clients, asked \in Calls : Begin(d, asked)
      \/ UNCHANGED local
  BY DEF Next, OtherInserts, OtherWrites
<1> QED  BY <1>2, <1>4, <1>5, <1>6, <1>7

(* repository.go:732: under rules in both contexts FirstOrUpdate changes   *)
(* only rows the rules show when they are changed, and leaves them visible.*)
THEOREM WithinRules == Spec => StaysInTenant
BY Inductive, StepStays, PTL DEF Spec, StaysInTenant

=============================================================================
