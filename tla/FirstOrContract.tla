--------------------------- MODULE FirstOrContract ---------------------------
(***************************************************************************)
(* What concurrent callers of FirstOrCreate and FirstOrUpdate can rely on: *)
(* a call changes the table at one moment or not at all, and its answer    *)
(* was true at some moment of the call.  That is less than an atomic       *)
(* look-up with creation.  A found row matched the search at some moment   *)
(* while the call ran.  A row is created although another call may have    *)
(* created its like since the look-up; only a unique index rules out that  *)
(* its value is there twice.                                               *)
(***************************************************************************)
CONSTANTS Clients, Ids, Gone, Idle, None

VARIABLES
    unique,         \* there is a unique index on the searched column
    rows,           \* the committed rows
    call,           \* what each client asks for
    seen, absent,   \* rows that matched since the call began; whether none did
    answer          \* the answer the last step gave, if it gave one

avars == <<unique, rows, call, seen, absent, answer>>

(* A row as an Updater's assignments leave it.                             *)
Assigned(row, set) == [f \in DOMAIN row |-> IF f \in DOMAIN set THEN set[f] ELSE row[f]]

Visible(row, ruled) == row # Gone /\ (ruled => row.tenant = "own")
Matching(t, asked) == {id \in Ids : Visible(t[id], asked.ruled) /\ t[id].val = asked.val}

AInit ==
    /\ unique \in BOOLEAN
    /\ answer = None
    /\ call = [c \in Clients |-> Idle]
    /\ seen = [c \in Clients |-> {}] /\ absent = [c \in Clients |-> FALSE]

Ask(c) == call[c] = Idle /\ call'[c] # Idle /\ answer' = None /\ UNCHANGED rows

Return(c, err, created, id) ==
    answer' = [client |-> c, err |-> err, created |-> created, id |-> id]

Found(c) ==
    \E id \in seen[c] :
        /\ Return(c, "none", FALSE, id)
        /\ \/ UNCHANGED rows
           \/ /\ call[c].op = "update" /\ rows[id] # Gone
              /\ rows' = [rows EXCEPT ![id] = Assigned(@, call[c].set)]
              /\ Visible(rows'[id], call[c].ruled)

(* Without the index, that nothing matched may have been true at another   *)
(* moment than the one of the creation.                                    *)
Created(c) ==
    \E id \in Ids :
        /\ Return(c, "none", TRUE, id)
        /\ rows[id] = Gone /\ rows' = [rows EXCEPT ![id] = call[c].defaults]
        /\ absent[c]
        /\ unique => \A other \in Ids : rows[other] # Gone => rows[other].val # call[c].defaults.val

Failed(c) == \E err \in {"not found", "duplicate", "database"}, id \in Ids \cup {0} :
                 Return(c, err, FALSE, id) /\ UNCHANGED rows

Answer(c) == call[c] # Idle /\ call'[c] = Idle /\ (Found(c) \/ Created(c) \/ Failed(c))

(* Other sessions change the table while the calls go on.                  *)
Others == answer' = None /\ UNCHANGED call

(* A row counts as seen, and the absence of rows, from the call on.        *)
Observed ==
    /\ seen' = [c \in Clients |->
                   IF call'[c] = Idle THEN {}
                   ELSE (IF call[c] = Idle THEN {} ELSE seen[c]) \cup Matching(rows', call'[c])]
    /\ absent' = [c \in Clients |->
                     call'[c] # Idle /\ (absent[c] \/ Matching(rows', call'[c]) = {})]

ANext ==
    /\ Observed /\ UNCHANGED unique
    /\ \/ \E c \in Clients : /\ \A d \in Clients \ {c} : call'[d] = call[d]
                             /\ Ask(c) \/ Answer(c)
       \/ Others

Spec == AInit /\ [][ANext]_avars
=============================================================================
