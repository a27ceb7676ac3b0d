-------------------------------- MODULE Pager --------------------------------
(***************************************************************************)
(* Reading a result page by page: Query.Page, Limit and Offset, and the    *)
(* calls of PageTx, PageAsTx and FindOneAsTx on one query.                 *)
(*                                                                         *)
(* A page is read by two statements, COUNT and the list, between which     *)
(* other sessions change the table unless a transaction gives both the     *)
(* same snapshot.  Offsets are computed in Go's int.  The query orders by  *)
(* a unique column; rows are the ones that match it and its rules.         *)
(***************************************************************************)
EXTENDS Integers, SequencesExt, KeyOrder

CONSTANTS
    Keys, Values,   \* rows have a key and the value of a projected column
    MaxInt,         \* the largest int; the smallest is -MaxInt - 1
    DefaultSize,    \* 10 in the code
    Numbers,        \* arguments of Page, Limit and Offset
    None

ASSUME RowsAssumption == /\ Keys \subseteq Nat /\ IsFiniteSet(Keys)
                         /\ Values \subseteq Nat /\ None \notin Values
ASSUME IntAssumption == /\ MaxInt \in Nat /\ DefaultSize \in 1..MaxInt
                        /\ Numbers \subseteq -MaxInt - 1 .. MaxInt

VARIABLES
    distinct,       \* the query selects the distinct values of the column
    snapshot,       \* the caller's transaction reads from a snapshot
    table,
    limit, offset, failed,  \* of the query; failed: q.errs is not empty
    pc, total,      \* the running call of Page
    counted,        \* the table its COUNT has seen, None without one
    answer,         \* what the last step returned, if it returned
    asked,          \* history: page and size asked for, if they count
    shown, moved    \* history: the items of pages 1, 2, ... so far, and
                    \* whether they have stopped being the first ones

setting == <<distinct, snapshot>>
query == <<limit, offset, failed>>
call == <<pc, total, counted>>
history == <<asked, shown, moved>>
vars == <<setting, table, query, call, answer, history>>

Custom == <<>>     \* Limit or Offset were called, no page is asked for

(* The items of a table, in order, as rows or as distinct values.          *)
Items(t, unique) ==
    LET keys == {k \in Keys : t[k] # None}
    IN  InOrder(IF unique THEN {t[k] : k \in keys} ELSE keys)

(* The whole result of the query.                                          *)
Result(t) == Items(t, distinct)

(* The items after the first `from` ones and up to number `to`.            *)
Cut(items, from, to) == SubSeq(items, from + 1, IF to < Len(items) THEN to ELSE Len(items))

Init ==
    /\ distinct \in BOOLEAN /\ snapshot \in BOOLEAN
    /\ table \in [Keys -> Values \cup {None}]
    /\ limit = 0 /\ offset = 0 /\ failed = FALSE
    /\ pc = "idle" /\ total = 0 /\ counted = None /\ answer = None
    /\ asked = Custom /\ shown = <<>> /\ moved = FALSE

-----------------------------------------------------------------------------
(* The query.                                                              *)

(* A product of ints keeps its low bits.                                   *)
Wrapped(n) == ((n + MaxInt + 1) % (2 * (MaxInt + 1))) - (MaxInt + 1)

(* Mutation: no guard.                                                     *)
OverflowsNever(page, size) == FALSE

Overflows(page, size) == page - 1 > MaxInt \div size

(* Mutation: the page number is taken as it is.                            *)
PageNoAsGiven(page) == page

PageNo(page) == IF page <= 0 THEN 1 ELSE page
Size(size)   == IF size <= 0 THEN DefaultSize ELSE size

(* Mutation: the offset counts pages from 0.                               *)
StartFromZero(page, size) == Wrapped(size * page)

Start(page, size) == Wrapped(size * (page - 1))

(* A client that asks for pages 1, 2, ... of one size and reads each once  *)
(* has seen all the items before the page.                                 *)
Turning(page, size) == asked = <<page - 1, size>> /\ Len(shown) = (page - 1) * size

Page(page, size) ==
    LET p == PageNo(page)  s == Size(size) IN
    /\ IF Overflows(p, s) THEN failed' = TRUE /\ UNCHANGED <<limit, offset>>
       ELSE limit' = s /\ offset' = Start(p, s) /\ UNCHANGED failed
    /\ asked' = <<p, s>>
    /\ IF Turning(p, s) THEN UNCHANGED <<shown, moved>>
                        ELSE shown' = <<>> /\ moved' = FALSE

Limit(n)  == limit' = n /\ UNCHANGED <<offset, failed>>
Offset(n) == offset' = n /\ UNCHANGED <<limit, failed>>
Clear     == limit' = 0 /\ offset' = 0 /\ failed' = FALSE

Build ==
    /\ pc = "idle"
    /\ \/ \E page, size \in Numbers : Page(page, size)
       \/ /\ (\E n \in Numbers : Limit(n) \/ Offset(n)) \/ Clear
          /\ asked' = Custom /\ shown' = <<>> /\ moved' = FALSE
    /\ answer' = None /\ UNCHANGED <<setting, table, call>>

-----------------------------------------------------------------------------
(* The calls.                                                              *)

(* LIMIT and OFFSET are written only for positive numbers.                 *)
ListOf(t, lim) ==
    LET from == IF offset > 0 THEN offset ELSE 0
    IN  Cut(Result(t), from, IF lim > 0 THEN from + lim ELSE Len(Result(t)))

(* Mutation: COUNT counts rows, whatever the list shows of them.           *)
CountOfRows(t) == Cardinality({k \in Keys : t[k] # None})

(* BuildCount: neither order nor page, but the distinct values, which a    *)
(* subquery lists.                                                         *)
CountOf(t) == Len(Result(t))

(* The end of a call; seen is the table its last statement has read.       *)
Returns(op, err, sum, data, seen, first) ==
    /\ answer' = [op |-> op, err |-> err, total |-> sum, data |-> data,
                  seen |-> seen, counted |-> first]
    /\ pc' = "idle" /\ total' = 0 /\ counted' = None
    /\ UNCHANGED <<setting, table, query>>

(* Page and PageAs, with or without skipCount.                             *)
Call(skipCount) ==
    /\ pc = "idle"
    /\ IF failed THEN Returns("Page", "builder", 0, <<>>, None, None)
       ELSE /\ pc' = IF skipCount THEN "list" ELSE "count"
            /\ answer' = None
            /\ UNCHANGED <<setting, table, query, total, counted>>
    /\ UNCHANGED history

Count ==
    /\ pc = "count"
    /\ IF CountOf(table) = 0 THEN Returns("Page", "none", 0, <<>>, table, table)
       ELSE /\ total' = CountOf(table) /\ counted' = table
            /\ pc' = "list" /\ answer' = None /\ UNCHANGED <<setting, table, query>>
    /\ UNCHANGED history

(* What the list statement reads.                                          *)
View == IF snapshot /\ counted # None THEN counted ELSE table

List ==
    /\ pc = "list"
    /\ LET data == ListOf(View, limit)
           expected == asked # Custom /\ Len(shown) = (asked[1] - 1) * asked[2]
       IN  /\ Returns("Page", "none", total, data, View, counted)
           /\ shown' = IF expected THEN shown \o data ELSE shown
    /\ UNCHANGED <<asked, moved>>

Fails ==
    /\ pc # "idle"
    /\ Returns("Page", "database", total, <<>>, None, counted)
    /\ UNCHANGED history

(* Mutation: only a limit is a conflict.                                   *)
ConflictLimit == limit > 0

Conflict == limit > 0 \/ offset > 0

(* First adds LIMIT 1 and is refused next to a page.                       *)
FindOneAs ==
    /\ pc = "idle"
    /\ LET one == ListOf(table, 1)
           err == CASE Conflict -> "ErrFindOneAsConflict"
                    [] failed   -> "builder"
                    [] OTHER    -> IF one = <<>> THEN "not found" ELSE "none"
       IN  Returns("FindOneAs", err, 0, IF err = "none" THEN one ELSE <<>>, table, None)
    /\ UNCHANGED history

-----------------------------------------------------------------------------
(* Other sessions.  The items shown stop being the first ones when one of  *)
(* them disappears or another comes before them; within a snapshot they    *)
(* are behind after any change.                                            *)
Change(k, v) ==
    /\ table[k] # v
    /\ table' = [table EXCEPT ![k] = v]
    /\ moved' = (moved \/ ~IsPrefix(shown, Result(table')) \/ (snapshot /\ counted # None))
    /\ answer' = None
    /\ UNCHANGED <<setting, query, call, asked, shown>>

Next ==
    \/ Build
    \/ \E skipCount \in BOOLEAN : Call(skipCount)
    \/ Count \/ List \/ Fails \/ FindOneAs
    \/ \E k \in Keys, v \in Values \cup {None} : Change(k, v)

Spec == Init /\ [][Next]_vars

-----------------------------------------------------------------------------
(* Properties.                                                             *)

(* Every variable has its type; a page that was accepted leaves a limit    *)
(* and an offset that mean something.                                      *)
TypeOK ==
    /\ table \in [Keys -> Values \cup {None}]
    /\ limit \in -MaxInt - 1 .. MaxInt /\ offset \in -MaxInt - 1 .. MaxInt
    /\ failed \in BOOLEAN /\ pc \in {"idle", "count", "list"}
    /\ pc # "idle" => ~failed
    /\ asked # Custom /\ ~failed => limit > 0 /\ offset >= 0

Answered == answer # None /\ answer.op = "Page" /\ answer.err = "none"
Paged == Answered /\ asked # Custom

(* query.go:145: an answer shows the page that was asked for, or none.  A  *)
(* page far behind the end is empty or refused; a product that no longer   *)
(* fits in an int must not bring back the rows of an earlier page.         *)
PageAskedFor ==
    Paged => answer.data = Cut(Result(answer.seen), (asked[1] - 1) * asked[2], asked[1] * asked[2])

(* A client that turns the pages from the first one on sees the rows in    *)
(* order, none twice and none left out, whatever happens behind them; with *)
(* the first page that is not full it has seen everything.                 *)
PagesFollow ==
    ~moved /\ ~failed =>
        /\ IsPrefix(shown, Result(table))
        /\ Paged /\ Len(answer.data) < asked[2]
                 /\ Len(shown) = (asked[1] - 1) * asked[2] + Len(answer.data)
              => shown = Result(table)

(* COUNT and the list are two statements; unless the result changes in     *)
(* between, or if the transaction reads a snapshot, the total is the       *)
(* number of items the pages show, distinct values included.               *)
TotalAgrees ==
    Answered /\ answer.counted # None /\ (snapshot \/ answer.counted = answer.seen) =>
        LET rest == answer.total - (IF offset > 0 THEN offset ELSE 0)
        IN  Len(answer.data) = IF rest <= 0 THEN 0
                               ELSE IF limit > 0 /\ limit < rest THEN limit ELSE rest

(* find_as.go:84: FindOneAs returns the first row of the result or refuses;*)
(* a page or an offset left on the query never makes it another row.       *)
FirstIsFirst ==
    answer # None /\ answer.op = "FindOneAs" /\ answer.err = "none" =>
        answer.data = <<Result(answer.seen)[1]>>
=============================================================================
