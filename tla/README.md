# TLA+ specifications of gplus

gplus is a Go library on top of GORM: a typed, chainable `Query[T]` / `Updater[T]`
and a generic `Repository[D, T]` with terminal methods. This directory holds
specifications of the parts in which the order of calls, of errors, of SQL
fragments or of goroutines decides whether the library is correct, the TLC
configurations that check them and proofs for TLAPS. `PROJECT.json` lists
runs, mutants, findings, hazards and theorems, and maps each definition to the lines
it models.

## 1. Inventory

| Component | State | Operations | What is hard | What makes it correct |
|---|---|---|---|---|
| Builders (`query.go`, `update.go`, `builder.go`) | conditions, projection, lock, limit, assignments, `errs`, `core.errs`, `dataRuleApplied` | chain calls, `Clear`, `GetError`, `Build*`, `ToDB` | calls cannot return errors; objects are reused; terminals change them | no statement from a faulty builder; rules once; `Clear` forgets exactly what it should |
| Data rules (`applyDataRule`, `resolveDataRuleColumn`) | rules in a context | turn a rule into a condition, skip it or reject it | the order of the tests decides between "skip" and "reject" | a rule is skipped only when its value is empty; it is never lost |
| WHERE construction (`applyWhere`, `applyConditions`) | clause list of a GORM statement | put business conditions, keys, scopes, soft delete and rules together | AND binds tighter than OR; parts arrive late; GORM reorders | rules and soft delete hold whatever OR does |
| Repository (`repository.go`, `find_as.go`, `debug.go`) | none of its own | ~40 terminals | order of checks, rule application, column resolution, statements | by-condition writes are never unconditional; ruled reads carry the rules |
| Optimistic lock (`UpdateByIdTx`, `utils.go`) | version column, version in the entity | compare, increment, write back | concurrent clients, transactions, rollback | no committed update is lost |
| Chunk (`ChunkTx`) | cursor, counters, a slice shared with GORM | batches with a callback | the callback changes the slice; the table changes; GORM shrinks sizes | ordered, complete, limited |
| Model registry (`schema.go`) | two `sync.Map`s and `modelInitMu` | `RegisterModel`, `getModelInstance` | double-checked locking, two writers, publication order | one canonical instance, fully registered when it is handed out |
| Alias chain (`alias.go`, `subquery.go`, `join_on.go`) | a table of aliases per query, link to the outer query | `NewQueryAs`, `As`, `SubQuery`, `SubQueryAs`, look-up by address, typed JOINs, `Clear` | gplus resolves by address, SQL by name; entries outlive `Clear`; groups share a core | a field means in the SQL the table it was taken from, or the call fails |
| FirstOrCreate / FirstOrUpdate | a transaction | find, then update or create, re-read | concurrent calls, a unique index, updates that move the row out of sight | an error leaves no trace; rules not escaped; every call answered |
| Paging (`Page`, `Limit`, `Offset`, `PageTx`, `PageAsTx`, `FindOneAsTx`) | limit and offset | compute, count, list | `int` arithmetic, two statements, an offset left on the query | the page asked for; pages without gap or repetition; a total that agrees |
| HAVING and JOIN conditions (`applyGroupHaving`, `renderJoinOn`) | lists with OR | render | HAVING reads OR differently from WHERE and ON | they narrow the result as the chain says |
| Expressions (`expr.go`), ORDER, quoting | text fragments | render | placeholders | text |
| Insert family, raw SQL | none | one GORM call each | delegated | delegated |

The components interact by calls and shared state only. A terminal of the
repository checks a builder, asks it to append the context's rules, and passes
its `Build*` closures to GORM as scopes; GORM runs them and later builds the
clauses, at which point the protected WHERE of `applyWhere` is formed. Every
builder obtains the canonical model instance from the registry; field pointers
are resolved through the process-wide column cache or the alias core, which
sub-builders and sub-queries share. GORM and the database are external and are
modelled from how the code uses them.

## 2. Modules

| Module | Models | Kind |
|---|---|---|
| `DataRules` | how one rule becomes a condition, is ignored or is rejected | pure operators |
| `QueryBuilder` | the life of one `Query` or `Updater`: every class of chain call, every terminal, `Clear` | state machine |
| `BuilderContract` | what a builder promises, without buckets, flags and check order | abstract specification |
| `QueryBuilderProofs` | inductive invariant, refinement and theorems | proofs |
| `WhereClause` | which rows a statement touches | state machine over a table with soft delete |
| `WhereClauseProofs` | lemmas on condition lists and HAVING chains, inductive invariant and theorems | proofs |
| `AliasChain` | aliases, sub-queries, resolution of field pointers, and SQL's scoping of the names | state machine |
| `AliasChainProofs` | lemmas on chains of queries, inductive invariant and theorems | proofs |
| `FirstOrContract` | what concurrent callers of FirstOrCreate and FirstOrUpdate can rely on | abstract specification |
| `FirstOr` | the transactions of several such calls, statement by statement, with other sessions | concurrent state machine with fairness |
| `FirstOrProofs` | inductive invariant, refinement and theorems | proofs |
| `Pager` | `Page`, `Limit`, `Offset` and the calls that read pages | state machine |
| `PagerProofs` | lemmas on the arithmetic of pages and on pieces of a sequence, two inductive invariants and theorems | proofs |
| `OptimisticLock` | `UpdateById`, loads, deletes and transactions of several clients | concurrent state machine |
| `OptimisticLockProofs` | inductive invariant and theorems | proofs |
| `KeyOrder` | the ascending order of a finite set of keys | operators |
| `OrderedScan` | what a scan in batches promises | abstract specification |
| `Chunk` | the callback of `ChunkTx` and GORM's `FindInBatches` | state machine |
| `ChunkProofs` | lemmas on ordered scans, inductive invariant, refinement and theorems | proofs |
| `ModelRegistry` | `RegisterModel` and `getModelInstance`, one step per access to a `sync.Map` | concurrent state machine with fairness |
| `ModelRegistryProofs` | inductive invariant and theorems | proofs |
| `MC*` | values of the constants for TLC | model checking |

### QueryBuilder

State: `biz` counts the conditions without `isDataRule`, `ruled[r]` those a rule
`r` has become, `errs` and `coreErrs` are the two error buckets as sets of kinds
of error, `aliases` is the alias table of the core, `sub` the worst of the
sub-queries attached by reference, `selects`, `distinct`, `lock`, `paging`
(limit or offset is positive) and `setMap` the fields that terminals read or change, `out` the result of the last
call with the statements sent. Chain calls that differ in text only are one
action with an argument (`"ok"`, `"argument"`, `"pointer"`): the error paths of
`resolveColumnNameAny` differ in which bucket they fill. `distinct` stands for
`Omit` as well, which `InsertSelect` treats alike. Each terminal is an action
with the checks in the order of its code; the common body "GetError,
DataRuleBuilder, GetError, Build*" is `Ruled`, and `Run` is the short circuit at
the head of every `Build*` closure. `IsEmpty` (`NoConditions`) counts rule
conditions, as the code does; `DeleteByCond` asks it before the rules are
appended and `UpdateByCond` after. A broken sub-query stays broken until the
outer builder is cleared. `FirstOrUpdate` has two builders and two actions: in
each the builder of the model is one of them, and an argument says what is
wrong with the other.

`BuilderContract` has compose, clear, refuse and send, and `Unused`: an operation
that succeeds without sending anything of a builder that was in order, which is
the updater of a `FirstOrUpdate` that finds no row.

### WhereClause

A condition is the set of rows it is true of and whether it joins with OR; a
nested group is one such condition. `Sat` gives a flat list SQL's reading. The
order of the parts follows the code: direct arguments of GORM methods (keys),
then the deferred scopes in their order, then soft delete, then the key of a
loaded model. `applyWhere` with rules groups the whole list and the rules
separately and skips the reordering GORM does for lists opening with OR. A
statement records what it touched in `last`; `Result` clears it, so the next
statement starts from the table only. For soft-delete models deletes mark rows and
restores unmark them.

HAVING is a list of the same conditions, but `havingExprs` merges an OR into the
item before it, and GORM joins the items with AND; `Required` says what a reader
of the chain expects. The model has one row per group. The conditions of a typed
JOIN (`applyJoins`) are a flat list in parentheses next to the equality of the
two columns. `kept` records what either is meant to keep.

### AliasChain

An instance is named by the query that registered it, the alias and the model;
`Registry` owns the canonical instances. `entries` is the map `core.aliases`,
`outer` the link `outerQueryRef`. `LooseName` is `resolveColumnName` (conditions,
projections, assignments, JOIN columns), `StrictName` is `resolveJoinField`
(`EqColumn`, `SelectAs`, typed ON). What a chain call records are references: an
instance, the name it was given and the way it was found. The SQL side is
`Reached`: the innermost query around the reference that has a FROM item of that
name, and the instances that item stands for. The properties compare the two. An
alias's name and the name of a table are one thing in SQL; a model stands for
the name of its table, and the names callers choose may be names of tables too.
Choosing another table with `Table` is left out. A query with an
error sends nothing, so it makes no further chain calls in the model except
failing ones and `Clear`.

### FirstOr

One client makes one call at a time: look-up, then update and re-read, or insert,
then commit. The look-up takes no lock, as in the code. A row carries the
searched value and a tenant; `ruled` and `updRuled` tell whether the contexts of
the query and of the updater have a rule on the tenant. Each statement is one
step and any of them may fail. The database is external: committed reads, rows
held from write to end of transaction, an optional unique index under which a
writer of a value waits for an uncommitted one. `seen` and `absent` are history:
the rows that matched since the call began, and whether none did at some moment. `FirstOrContract` says
in terms of them what an answer may be: the update or the insert happens at the
moment of the answer, to a row that matched during the call, or because none
did at some moment of it; an error changes nothing; under a unique index a
created row is the only one of its value. That is less than an atomic "find or
create", which the code does not give: see `first_or_both_create`.

### Pager

Ints have four bits, so that 3 * 6 wraps to 2, an offset inside the table.
The query is ordered by a unique column and may be DISTINCT on a column whose
values repeat. `snapshot` says whether the caller's transaction reads from one
snapshot. `shown` is the history of a client that turns the pages from the first
one on and reads each once; `moved` says that a change reached the part already
shown, after which no paging by offset can be exact.

### OptimisticLock

Each client holds at most one entity and may have a transaction open. Content is
abstracted to the sequence of edits it contains, so that a lost update is a
committed edit missing from a later committed content. The database is external:
a written or locked row is held to the end of the transaction, others wait. An
`UpdateById` of one client waits while another holds one of its target rows; the
comparison is made with the committed row after the wait. Keys are not reused
after a delete (a new row under an old key would restart its version).

### Chunk

`batch` is the slice GORM and gplus share, as the keys of its rows; GORM reads
its last element as cursor. `SavesCursor` is gplus's prediction that GORM will
continue. `Callback` contains the user's function, which may reverse the batch
or overwrite its last key, and the replacement of the slice after it. Keys
include 0, the zero value for which GORM stops with `ErrPrimaryKeyRequired`. A batch
may fail in the database (`FindFails`), in the callback, or when the
cursor record is written (`CursorFails`). The checks of `ChunkTx` before the loop are the
action `ChunkTx` of `QueryBuilder`.

### ModelRegistry

Instances are named after the goroutine that allocated them; an address is an
instance and a field. Registration by a caller comes before queries
(schema.go:126-128); several registrations may run at once. `Embedded` fields
exist only in instances whose embedded pointers are set.

## 3. Runs

Passing runs:

| Run | Bounds | Shows |
|---|---|---|
| `builder` | one rule of each outcome, one alias name, one condition, one projection item, one non-default lock strength | `TypeOK` (no rule twice), `RulesOnce`, `FailClosed`, `RuleScoped`, `GuardedWrites`; refinement of `BuilderContract` |
| `where` | two rows, two conditions plus one scope condition, three HAVING conditions, no or one rule | `RulesHold`, `RulesOnlyRestrict`, `DeletedStayHidden`, `KeysBound`, `FiltersNarrow` |
| `alias` | three queries nested or in sequence, two models, one alias name besides the tables', two registrations, one reference, one JOIN, one `Clear` | `NeverCaptured`, `NamesNeverReused` |
| `first_or` | two clients, two keys, two values, four kinds of calls, with and without index | refinement of `FirstOrContract`, `StaysInTenant`, every call answered |
| `page` | three keys, two values, ints up to 7, default size 2 | `PageAskedFor`, `PagesFollow`, `TotalAgrees`, `FirstIsFirst` |
| `chunk` | five keys, batch sizes 1..3, limits unset/1/3/4, offsets 0/1 | `LimitHeld`, `NothingLost`, `CursorReady`, refinement of `OrderedScan` |
| `registry` | two registrars, three queriers, three fields of which one embedded | `MutualExclusion`, `Canonical`, `Resolvable`, every call returns |
| `version` | two clients, two rows, two edits per row | `NoLostUpdate`, `VersionIdentifiesContent`, `DirectlyAgain` |

Why the bounds suffice. `builder`: the code distinguishes no and some
conditions only, so one is enough for each guard, and reuse and `Clear` may
follow each other in any number. `where`: conditions are decided row by row; two
rows allow a named and another row with all combinations of truth values, and
three conditions (two and a scope's) allow OR at the head, in the middle and
at the end. Several rules act as their intersection, one set of rows. `chunk`:
limit 4 is divided by batch sizes 1 and 2 and not by 3, limit 3 by 1 and 3 and not by 2, and limit 1
is below them. `alias`: a
capture needs the reference, the query that owns its instance and a query between or below them
that has the name, three queries; the properties speak of one reference
at a time, and one JOIN or one more registration is what puts a second FROM item
of the same name into a scope. Names are symmetric to each other except in their collisions, which
one shared name shows; that an alias is called like a table is left to the proof.
`first_or`: two calls are the least that can both
find nothing or wait for each other; two keys, because a search may find one row
while another is created; the calls are one creation, and updates that change
the searched value, leave the tenant, and enter it. `page`: three rows make a full page of
two and one of one, or three of one; a fourth page and sizes beyond the
table are empty; numbers include a negative one, 0, the largest int and a pair
whose product wraps. `registry`: one querier registers, one waits for the lock, one
takes the fast path. `version`: two clients are the least that can
conflict, two edits the least that can lose one; both rows matter for
transactions that hold one row and wait for the other. Clients that wait for each other's rows
need not be resolved by a deadlock detector here: either may roll back at any time.

Runs that end in a violation, each stating what a document, comment or test
says and the code does not do:

| Run | Statement | What the code does |
|---|---|---|
| `empty_query_deletes` | query.go:69-71, repository.go:618 | a query whose only conditions are rules appended by an earlier terminal is not empty for `DeleteByCond` |
| `update_by_keys_or` | repository.go:885, README.md:132, repository.go:720 | an OR in the updater leads `UpdateByIds` outside the ids and `FirstOrUpdate` outside the row found |
| `outer_field_rebound` | query.go:1415-1417, query_subquery_correlated_test.go:105 | in a sub-query `Eq(&u.ID, ...)` with a field of the outer canonical instance is given the name of the sub-query's own table: with `SubQuery` a column of that table, with `SubQueryAs` a name nothing in the FROM bears; `EqColumn` is not affected |
| `first_or_both_create` | repository.go:686, :723, README.md:1303 | the look-up takes no lock: a row another session or another call commits after it does not keep `FirstOrCreate` from creating a second one, unless a unique index does |

Five more disagreements are recorded in the models and have no run of their own.
`UpdateById` leaves the key to `Model(entity)` (repository.go:513), which adds no
condition for a zero key: such an entity updates every row of its version or, without a
version field, every row the rules permit, where repository.go:478 says "by id" and
repository.go:488 `WHERE id=? AND version=oldVer` (`Targets` in `OptimisticLock`; with an
entity without key TLC finds `NoLostUpdate` violated). `SubQuery` names its
main table without looking at the outer aliases (subquery.go:44), which README.md:1442 and
subquery.go:72 forbid: after `NewQueryAs[User](ctx, "orders")` a field of that alias used
in `SubQuery[Order](q)` is a column of the sub-query (`SubQuery` in `AliasChain`; the reason
for `Mixed` below).
`InsertSelectMap` has appended its projections to the caller's query when a
check of `InsertSelect` fails (repository.go:1300 says it has no effect then;
`InsertSelectMapTx` in `QueryBuilder`). With rules a list opening with OR is
read in its own order, without rules GORM reorders it (builder.go:23;
`applyWhere`, and the reason for `leadingOr` in two properties). An instance
given to `RegisterModel` keeps nil embedded pointers (README.md:235;
`allocated` in `ModelRegistry`).

`NeverCaptured` and `NamesNeverReused` do not hold of every name. Left out, and
shown by TLC when the exclusion is dropped, are

- a name an outer query takes after a sub-query below it has taken the same
  (`clashes`; `As` looks outwards only);
- an alias called like the table of another model that is in the same chain
  (`Mixed`): neither `As` nor `SubQuery` compares aliases with tables. An alias
  called like its own model's table, or like a table that the chain does not use,
  is covered by the proof, in which callers may choose any names; the run has one
  name that is no table's;
- a canonical field of another model given to `Eq`, `Select`, `Order` or a JOIN,
  which the global cache resolves (`outer_field_rebound`); such a field of the
  query's own model is covered;
- tables of one model nested without main aliases, for which the repository's
  README.md:1433 asks for `NewQueryAs` and `SubQueryAs`: there the field may mean the inner
  item of the same model, though never a table of another;
- what lies below a query that was cleared (`stale`): `Clear` cuts the link to what is
  further out, so a query in the middle of a chain may take an outer name itself
  afterwards. The names of the cleared query's own instances are not given again
  (`NamesNeverReused`).

No property says that a `Chunk` without limit ends: it goes on while other
sessions, or the callback, insert full batches ahead of its cursor, and nothing in the code or its
documents bounds that.

The run `version` assumes what README.md:237 requires of callers, that an
entity is dropped after a rollback, and entities with a key. Without the first, a retry with the
stale entity succeeds whenever another client has brought the row to the version left in
it, and overwrites that client's update.

## 4. Fairness

`FirstOr`: strong fairness of each client's next statement. A transaction runs in
the caller's goroutine and goes on as soon as the database answers; a writer
that waits for a row or a value is served in turn by the database's lock queue,
so one that can go on again and again does. `Fails`, new calls and the other
sessions owe nothing. That calls do not wait for each other is then a property of the
code: a call of either method writes with one statement, so it never waits while it
holds something another waits for.
`ModelRegistry`: weak fairness of each goroutine that is inside a call, strong
fairness of taking the mutex, because a Go mutex in starvation mode is handed to
each waiter in turn; nobody has to make another call (`Again` has no fairness).
The other specifications have no fairness and no liveness property. `Chunk`
stops for good (`CHECK_DEADLOCK FALSE`), and whether it does is up to its
environment (section 3); the rest have neither a loop nor a wait.

## 5. Proofs

Every invariant, action property and refinement of the passing runs is a theorem
about all values of the constants. Only liveness is model-checked alone:
`Returns` and `Answered` need fairness and ENABLED, which the
prover cannot treat, so the refinements are proved of initial states and steps
(the abstract specifications state no fairness). The runs that end in
a violation show single behaviours and have nothing to prove. Each module has
its inductive invariant `IInv` (`Guarded` and `Turned` extend it in two of them);
those of `Pager`, `OptimisticLock`, `FirstOr`, `Chunk` and `AliasChain` were checked by
TLC on the instances of the runs before they were proved.

**QueryBuilderProofs.** `IInv` is the conjunction of `TypeOK`, `RulesOnce`,
`FailClosed` and `RuleScoped`. `RuleScoped` alone is not inductive: a terminal
sends each effective rule once only if the flag `dataRuleApplied` told the truth
before it, which is `RulesOnce`; and `RulesOnce` allows a raised flag with a
rejected rule only together with an error in `errs`, which stops the statement.
The steps fall into three classes with a lemma each: calls that send nothing
(`SilentStep`), terminals that apply the rules (`RuledStep`) and statements sent
without (`UnruledStep`). For `GuardedWrites` and the refinement of
`BuilderContract` the steps are classified by what their caller sees (`Visible`):
a step composes, clears, refuses, passes without using the builder, or sends what the contract makes of the
conditions and rules. The invariant `Guarded` adds that the count of conditions
keeps its bound. Assumptions: `RulesAssumption`, `BoundsAssumption`.

**WhereClauseProofs.** The properties speak of one
statement, so the argument is about lists of conditions. A list without OR
selects the rows all its parts are true of (`SatAll`); GORM does not reorder a
list that does not open with OR (`NotReordered`), so there `applyWhere` selects
the list's rows that the rules let through (`Applied`); the soft-delete filter
turns every list into one without OR that selects its live rows
(`FilterSound`); and the key of `FirstOrUpdate`, appended last, bounds
everything in such a list (`FirstOrUpdateGood`). That no rule is escaped needs
none of this: it holds of every list (`RulesRestrict`). For `FiltersNarrow` the
HAVING chain is followed item by item: of the items merged from a prefix the
last is the requirement still open to further ORs and the others are the
requirements before it (`Merged`, `LastOpen`; the induction over the prefix is by
a least counterexample). `havingExprs` is a recursive function for that reason;
`MergingExists` shows that its equation has a solution. `IInv` says these things
of the last statement and adds what the state contributes, that a model without
soft delete has no deleted rows. Assumptions: `RowsAssumption` (keys are
numbers, so that the first of them exists) and `MaxCondsAssumption`.

**ModelRegistryProofs.** `[]TypeOK`, `[]MutualExclusion`, `[]Canonical` and
`[]Resolvable`; no one of them is
inductive alone. One instance is returned to all because a querier that stores
columns has the cache to itself (`Unpublished`): it looked again under
the mutex, and registrations are over when queries begin (`Ordered`). A returned
instance is complete because what is no longer pending has been stored
(`Stored`) and only a registrar publishes its instance before its columns
(`Complete`). Assumptions: `ProcessesAssumption` and `FieldsAssumption`.

**PagerProofs.** `PageAskedFor` speaks of the answer; what makes
it true is a fact about the query between chain call and terminal: as long as a
page is asked for and there is no error, limit and offset are the size and the
exact product (`Positioned`). `Page` establishes it because a product the guard
lets through fits in an int and is not wrapped (`NoOverflow`, from the fact that
a factor at most `MaxInt \div size` times `size` is at most `MaxInt`); every other
chain call stops asking for a page; an empty COUNT returns no rows, which is
what a page of an empty result is (`NothingToShow`). The properties about several
calls and other sessions rest on a second invariant, `Turned`: between COUNT and list the
total is that of a table the session has seen, which is still the present one under a
snapshot unless an item has moved (`Reading`), and what was shown is the beginning of the result
(`Shown`), so that the next page continues it without gap or repetition.
Assumptions: `IntAssumption` and `RowsAssumption` (finitely many keys).

**OptimisticLockProofs.** What connects entities with rows is their age. The
content of a sound entity was committed once, so its version is at most the
committed one, and if it is as high the contents agree (`NotAhead`); an
uncommitted row is newer than the committed one (`Growing`); a client that holds
the row of its entity has its latest content (`UpToDate`); an entity that is
ahead comes from the client's own uncommitted write (`Traced`). Without the lock
on written rows (`Locks`) none of this would survive another client's commit.
`NoLostUpdate` has the hypothesis `Keyed`, that entities have a key: without
one `UpdateById` writes every row of its version and the property is false. The other theorems do without it. Assumptions:
`IdsAssumption`, `MaxVersionAssumption`, `NullsAssumption`.

**FirstOrProofs.** A call is one moment of `FirstOrContract`, its commit or the
read that ends it, so what it saw at earlier statements must still be true then. `Own`
collects it for each client: the row of an uncommitted update is as it was read
(`Pending`) and visible to the re-read (`Reread`), a new row is unknown to
others (`NewRow`), what the search found or missed was so during the
call (`Searched`), and a value written under the unique index is reserved
(`Reserved`). `Apart` says that two transactions do not meet in a row or a
reserved value, which is what lets one client's commit pass by the others' `Own`.
Assumptions: `IdsAssumption`, `NullsAssumption`, `CallsAssumption`.

**ChunkProofs.** GORM counts batches and rows and gplus counts for itself;
`Counted` says how the counters go together: while GORM has not shrunk its size every
batch was full, and once it has, the rest fits the limit. `Position` ties the
cursor of the next query to the last row handed over, `Cursor` says what is in
the slice the callback shares with GORM, `Skipped` bounds the rows jumped over by the
offset, and `Complete` says that a short batch reached the end of the table, on
which `NothingLost` rests. Rows are put in order by their rank (`InOrder` in
`KeyOrder`), of which the lemmas show that it lists a finite set in ascending
order; the library's sort is opaque to the prover. Assumptions: `KeysAssumption`,
`ArgumentsAssumption`.

**AliasChainProofs.** The chain of a query is defined by recursion over its
outer queries. Its lemmas speak of any function that satisfies the equation of
`Chain`, so that they hold before and after a step, and one shows that there is
such a function because outer queries were made earlier (`Order`). Of two
queries in one chain one is outside the other (`ChainLinear`), so a nearest
owner exists. `NeverCaptured` then follows from where names can meet: of two
queries of a chain that have both registered a name, the inner one uses it as the name of its
own model's table, or there was an error or a
clash left to the caller (`Unique`); of a name that is a table's, all that goes by it in the
chain is of one model unless the name is `Mixed`; and recorded references and joined
instances stay known to the query that named them (`Recorded`, `JoinedKnown`). Nothing is
assumed of the names callers choose except that they are not the model values
for "no name", "no prefix" and "not resolved": aliases may be called like tables.
Assumptions: `NamesAssumption`, `NullsAssumption`, `BoundsAssumption`.

## 6. Not modelled

- Values of columns and the text of SQL: quoting, dialects, placeholders, string
  JOINs and their extra SQL, ORDER BY expressions, the tree of `expr.go`.
- Several rows in a group, and the COUNT of a grouped query.
- `Save`, `Upsert`, `CreateBatch`, `InsertOnConflict`, raw SQL: one GORM call, no state of gplus.
- Computing column names from struct tags, the naming strategy, the caches that memoise it.
- The width of the version field (documented as a limit of its type).
- FirstOrUpdate of a model without primary key, whose re-read repeats the search;
  the JOINs its re-read takes over for rules on a joined table.
- Database isolation other than row locks with committed reads, and, for pages, one snapshot.

## 7. Plan

Order of work: the builder and its rules, the meaning of WHERE, the concurrent
parts (optimistic lock, registry, Chunk), then aliases and sub-queries, the
concurrent find-or-create, pages, HAVING and JOIN conditions, and the proofs of
all safety properties; these exist. Left:

1. The conflict clause of `OnConflict.buildClause` and its error cases.
2. `RequireTx`, `WithTx`, `dbResolver`: which connection a statement uses.
3. Properties for the hazards of `PROJECT.json` that have none, where a document comes to
   say what should hold; the reason for each is noted there.
