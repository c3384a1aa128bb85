# TLA+ models of the tinysql planner core

This directory holds TLA+ models of the logical-plan builder in
`src/planner/core/planbuilder.go` and of the memo `Group` of
`planner/memo`. It also holds the TLC configurations that check them. The
memo Group's own source is not in this repository; only its test,
`src/planner/memo/group_test.go`, is. `PROJECT.json` lists every component,
run, mutant, finding and hazard, and maps every modelled definition to the
source lines it translates.

## The system

A statement is compiled on one thread by one `PlanBuilder` (spec §5). The
builder dispatches on the statement kind (`Build`) and builds a logical plan
bottom-up. Along the way it:

* **resolves index hints** for each table it scans. `getPossibleAccessPaths`
  starts from the table's public paths: the row-store table path (TiDB for a
  cluster memory table), a TiFlash table path when a replica is available,
  and then every public index. It applies the syntax-level hints
  `USE/FORCE/IGNORE INDEX` and then the comment-style hints
  `/*+ USE_INDEX(t, ...) */` for the same table. A missing index in a
  syntax hint is an error; in a comment hint it is a warning. The ignore list
  is then removed, and a table scan is added when nothing is left. After
  that, `filterPathByIsolationRead` drops the paths whose store the session
  may not read, and fails when none is left.
* **plans INSERT / REPLACE** (`buildInsert`).
  * There is one branch each for `SET`, `VALUES` and `SELECT`. Each branch
    checks value counts and writes to generated columns, in a fixed order
    with fixed row numbers.
  * `resolveOnDuplicate` then checks the `ON DUPLICATE KEY UPDATE` list and
    collects the columns it changes.
  * `resolveGeneratedColumns` compiles every generated column and picks the
    ones to re-evaluate on duplicate update.
* **plans ANALYZE TABLE** (`buildAnalyze`). It checks the WITH options
  against their limits and merges them over the defaults
  (`handleAnalyzeOptions`). It then turns the tables, partitions and indexes
  into analyze tasks, one per index or column set per physical table
  (`buildAnalyzeTable`, `buildAnalyzeIndex`, `buildAnalyzeAllIndex`).
* **plans SPLIT TABLE / SPLIT INDEX** (`buildSplitRegion`). It checks each
  BY row, or the BETWEEN bounds and region count, and converts every value to
  its column's type.
* **plans the session and utility statements.** `buildSet`, `buildShow`
  (wrapped in a projection when it has LIKE or WHERE), `buildExplain` of a
  SHOW, `buildSimple` (USE, GRANT, KILL, ...), `buildPrepare`,
  `buildExecute`, `buildDo`, `buildLoadStats`, and `buildDDL` for ALTER
  DATABASE and CREATE VIEW. Several of them write into the AST they are
  given: SET turns a bare column name into a string, SHOW points its LIKE
  pattern at the first result column, ALTER DATABASE stores the current
  database, and CREATE VIEW stores its column list and definer. A prepared
  statement keeps its AST, and every EXECUTE plans that AST again, with a
  new `PlanBuilder` but the same session. SHOW and DO take column ids from
  the session's `AllocPlanColumnID` counter.
* **tracks handle columns** for DELETE, UPDATE and `SELECT ... FOR UPDATE`.
  `handleColHelper` is a stack of maps from table id to handle columns, and
  each node builder pushes, pops and merges maps in a fixed protocol. That
  protocol is written as a comment on `PlanBuilder.handleHelper`.
  `buildSelectLock` reads the top map. A second stack, `selectOffset`, holds
  the offset of each query block being built; the hint lookups of
  `buildDataSource`, outside this repository, read its top.
* **splits a WHERE** into its AND conditions (`splitWhere`), looking through
  parentheses.
* **plans ADMIN and EXPLAIN FOR CONNECTION.** `buildAdmin` gives each ADMIN
  kind its fixed schema. Only SHOW DDL JOBS takes column ids from the
  session counter, because its WHERE is resolved against its columns.
  `buildExplainFor` asks the session manager for the other connection's
  last plan.

The optimizer converts the finished plan into the memo. Each memo `Group` is
an equivalence class of `GroupExpr`s. It has an ordered member list, a
fingerprint index for deduplicated insertion, a per-operand-kind "first
member" index, and a cache of implementations per physical property.

## Modules

| Module | Models | State | Actions |
|---|---|---|---|
| `AccessPaths` | `getPossibleAccessPaths`, `getPathByIndexName`, `removeIgnoredPaths`, `filterPathByIsolationRead` | `stmt` (table, hints, engines), `candidates`, `result` | `Compile`: one call of both functions, as `buildDataSource` runs them |
| `InsertPlan` | `buildInsert` and everything it calls that decides an outcome | `stmt` (table, column list, SET list, VALUES rows, SELECT width, ON DUPLICATE list), `result` | `Compile`: one `buildInsert` |
| `HandleCols` | `handleColHelper`, `buildSelectLock`, `pushSelectOffset` / `popSelectOffset`, and the push/pop protocol of the node builders | `id2HandleMapStack`, `stackTail`, `nextCol`, `lockMap`, `selectOffset`, `nextOffset`, plus ghosts `frags` and `subqueryBase` | `DataSource`, `TableDual`, `Aggregation`, `Union`, `Join`, `BeginSubquery`, `EndSubquery`, `SelectLock` |
| `HintTables` | `tableNames2HintTableInfo`, `matchTableName` via the `ifPrefer*` helpers, `extractUnmatchedTables` | `hintTables` (per hint kind), `queried` (ghost), `answer`, `queries`, `unmatched` | `Prefer(kind, tables)`: one `ifPrefer*` call; `EndBlock`: the unmatched report |
| `Analyze` | `buildAnalyze`, `handleAnalyzeOptions`, `getColsInfo`, `getPhysicalIDsAndPartitionNames`, the three ANALYZE builders | `stmt` (tables, partitions, index names, options, fast-analyze flags), `result` | `Compile`: one `buildAnalyze` |
| `SplitRegion` | `buildSplitRegion` and everything it calls | `stmt` (index name, BY rows, bounds, region count), `result` | `Compile`: one `buildSplitRegion` |
| `WhereSplit` | `splitWhere`, as a RECURSIVE operator, and a non-recursive reference for it | `where`, `conds`, `called` | `Split`: one call |
| `SelectBlock` | the two helpers of a query block's build, `HandleCols` and `WhereSplit`, side by side | `part` and both modules' variables | `HandleCols`'s actions, or `Split` |
| `UtilityStmts` | `Build`'s cases for ANALYZE, SPLIT REGION and INSERT, composing `Analyze`, `SplitRegion` and `InsertPlan` by `INSTANCE ... WITH stmt <- stmt.ast` | `stmt` (statement type and AST), `result` | `Next`: the case of `stmt`'s type, which is that module's `Compile` |
| `Builders` | the session and utility builders (ADMIN and EXPLAIN FOR included), as pure operators, and `Build`'s type switch over them (`BuildSwitch`) | none | none |
| `Session` | one statement planned again and again by `Build` | `orig`, `ast` (as the builds left it), `env` (current database, view-ness of a table, a user variable, width or failure of a CREATE VIEW's SELECT), `plan`, `nextID` (session counter), `optFlag`, `builds`, `envChanges`, ghost `issued` | `BuildStmt`: one `Build` by a new `PlanBuilder`; `ChangeEnv`: another statement or session changes one thing a build reads |
| `PlanSpec` | what repeated planning promises: each build answers as a build of the statement as parsed | `orig`, `env`, `plan`, `nextID`, `optFlag`, `builds`, `envChanges` | `FreshBuild`, `ChangeEnv` |
| `MemoGroup` | `Group` (spec §4.2, `group_test.go`) | `equivalents`, `firstExpr`, `fingerprints`, `implMap`, `answer` | `Insert`, `Delete`, `DeleteAll`, `Exists`, `GetFirstElem`, `InsertImpl`, `GetImpl` |
| `GroupSpec` | what a Group promises, with no index | `members`, `impls`, `answer` | the same operations, answered by searching the member list |

Each `MC_*` module instantiates one of these for TLC. In `AccessPaths` and
`InsertPlan` a behaviour is the compile of one statement chosen in `Init`
from a bounded set, so TLC checks every statement in that set.

### AccessPaths

Data is abstracted as follows:

* a path is a record of whether it is a table path, its store, its index
  name and whether it is forced;
* a hint is its kind, whether its scope is FOR SCAN, and its index names;
* the available, ignored and forced lists hold positions in the public
  paths, because the code appends pointers to those paths and sets
  `Forced` on them.

The hint loop and each hint's name loop are `FoldLeft`s over the hints and
names, and follow the code's `continue` and `return` in order.
`getTablePath` (util) and the composition in `buildDataSource` are outside
this repository and are modelled from the spec.

### InsertPlan

Data is abstracted as follows:

* a column is its name, whether it is generated, and the columns its
  generation expression reads;
* a value is a plain value, `DEFAULT` or `DEFAULT(col)`;
* a `SELECT` is its output width.

The outcome is the error with the row it names, or the plan's
`Schema4OnDuplicate` shape, the ON DUPLICATE columns and the recomputed
generated columns. Expression rewriting, type conversion and unknown-column
errors are not modelled, because the properties do not tell them apart.

### HandleCols

The helper's two fields are the code's. The node builders
(`buildDataSource`, `buildJoin`, `buildAggregation`, `buildUnion`,
subqueries) are in `logical_plan_builder.go`, which is not in this
repository. Their use of the stack is taken from the protocol comment at
planbuilder.go lines 226–233. `buildJoin` pops the right child's map first
and then the left's, and calls `mergeAndPush(right, left)`.

The ghost `frags` records, for each map on the stack, the DataSources of the
plan fragment that map belongs to. After an aggregation or a union that list
is empty. The ghost `subqueryBase` records the depth at which each open
subquery began, so that an operator of a subquery never consumes an outer
block's map.

`BeginSubquery` also pushes the new block's offset with `pushSelectOffset`
and `EndSubquery` pops it with `popSelectOffset`, as the comment on
`PlanBuilder.selectOffset` describes. Offsets are numbered from 1 in the
order blocks begin. The readers of the top offset are outside this
repository, so no property is stated over it; the pushes and pops are kept
so that every action is the whole of what the code does.

### HintTables

A hint entry is its database, table, query-block offset and `matched` flag,
as in `hintTableInfo`. The initial hint lists are every list of up to two
tables, with or without a `QB_NAME`, per kind. `getHintOffset` belongs to
`BlockHintProcessor`, which is outside this repository; it is modelled as "the
QB_NAME's block, or else the block that holds the hint". A query passes up to
two tables, each a (database, table, offset) triple or nil, and queries of
different kinds interleave in any order. The ghost `queried` records what each
kind has been asked. `restore2JoinHint` only formats warning text and is left
out.

### Analyze

A table is abstracted as follows:

* whether it is a view;
* whether its primary key is the handle;
* the kinds of its other columns (plain, stored generated, virtual
  generated);
* its indexes, each a name and whether it is public;
* its partitions.

A physical table is a table and a partition name, or `""` when the table is
not partitioned. A task is the physical table and the index, or the physical
table and the columns it analyzes. The option limits and defaults are
constants, scaled down from the code's (1024 buckets, about 1.26M for the
sketch). The checks stay the same: zero is rejected, the limit itself is
accepted, and width times depth is bounded on the merged options.

### SplitRegion

A value is abstracted to the outcome of `convertValue` on it:

* a literal that converts;
* a column reference, which is rewritten against the table's schema to a
  non-constant ("Expect constant values");
* a literal the column type truncates;
* a literal the conversion rejects otherwise.

The plan records the rows, bounds and count it carries.

### WhereSplit

An expression node is abstracted to its kind: a missing WHERE, a logical
AND, any other binary operation, a parenthesis, or a leaf with an identity.
`splitWhere` is the code's type switch, written as a `CASE`. The reference
`Conditions` does not recurse. It takes the paths through the
AND/parenthesis skeleton (`FoldLeft` over steps) that end at a leaf or
another binary operation, and orders them left to right with
`SetToSortSeq`.

### SelectBlock

`SelectBlock` checks `HandleCols` and `WhereSplit` in one run. `Init` picks
one of the two parts, and `Next` then takes only that part's steps, leaving
the other part's variables unchanged. The two parts share no variable and no
code path writes both, so each part's behaviours are exactly its own
module's, and each property is checked over them.

### UtilityStmts

The composite picks a statement of one of three types in `Init`. Its `Next`
applies the case of `Build` for that type, which is the `Compile` action of
`Analyze`, `SplitRegion` or `InsertPlan`. Each component's properties are
checked for the statements of its type. The three violation runs use the
same module, with the other components' statement sets empty.

### Builders, Session and PlanSpec

An expression is abstracted to the outcome of rewriting it: a constant, a
bare column name (which `buildSet` turns into a string), a table-qualified
column (unknown against SET's empty dual), or one the rewriter rejects. A
SHOW is its kind, database name, FULL flag, LIKE pattern (none, as parsed,
or pointed at the first column) and WHERE (none, resolvable, failing). Its
result columns are counted from `buildShowSchema` and the schema functions
it calls, for every kind except SHOW COLUMNS; their names and types are left
out. A kind with no columns fails with an out-of-range error when it has a
LIKE pattern, as the code indexes `OutputNames()[0]`. An ADMIN statement is
its type and WHERE. The other connection of EXPLAIN FOR is absent, idle or
has a plan, and that can change between builds.
A plan is its kind, error code, column ids, projection ids and contents.

`Session` refines `PlanSpec` through `INSTANCE PlanSpec`. The detailed
`ast` is hidden: the abstract state has only the statement as parsed. The
refinement therefore says that the in-place AST writes of the builders never
change an answer.

### MemoGroup and GroupSpec

`MemoGroup` keeps the code's incremental indexes. `GroupSpec` answers
`Exists` and `GetFirstElem` by searching the member list directly.
`MemoGroup` is shown to implement `GroupSpec` through
`INSTANCE GroupSpec WITH members <- equivalents, impls <- implMap`, with
`AbstractSpec` checked as a PROPERTY. A GroupExpr is a pair of operand kind
and child Group, and its fingerprint is that pair.

## Runs

| Run | Checks | Result |
|---|---|---|
| `memo_group` | `FirstExprIsEarliestSurvivor`, `FingerprintsMatchMembers`, `AbstractSpec` | pass: 140,549 distinct states |
| `access_paths` | `HintErrorsAsSpecified`, `PathsAsSpecified`, `RowStoreAlwaysUsable` | pass: 534,114 distinct states |
| `access_paths_tiflash` | `RowStoreAlwaysUsable` | violation: finding 1 |
| `access_paths_scopes` | `HintErrorsAsSpecified` | violation: finding 2 |
| `insert_plan_chain` | `OnDupRecomputesDependents` (on `MC_UtilityStmts`) | violation: finding 3 |
| `hint_tables` | `TypeOK`, `MatchedOnlyWhenQueried`, `QueriedEntriesMatched`, `UnmatchedReportExact` | pass: 536,982 distinct states |
| `utility_stmts` | `TypeOK`, `AnalyzeOptionsAsSpecified`, `AnalyzePlanAsSpecified`, `DistinctTasks`, `SplitRowsCheckedInOrder`, `SplitPlanWellFormed`, `InsertErrorsAsSpecified`, `SelectRowShape` | pass: 369,636 distinct states |
| `analyze_view` | `AnalyzeViewRejected` | violation: finding 4 |
| `split_region_empty_row` | `SplitEmptyRowRejected` | violation: finding 5 |
| `session` | `ColumnIDsFresh`, `AbstractSpec` | pass: 449,784 distinct states |
| `session_view_columns` | `AbstractSpec` (CREATE VIEW without a column list) | violation: finding 6 |
| `select_block` | `TypeOK`, `StackMatchesPlan`, `SplitWhereAsConditions` | pass: 40,942 distinct states |

What the properties say:

* `FirstExprIsEarliestSurvivor`: after any interleaving of Insert, Delete
  and DeleteAll, the kind index names the earliest surviving member of each
  kind, or nothing.
* `FingerprintsMatchMembers`: the dedup index and the member list hold the
  same members, and no member appears twice.
* `HintErrorsAsSpecified`: the compile fails exactly when a syntax hint names
  a missing index. Otherwise there is one warning per unresolved
  comment-hint name.
* `PathsAsSpecified`: the candidate paths equal a loop-free, set-based
  statement of what the hints select.
* `RowStoreAlwaysUsable`: while the session may read the table's row store,
  a compile whose hints resolve never ends in "no access path".
* `InsertErrorsAsSpecified`: every INSERT form gets the error, and the row
  number, stated per row against the declared width. This rules out the
  out-of-range index at `col := affectedValuesCols[j]`.
* `SelectRowShape`: `INSERT ... SELECT` places each selected column at its
  target column's offset.
* `OnDupRecomputesDependents`: exactly the generated columns that depend on
  an updated column, directly or through other generated columns, are
  re-evaluated, each once.
* `MatchedOnlyWhenQueried`: an entry is marked matched only after a query of
  its own kind has passed its database, table and block.
* `QueriedEntriesMatched`: every entry that a query of its kind asked about
  is matched, whichever position it had in the query's list, unless an
  earlier entry names the same table.
* `UnmatchedReportExact`: the report at the end of the block names exactly
  the entries that no query used, in hint order. A duplicate entry is always
  reported.
* `AnalyzeOptionsAsSpecified`: options fail exactly when a value is zero or
  over its limit, or else when the effective width times depth is over the
  sketch limit. Here the effective value of an option is the last one given,
  or its default. A plan carries the effective options.
* `AnalyzePlanAsSpecified`: once the options pass, a statement is planned
  exactly when nothing it names is unanalyzable. When planned, its tasks are,
  as sets, every addressed index and stored column set on every addressed
  partition.
* `DistinctTasks`: no task appears twice unless the statement repeats a
  table, a partition or an index name; a repeated name is planned once per
  listing.
* `SplitRowsCheckedInOrder`: the first defective BY row decides the error. A
  count error names that row, and a conversion error in an earlier row wins
  over a count error in a later one.
* `SplitPlanWellFormed`: every plan has rows and bounds of at least one
  value and no more than the index or handle accepts, converted values, and
  a region count in range.
* `SplitEmptyRowRejected` (violation run only): an empty BY row, whether of
  SPLIT TABLE or SPLIT INDEX, is rejected with "wrong value count on row N"
  naming it, as an empty BETWEEN bound is.
* `AbstractSpec` of `session`: every build of the rewritten AST gives the
  plan or error, the counter and the optimizer flags that a build of the
  statement as parsed gives in the same session and schema state. This holds
  across two changes of the session or schema state between builds.
* `ColumnIDsFresh`: the allocated column ids of a plan (those other than
  0) are pairwise distinct, and none of them was handed out for an earlier
  plan of the session. A plan that filters or projects has only allocated
  ids. A SHOW's projection clones its child's columns and must renumber
  them, a failed SHOW, DO or ADMIN SHOW DDL JOBS still uses up counter
  values, and the other ADMIN kinds leave their columns at 0.
* `StackMatchesPlan`:
  * there is one map per unconsumed fragment;
  * `stackTail` is in step with the slice;
  * each map holds every handle column of its fragment's tables, each once,
    self-joins included.
* `SplitWhereAsConditions`: `splitWhere` returns exactly the conditions
  below the AND/parenthesis skeleton, left to right. An AND inside
  parentheses is split; an AND under OR stays in one condition.

Every property of a passing run has a mutant in `PROJECT.json`: a plausible
bug in a mapped definition that TLC finds.

## Findings

1. **TiFlash and PRIMARY** (`access_paths_tiflash`). `getPathByIndexName`
   returns the *last* table path it saw for `PRIMARY`, which is the TiFlash
   path when a replica exists. `USE INDEX(PRIMARY)` on such a table, in a
   session that may read only TiKV, then fails with "Can not find access
   path". Spec §4.1 asks for a fall-back instead.
2. **Non-scan hints are never resolved** (`access_paths_scopes`). A hint
   scoped `FOR JOIN` or `FOR ORDER BY` is skipped before its names are
   looked up, so a missing index in it is not an error, contrary to §4.1/§6.
3. **Chained generated columns on duplicate update** (`insert_plan_chain`).
   Take `a`, `b AS f(a)`, `c AS g(b)` with `ON DUPLICATE KEY UPDATE a = ...`.
   `resolveGeneratedColumns` recomputes `b` and not `c`, so the stored `c`
   goes stale.

4. **ANALYZE of a view through INDEX** (`analyze_view`).
   `buildAnalyzeTable` rejects a view ("analyze ... is not supported now"),
   but `buildAnalyzeAllIndex` has no such check. `ANALYZE TABLE v INDEX`
   returns an empty plan and no error.
5. **SPLIT ... BY ()** (`split_region_empty_row`).
   `buildSplitTableRegion` rejects rows with more than one value, then reads
   `valuesItem[0]`, which indexes past the end of an empty row.
   `buildSplitIndexRegion` rejects only rows with too many values, so an
   empty row is planned as an empty split key, although an empty BETWEEN
   bound is rejected by `checkLowerUpperValue`. Spec §6 says builder errors
   are returned, and that a row of the wrong size is "wrong value count on
   row N". The pass run leaves out statements with an empty BY row.
6. **CREATE VIEW planned twice** (`session_view_columns`). Without a column
   list, `buildDDL` writes the SELECT's output names into `v.Cols` of the
   AST. When the SELECT's width changes and the same AST is built again (a
   prepared statement executed again), the build compares against the
   stale list and fails with `ErrViewWrongList`, while a build of the
   statement as parsed succeeds. Whether the server prepares DDL is decided
   outside this repository; the builder itself does not guard against it.

## Bounds and why they suffice

* **AccessPaths.**
  * A table has up to two public indices, with or without a PK handle, and
    may be a cluster memory table. The `_tiflash` run adds a TiFlash
    replica.
  * A statement has up to two syntax hints of every kind and scope, each
    naming zero or one index. It has at most one comment hint (USE or
    IGNORE) naming up to two. Names range over both indices and `primary`,
    so every hint can miss.
  * The engines are any non-empty set of stores.
  * These bounds cover use+ignore of the same index (the fallback), ignore
    of a missing name, an empty `USE INDEX ()`, and a syntax error after a
    comment warning.
* **InsertPlan.**
  * Tables have two or three columns. A generated column reads a non-empty
    set of earlier columns, and one view is included.
  * VALUES has up to three values in one or two rows. SET and ON DUPLICATE
    have one or two distinct columns. SELECT has width 0..3.
  * Three columns are the fewest that make a chain of generated columns
    (`a`, `b(a)`, `c(b)`) and a generated column out of column-list order.
* **HandleCols** (in `select_block`).
  * There are two tables and three handle columns, enough for a self-join
    joined with another table.
  * `MaxDepth = 3` bounds the stack depth plus the open subqueries, and a
    UNION has two children. `MaxBlocks = 3` bounds the blocks begun, so
    two nested subqueries and a third after them are reached.
* **WhereSplit** (in `select_block`). Two leaves, and every expression of depth two. At depth
  three: each of those under a parenthesis, or as the left operand of an AND
  or another operator whose right operand has depth at most one. The full
  depth-three set is about 195,000 expressions and out of reach. The bound
  covers an AND in parentheses in an AND, an AND under OR, nested
  parentheses and the missing WHERE.
* **HintTables.**
  * There are two kinds, two tables, two databases and two blocks. Hint lists
    have up to two entries, and each query passes up to two tables or nil.
    There are up to two queries, followed by the report.
  * Together these cover a duplicate entry, a query whose second table
    matches, a same-named table of another database or block, and a table
    queried under the other kind.
* **Analyze.**
  * Every combination is enumerated for ANALYZE TABLE t and ANALYZE TABLE t
    INDEX: handle key, column kinds (none, virtual only, stored,
    plain + virtual), index lists (none, public, non-public, public + a
    `primary` index), and unpartitioned or two partitions. A view is
    included.
  * There are pairs of tables, including one table listed twice.
  * Partition lists include a missing name, a repeat and reversed order.
    Index lists include PRIMARY, a repeat and a missing name.
  * Option lists have up to two options with values 0..5 around a limit
    of 4, covering a zero, a value at the limit, an override, and a product
    over the limit.
* **SplitRegion.** A two-column index, SPLIT TABLE and a missing index. BY
  lists have one or two rows of 0..3 values. Bounds have 0..3 values. Counts
  are 0, 1, the limit and the limit plus one. Three values exceed the index
  width, and two rows show the order of the checks.
* **Session.**
  * SET has one or two variables. A SHOW is any of four kinds with every
    combination of database, FULL, LIKE and WHERE, and is also wrapped in an
    EXPLAIN. Warnings, index and CREATE USER (with and without a user) are
    SHOWs with fewer combinations. ADMIN comes in its five types, and SHOW
    DDL JOBS with no WHERE, a good one and a failing one. EXPLAIN FOR is
    included. EXECUTE and DO have up to two expressions. ALTER DATABASE
    comes with and without a name, and CREATE VIEW with a column list of
    width 1 or 2 and both definer forms. `session_view_columns` builds
    CREATE VIEW without a column list, under both definer forms.
  * Every `env` is a possible initial state.
  * Each statement is built three times, with up to two changes in between.
    That covers a change between every pair of builds, and a rewrite made by
    the first build and read by the third.
* **MemoGroup.**
  * There are three operand kinds over two child Groups, giving six distinct
    GroupExprs.
  * There are three physical properties: no order, `a` ascending, `a`
    descending.
  * The state space is finite: the member list holds each expression at most
    once.

Symmetry is used only over model values that no definition tells apart:
child Groups, implementations, table ids, and the hint kinds and table names
of `HintTables`.

## Fairness and liveness

None is assumed and none is checked. A compile is a terminating
single-threaded recursion (spec §5). The memo Group has no scheduler, and
every operation is a single call by the search driver. Only safety, and the
refinements to `GroupSpec` and `PlanSpec`, are meaningful. A session is bounded by
`MaxBuilds` and `MaxEnvChanges` and then stops, so `session` also sets
`CHECK_DEADLOCK FALSE`. The one-compile runs and `hint_tables` set
`CHECK_DEADLOCK FALSE` because a compile, or a block, ends; `select_block`
sets it too, because a WHERE split is one call. `memo_group` checks
deadlock.

## Not modelled

* `Build`'s SELECT, UNION, UPDATE, DELETE and non-SHOW EXPLAIN cases: they hand over to builders outside this repository or to the
  optimizer.
* The type conversion inside `convertValue` (`Datum.ConvertTo`): only its
  outcome kinds are modelled.
* The other DDL kinds.
* SHOW COLUMNS: its column names come from the table package, which is
  outside this repository.
* Result column names and types of SHOW and ADMIN, `buildExplainPlan`'s
  `prepareSchema`, and privilege bookkeeping.
* The effect of `buildSelection` on the optimizer flags, and
  `detectSelectAgg`: both need the expression package.
* The memo's `BuildKeyInfo` and `Explored` flag, and expression rewriting.
* The server, executor, expression and infoschema packages: only their tests
  are in this repository.
