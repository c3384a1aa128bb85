----------------------------- MODULE Analyze -----------------------------
(***************************************************************************)
(* Planning of ANALYZE TABLE (planner/core/planbuilder.go, buildAnalyze   *)
(* and the functions it calls).  The statement's WITH options are checked *)
(* and merged over the defaults (handleAnalyzeOptions); then one of three *)
(* builders turns the listed tables, partitions and indexes into analyze  *)
(* tasks, one per index (or column set) and physical table:              *)
(*   ANALYZE TABLE t1, t2 [PARTITION ...]       buildAnalyzeTable         *)
(*   ANALYZE TABLE t INDEX                      buildAnalyzeAllIndex      *)
(*   ANALYZE TABLE t INDEX i, ...               buildAnalyzeIndex         *)
(* A table is abstracted to whether it is a view, whether its primary key *)
(* is the handle, the kinds of its other columns, its indexes (name and   *)
(* whether public) and its partitions; a physical table is the table and  *)
(* a partition name ("" for an unpartitioned table).  The option limits   *)
(* are constants, scaled down from the code's.  A step of this module is  *)
(* the compile of one statement.                                          *)
(***************************************************************************)
EXTENDS Integers, Sequences, FiniteSets, SequencesExt

CONSTANTS
    TableIds,          \* table ids
    IndexNames,        \* index names; "primary" names a primary key
    PartNames,         \* partition names
    OptionLimit,       \* analyzeOptionLimit: option type -> largest value
    OptionDefault,     \* analyzeOptionDefault: option type -> default value
    CMSketchSizeLimit, \* cmSketchSizeLimit: bound on width * depth
    Stmts              \* the ANALYZE statements to compile (see StmtType)

OptTypes == {"buckets", "width", "depth", "samples"}
ColKinds == {"plain", "stored", "virtual"}   \* virtual/stored: generated columns

ASSUME /\ OptionLimit \in [OptTypes -> Nat] /\ OptionDefault \in [OptTypes -> Nat]
       /\ OptionLimit["width"] = CMSketchSizeLimit
       /\ OptionLimit["depth"] = CMSketchSizeLimit

Index == [name : IndexNames, public : BOOLEAN]
TableInfo == [id : TableIds, view : BOOLEAN, pkIsHandle : BOOLEAN,
              cols : SUBSET ColKinds, indices : Seq(Index),
              partitioned : BOOLEAN, parts : Seq(PartNames)]
Opt == [type : OptTypes, value : Nat]
StmtType == [tbls : Seq(TableInfo), partitionNames : Seq(PartNames),
             indexFlag : BOOLEAN, indexNames : Seq(IndexNames),
             opts : Seq(Opt), fastAnalyze : BOOLEAN, tikv : BOOLEAN]

Physical == [tbl : TableIds, part : PartNames \cup {""}]
IdxTask == [phys : Physical, index : IndexNames]
ColTask == [phys : Physical, pk : BOOLEAN, cols : SUBSET ColKinds]

NoOpts == [o \in OptTypes |-> 0]
Plan(opts, idx, col) == [status |-> "ok", opts |-> opts, idxTasks |-> idx, colTasks |-> col]
Err(status) == [Plan(NoOpts, <<>>, <<>>) EXCEPT !.status = status]
Pending == Err("pending")

VARIABLES
    stmt,     \* the statement being compiled
    result    \* Pending, or the outcome of buildAnalyze

vars == <<stmt, result>>

-----------------------------------------------------------------------------
(* Mutant: the columns are kept whether or not they are virtual. *)
getColsInfoKeepVirtual(t) ==
    [idx |-> SelectSeq(t.indices, LAMBDA i : i.public), cols |-> t.cols, pk |-> t.pkIsHandle]

(* getColsInfo: the public indexes; the handle column apart from the      *)
(* others; virtual generated columns are skipped (nothing is stored).     *)
getColsInfo(t) ==
    [idx |-> SelectSeq(t.indices, LAMBDA i : i.public),
     cols |-> t.cols \ {"virtual"}, pk |-> t.pkIsHandle]

(* getPhysicalIDsAndPartitionNames: the table itself, every partition, or *)
(* the named partitions in the order named; a name on an unpartitioned    *)
(* table, or a name no partition has, is an error.                        *)
getPhysicalIDsAndPartitionNames(t, names) ==
    LET phys(ps) == [i \in 1..Len(ps) |-> [tbl |-> t.id, part |-> ps[i]]]
    IN  IF ~t.partitioned
          THEN IF names # <<>> THEN [status |-> "PartitionMgmtOnNonpartitioned", phys |-> <<>>]
               ELSE [status |-> "ok", phys |-> phys(<<"">>)]
        ELSE IF names = <<>> THEN [status |-> "ok", phys |-> phys(t.parts)]
        ELSE IF \E i \in 1..Len(names) : names[i] \notin ToSet(t.parts)
          THEN [status |-> "PartitionNotFound", phys |-> <<>>]
        ELSE [status |-> "ok", phys |-> phys(names)]

(* One index task per (index, physical table), index-major. *)
IdxTasks(names, phys) ==
    FlattenSeq([i \in 1..Len(names) |->
                  [j \in 1..Len(phys) |-> [phys |-> phys[j], index |-> names[i]]]])

PkTasks(phys) == [j \in 1..Len(phys) |-> [phys |-> phys[j], pk |-> TRUE, cols |-> {}]]

(* Mutant: the column tasks are appended inside the index loop. *)
TableTasksColPerIndex(t, phys) ==
    LET info == getColsInfo(t)
        col == [j \in 1..Len(phys) |-> [phys |-> phys[j], pk |-> info.pk, cols |-> info.cols]]
    IN  [idx |-> IdxTasks([i \in 1..Len(info.idx) |-> info.idx[i].name], phys),
         col |-> IF info.cols = {} /\ ~info.pk THEN <<>>
                 ELSE FlattenSeq([i \in 1..Max({1, Len(info.idx)}) |-> col])]

(* The loop body of buildAnalyzeTable for one table: its index tasks,     *)
(* then a column task per physical table when there is a column to        *)
(* analyze.                                                               *)
TableTasks(t, phys) ==
    LET info == getColsInfo(t)
    IN  [idx |-> IdxTasks([i \in 1..Len(info.idx) |-> info.idx[i].name], phys),
         col |-> IF info.cols = {} /\ ~info.pk THEN <<>>
                 ELSE [j \in 1..Len(phys) |-> [phys |-> phys[j], pk |-> info.pk, cols |-> info.cols]]]

(* buildAnalyzeTable: the tables in order; a view, or a partition error,  *)
(* fails the whole statement.                                             *)
buildAnalyzeTable(s, opts) ==
    LET step(acc, t) ==
          LET ph == getPhysicalIDsAndPartitionNames(t, s.partitionNames)
              tt == TableTasks(t, ph.phys)
          IN  IF acc.status # "ok" THEN acc
              ELSE IF t.view THEN Err("ViewNotSupported")
              ELSE IF ph.status # "ok" THEN Err(ph.status)
              ELSE Plan(opts, acc.idxTasks \o tt.idx, acc.colTasks \o tt.col)
    IN  FoldLeft(step, Plan(opts, <<>>, <<>>), s.tbls)

(* buildAnalyzeIndex: for each named index of the first table, PRIMARY   *)
(* on a handle table gives a column task of the handle alone; any other  *)
(* name must be a public index.                                           *)
buildAnalyzeIndex(s, opts) ==
    LET t == s.tbls[1]
        ph == getPhysicalIDsAndPartitionNames(t, s.partitionNames)
        step(acc, n) ==
          LET k == SelectInSeq(t.indices, LAMBDA i : i.name = n)
          IN  IF acc.status # "ok" THEN acc
              ELSE IF n = "primary" /\ t.pkIsHandle
                THEN Plan(opts, acc.idxTasks, acc.colTasks \o PkTasks(ph.phys))
              ELSE IF k = 0 \/ ~t.indices[k].public THEN Err("AnalyzeMissIndex")
              ELSE Plan(opts, acc.idxTasks \o IdxTasks(<<n>>, ph.phys), acc.colTasks)
    IN  IF ph.status # "ok" THEN Err(ph.status)
        ELSE FoldLeft(step, Plan(opts, <<>>, <<>>), s.indexNames)

(* buildAnalyzeAllIndex: every public index of the first table, and the  *)
(* handle column when the primary key is the handle.                      *)
buildAnalyzeAllIndex(s, opts) ==
    LET t == s.tbls[1]
        ph == getPhysicalIDsAndPartitionNames(t, s.partitionNames)
        pub == SelectSeq(t.indices, LAMBDA i : i.public)
    IN  IF ph.status # "ok" THEN Err(ph.status)
        ELSE Plan(opts, IdxTasks([i \in 1..Len(pub) |-> pub[i].name], ph.phys),
                  IF t.pkIsHandle THEN PkTasks(ph.phys) ELSE <<>>)

(* Mutant: a zero value is accepted. *)
OptionInRangeNoZero(o) == o.value <= OptionLimit[o.type]

(* An option value must be positive and at most its type's limit. *)
OptionInRange(o) == o.value # 0 /\ o.value <= OptionLimit[o.type]

(* Mutant: the sketch size is checked on the defaults, not on the merged *)
(* options.                                                               *)
handleAnalyzeOptionsDefaultsProduct(opts) ==
    LET optMap == FoldLeft(LAMBDA m, o : [m EXCEPT ![o.type] = o.value], OptionDefault, opts)
    IN  IF \E i \in 1..Len(opts) : ~OptionInRange(opts[i]) THEN Err("OptionOutOfRange")
        ELSE IF OptionDefault["width"] * OptionDefault["depth"] > CMSketchSizeLimit
          THEN Err("CMSketchTooLarge")
        ELSE Plan(optMap, <<>>, <<>>)

(* handleAnalyzeOptions: the defaults, overwritten by each option in      *)
(* order after its range check; then width * depth is bounded.            *)
handleAnalyzeOptions(opts) ==
    LET optMap == FoldLeft(LAMBDA m, o : [m EXCEPT ![o.type] = o.value], OptionDefault, opts)
    IN  IF \E i \in 1..Len(opts) : ~OptionInRange(opts[i]) THEN Err("OptionOutOfRange")
        ELSE IF optMap["width"] * optMap["depth"] > CMSketchSizeLimit
          THEN Err("CMSketchTooLarge")
        ELSE Plan(optMap, <<>>, <<>>)

(* buildAnalyze: fast analyze needs TiKV storage; then the options; then *)
(* the builder the statement's form selects.                              *)
buildAnalyze(s) ==
    LET o == handleAnalyzeOptions(s.opts)
    IN  IF ~s.tikv /\ s.fastAnalyze THEN Err("FastAnalyzeNotTiKV")
        ELSE IF o.status # "ok" THEN o
        ELSE IF ~s.indexFlag THEN buildAnalyzeTable(s, o.opts)
        ELSE IF s.indexNames = <<>> THEN buildAnalyzeAllIndex(s, o.opts)
        ELSE buildAnalyzeIndex(s, o.opts)

-----------------------------------------------------------------------------
Init ==
    /\ stmt \in Stmts
    /\ result = Pending

(* PlanBuilder.Build on an AnalyzeTableStmt. *)
Compile ==
    /\ result = Pending
    /\ result' = buildAnalyze(stmt)
    /\ UNCHANGED stmt

Next == Compile

Spec == Init /\ [][Next]_vars

-----------------------------------------------------------------------------
(* Properties *)

OptionStatuses == {"FastAnalyzeNotTiKV", "OptionOutOfRange", "CMSketchTooLarge"}
Statuses == {"pending", "ok", "ViewNotSupported", "PartitionMgmtOnNonpartitioned",
             "PartitionNotFound", "AnalyzeMissIndex"} \cup OptionStatuses

TypeOK ==
    /\ stmt \in StmtType
    /\ result.status \in Statuses
    /\ result.status = "ok" =>
         /\ result.opts \in [OptTypes -> 1..CMSketchSizeLimit \cup Range(OptionLimit)]
         /\ result.idxTasks \in Seq(IdxTask)
         /\ result.colTasks \in Seq(ColTask)

(* The value an option type takes: the last one given, else the default. *)
Effective(s, ty) ==
    LET k == SelectLastInSeq(s.opts, LAMBDA o : o.type = ty)
    IN  IF k = 0 THEN OptionDefault[ty] ELSE s.opts[k].value

(* handleAnalyzeOptions: a statement fails on options exactly when some  *)
(* given value is zero or above its type's limit, or else when the        *)
(* effective CM-sketch width times depth (a later WITH overriding an      *)
(* earlier one, a default standing for an omitted one) exceeds the sketch *)
(* size limit; a plan that is built carries the effective options.        *)
AnalyzeOptionsAsSpecified ==
    (result # Pending /\ ~(stmt.fastAnalyze /\ ~stmt.tikv)) =>
      LET inRange == \A i \in 1..Len(stmt.opts) :
                        stmt.opts[i].value \in 1..OptionLimit[stmt.opts[i].type]
          small == Effective(stmt, "width") * Effective(stmt, "depth") <= CMSketchSizeLimit
      IN  /\ result.status = "OptionOutOfRange" <=> ~inRange
          /\ result.status = "CMSketchTooLarge" <=> inRange /\ ~small
          /\ result.status = "ok" =>
               result.opts = [ty \in OptTypes |-> Effective(stmt, ty)]

(* The physical tables a statement addresses in table t, and the public  *)
(* index names of t.                                                      *)
PhysOf(s, t) ==
    LET parts == IF ~t.partitioned THEN {""}
                 ELSE IF s.partitionNames = <<>> THEN ToSet(t.parts)
                 ELSE ToSet(s.partitionNames)
    IN  {[tbl |-> t.id, part |-> p] : p \in parts}
PublicOf(t) == {t.indices[k].name : k \in {k \in DOMAIN t.indices : t.indices[k].public}}
PartitionError(s, t) ==
    IF ~t.partitioned THEN s.partitionNames # <<>>
    ELSE ~(ToSet(s.partitionNames) \subseteq ToSet(t.parts))

(* The statement names something it cannot analyze. *)
Unanalyzable(s) ==
    LET t == s.tbls[1]
    IN  IF ~s.indexFlag THEN \E u \in ToSet(s.tbls) : u.view \/ PartitionError(s, u)
        ELSE PartitionError(s, t)
             \/ \E n \in ToSet(s.indexNames) :
                  ~(n = "primary" /\ t.pkIsHandle) /\ n \notin PublicOf(t)

(* The analyze tasks as sets: each addressed physical table gets a task  *)
(* per public index (per named index with INDEX i, ...), and a column     *)
(* task for its stored columns and handle (ANALYZE TABLE), or for the     *)
(* handle alone (INDEX with PRIMARY named or no index named).             *)
ExpectedIdxTasks(s) ==
    LET t == s.tbls[1]
        names(u) == IF ~s.indexFlag \/ s.indexNames = <<>> THEN PublicOf(u)
                    ELSE ToSet(s.indexNames) \ (IF u.pkIsHandle THEN {"primary"} ELSE {})
        tbls == IF s.indexFlag THEN {t} ELSE ToSet(s.tbls)
    IN  UNION {{[phys |-> ph, index |-> n] : ph \in PhysOf(s, u), n \in names(u)} : u \in tbls}
ExpectedColTasks(s) ==
    LET t == s.tbls[1]
        handleOnly == t.pkIsHandle /\ ("primary" \in ToSet(s.indexNames) \/ s.indexNames = <<>>)
    IN  IF s.indexFlag
          THEN IF handleOnly THEN {[phys |-> ph, pk |-> TRUE, cols |-> {}] : ph \in PhysOf(s, t)}
               ELSE {}
        ELSE UNION {{[phys |-> ph, pk |-> u.pkIsHandle, cols |-> u.cols \ {"virtual"}] :
                       ph \in PhysOf(s, u)} :
                    u \in {u \in ToSet(s.tbls) : u.pkIsHandle \/ u.cols \ {"virtual"} # {}}}

(* Once its options pass, a statement is planned exactly when nothing it *)
(* names is a view (ANALYZE TABLE), a missing partition, a partition of  *)
(* an unpartitioned table or a missing or non-public index; the plan     *)
(* then analyzes every index and stored column set the statement          *)
(* addresses, on every addressed partition, and nothing else.             *)
AnalyzePlanAsSpecified ==
    (result # Pending /\ result.status \notin OptionStatuses) =>
      /\ result.status = "ok" <=> ~Unanalyzable(stmt)
      /\ result.status = "ok" =>
           /\ ToSet(result.idxTasks) = ExpectedIdxTasks(stmt)
           /\ ToSet(result.colTasks) = ExpectedColTasks(stmt)

(* No physical table is analyzed twice for the same index or column set  *)
(* unless the statement itself repeats a table, a partition or an index  *)
(* name: the nested loops over indexes and physical tables, and the      *)
(* separate column loop, never emit a task twice.                         *)
DistinctTasks ==
    (result.status = "ok"
     /\ IsInjective([i \in DOMAIN stmt.tbls |-> stmt.tbls[i].id])
     /\ IsInjective(stmt.partitionNames) /\ IsInjective(stmt.indexNames))
      => IsInjective(result.idxTasks) /\ IsInjective(result.colTasks)

(* A view has no statistics: buildAnalyzeTable rejects it with "analyze *)
(* ... is not supported now", and every ANALYZE of a view should fail.   *)
AnalyzeViewRejected ==
    (result # Pending /\ stmt.tbls[1].view) => result.status # "ok"

=============================================================================
