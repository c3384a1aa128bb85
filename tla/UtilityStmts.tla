---------------------------- MODULE UtilityStmts ----------------------------
(***************************************************************************)
(* ANALYZE TABLE, SPLIT REGION and INSERT statements compiled through     *)
(* PlanBuilder.Build, whose type switch hands an AnalyzeTableStmt to      *)
(* buildAnalyze, a SplitRegionStmt to buildSplitRegion and an InsertStmt  *)
(* to buildInsert.  The builders are the modules Analyze, SplitRegion and *)
(* InsertPlan, each instantiated on the statement's AST and the shared    *)
(* result.                                                                 *)
(***************************************************************************)
CONSTANTS
    TableIds, AnalyzeIndexNames, PartNames, OptionLimit, OptionDefault,
    CMSketchSizeLimit, AnalyzeStmts,          \* the constants of Analyze
    SplitIndexNames, IndexCols, SplitRegionMaxNum,
    SplitStmts,                               \* the constants of SplitRegion
    InsertColNames, InsertStmts               \* the constants of InsertPlan

VARIABLES
    stmt,     \* [kind, ast]: the statement node and its type
    result    \* the outcome of the builder it was dispatched to

vars == <<stmt, result>>

A == INSTANCE Analyze WITH IndexNames <- AnalyzeIndexNames, Stmts <- AnalyzeStmts,
                           stmt <- stmt.ast, result <- result
S == INSTANCE SplitRegion WITH IndexNames <- SplitIndexNames, Stmts <- SplitStmts,
                               stmt <- stmt.ast, result <- result
I == INSTANCE InsertPlan WITH ColNames <- InsertColNames, Stmts <- InsertStmts,
                              stmt <- stmt.ast, result <- result

Init ==
    \/ /\ stmt \in {[kind |-> "analyze", ast |-> s] : s \in AnalyzeStmts}
       /\ result = A!Pending
    \/ /\ stmt \in {[kind |-> "split", ast |-> s] : s \in SplitStmts}
       /\ result = S!Pending
    \/ /\ stmt \in {[kind |-> "insert", ast |-> s] : s \in InsertStmts}
       /\ result = I!Pending

(* Build's cases *ast.AnalyzeTableStmt, *ast.SplitRegionStmt and       *)
(* *ast.InsertStmt. *)
Next ==
    \/ stmt.kind = "analyze" /\ UNCHANGED stmt /\ A!Compile
    \/ stmt.kind = "split" /\ UNCHANGED stmt /\ S!Compile
    \/ stmt.kind = "insert" /\ UNCHANGED stmt /\ I!Compile

Spec == Init /\ [][Next]_vars

-----------------------------------------------------------------------------
(* Properties: those of the two builders, for the statements of each. *)

TypeOK ==
    /\ stmt.kind \in {"analyze", "split", "insert"}
    /\ stmt.kind = "analyze" => A!TypeOK
    /\ stmt.kind = "split" => S!TypeOK
    /\ stmt.kind = "insert" => I!TypeOK

(* ANALYZE: option errors in the order handleAnalyzeOptions checks them,  *)
(* and the merged options of a plan (Analyze!AnalyzeOptionsAsSpecified).  *)
AnalyzeOptionsAsSpecified == stmt.kind = "analyze" => A!AnalyzeOptionsAsSpecified

(* ANALYZE: the error or the index and column tasks each builder plans    *)
(* for every listed table and partition (Analyze!AnalyzePlanAsSpecified). *)
AnalyzePlanAsSpecified == stmt.kind = "analyze" => A!AnalyzePlanAsSpecified

(* ANALYZE: no task is planned twice unless the statement itself lists a *)
(* table, a partition or an index twice; a repeated name is planned once *)
(* per listing (Analyze!DistinctTasks).                                   *)
DistinctTasks == stmt.kind = "analyze" => A!DistinctTasks

(* SPLIT ... BY: rows validated one at a time, the first bad row reported *)
(* with its number (SplitRegion!SplitRowsCheckedInOrder).                 *)
SplitRowsCheckedInOrder == stmt.kind = "split" => S!SplitRowsCheckedInOrder

(* SPLIT: every plan built is executable (SplitRegion!SplitPlanWellFormed). *)
SplitPlanWellFormed == stmt.kind = "split" => S!SplitPlanWellFormed

(* ANALYZE TABLE v INDEX on a view is rejected like ANALYZE TABLE v        *)
(* (Analyze!AnalyzeViewRejected).                                          *)
AnalyzeViewRejected == stmt.kind = "analyze" => A!AnalyzeViewRejected

(* SPLIT TABLE / SPLIT INDEX ... BY () is rejected with a value-count     *)
(* error, like a bound with no value (SplitRegion!SplitEmptyRowRejected).  *)
SplitEmptyRowRejected == stmt.kind = "split" => S!SplitEmptyRowRejected

(* INSERT: every compile ends in the error, and on the row, that spec 4.1 *)
(* and 8 ask for (InsertPlan!InsertErrorsAsSpecified).                   *)
InsertErrorsAsSpecified == stmt.kind = "insert" => I!InsertErrorsAsSpecified

(* INSERT ... SELECT: the ON DUPLICATE schema is the table followed by the *)
(* full new-row shape (InsertPlan!SelectRowShape).                        *)
SelectRowShape == stmt.kind = "insert" => I!SelectRowShape

(* INSERT ... ON DUPLICATE KEY UPDATE re-evaluates exactly the generated  *)
(* columns that depend on a changed column (InsertPlan!OnDupRecomputesDependents). *)
OnDupRecomputesDependents == stmt.kind = "insert" => I!OnDupRecomputesDependents

=============================================================================
