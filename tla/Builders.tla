----------------------------- MODULE Builders -----------------------------
(***************************************************************************)
(* The per-statement builders that PlanBuilder.Build dispatches to for    *)
(* the session and utility statements (planner/core/planbuilder.go):      *)
(* buildSet, buildShow with buildShowSchema, buildExplain of a SHOW,      *)
(* buildExplainFor, buildAdmin, buildSimple, buildPrepare, buildExecute,  *)
(* buildDo, buildLoadStats and buildDDL.  Each builder is a pure operator from the statement's AST,   *)
(* the session and schema state it reads (env), the session's plan-column *)
(* counter and the builder's flags to the AST as the builder leaves it    *)
(* (several builders rewrite the AST in place), the plan or error, the    *)
(* counter and the flags.  Expressions are abstracted to the outcome of   *)
(* rewriting them: a constant, a bare column name, a table-qualified      *)
(* column, an expression the rewriter rejects.                            *)
(***************************************************************************)
EXTENDS Integers, Sequences, FiniteSets, SequencesExt

CONSTANT Nil   \* a CREATE VIEW with no column list (v.Cols == nil)

(* The session and schema state a build reads: the current database, whether *)
(* the table named by SHOW CREATE TABLE is a view, whether the user variable *)
(* of PREPARE ... FROM @v is set, the outcome of building a CREATE VIEW's   *)
(* SELECT (its width, or a failure), and what the session manager knows of  *)
(* the connection EXPLAIN FOR CONNECTION names: nothing, a process with no  *)
(* plan, or a process and its last plan.                                     *)
Envs == [db : {"", "db"}, isView : BOOLEAN, userVar : BOOLEAN,
         width : {1, 2}, selectOk : BOOLEAN, conn : {"absent", "idle", "planned"}]

(* The optimizer flags and capability flags of the builder. *)
PrunColumns == "flagPrunColumns"
EliminateProjection == "flagEliminateProjection"
ExpandAST == "canExpandAST"

NoPlan == [kind |-> "none", code |-> "none", tp |-> "none", cols |-> <<>>,
           proj |-> <<>>, items |-> <<>>, text |-> "none"]
Err(code) == [NoPlan EXCEPT !.kind = "error", !.code = code]
PlanOf(kind) == [NoPlan EXCEPT !.kind = kind]

(* The result of a build. *)
R(a, p, n, b) == [ast |-> a, plan |-> p, next |-> n, b |-> b]

(* AllocPlanColumnID k times from counter n. *)
Ids(n, k) == [i \in 1..k |-> n + i]

-----------------------------------------------------------------------------
(* buildSet.  A bare column name (SET x = ON) is converted to a string    *)
(* value in the AST before it is rewritten; DEFAULT is not rewritten; a   *)
(* table-qualified column is rewritten against an empty dual and is an    *)
(* unknown column.  The first variable that fails ends the build.        *)
SetConvert(v) == IF v.value = "name" THEN [v EXCEPT !.value = "str"] ELSE v
SetRewriteFails(v) == v.value = "tabcol"

buildSet(a, n, b) ==
    LET cv == [i \in 1..Len(a.vars) |-> SetConvert(a.vars[i])]
        e  == SelectInSeq(cv, SetRewriteFails)
        a2 == [a EXCEPT !.vars = [i \in 1..Len(a.vars) |->
                                     IF e = 0 \/ i <= e THEN cv[i] ELSE a.vars[i]]]
        assign(v) == [isDefault |-> v.value = "default",
                      expr |-> IF v.value = "default" THEN "none" ELSE v.value,
                      ext |-> v.ext]
    IN  IF e # 0 THEN R(a2, Err("UnknownColumn"), n, b)
        ELSE R(a2, [PlanOf("Set") EXCEPT !.items = [i \in 1..Len(cv) |-> assign(cv[i])]], n, b)

(* The column counts of the fixed schemas buildShowSchema returns as they *)
(* are: buildShowProcedureSchema, buildShowTriggerSchema,                  *)
(* buildShowEventsSchema and buildShowWarningsSchema (WARNINGS and ERRORS). *)
ShowSchemaWidths ==
    [procedureStatus |-> 11, triggers |-> 11, events |-> 15, warnings |-> 3, errors |-> 3]

(* buildTableRegionsSchema (SHOW ... REGIONS). *)
TableRegionsWidth == 11

(* buildShowSchema: the number of result columns of SHOW kind s.tp.  SHOW  *)
(* CREATE USER has a column only when the statement names a user; a kind  *)
(* the switch does not list has none.                                     *)
ShowWidth(s, isView) ==
    CASE s.tp \in DOMAIN ShowSchemaWidths -> ShowSchemaWidths[s.tp]
      [] s.tp = "regions"     -> TableRegionsWidth
      [] s.tp = "tables"      -> IF s.full THEN 2 ELSE 1
      [] s.tp = "createTable" -> IF isView THEN 4 ELSE 2
      [] s.tp = "createUser"  -> IF s.user THEN 1 ELSE 0
      [] s.tp \in {"databases", "grants", "builtins"} -> 1
      [] s.tp \in {"variables", "status", "createDatabase"} -> 2
      [] s.tp \in {"profiles", "privileges"} -> 3
      [] s.tp \in {"openTables", "charset", "createView", "statsHealthy"} -> 4
      [] s.tp \in {"drainerStatus", "pumpStatus", "masterStatus"} -> 5
      [] s.tp \in {"engines", "collation", "statsMeta"} -> 6
      [] s.tp = "analyzeStatus" -> 7
      [] s.tp \in {"processList", "bindings"} -> 8
      [] s.tp \in {"statsHistograms", "statsBuckets"} -> 10
      [] s.tp = "index"       -> 13
      [] s.tp = "tableStatus" -> 18
      [] OTHER               -> 0

(* Mutant: the projection's columns are clones that keep their ids. *)
buildShowCloneIds(s, env, n, b) ==
    LET w   == ShowWidth(s, s.tp = "createTable" /\ env.isView)
        s2  == IF s.pattern = "none" THEN s ELSE [s EXCEPT !.pattern = "firstCol"]
        p   == [PlanOf("Show") EXCEPT !.tp = s.tp, !.cols = Ids(n, w)]
    IN  IF s.tp \in {"tables", "tableStatus"} /\ s.db = "" THEN R(s, Err("NoDB"), n, b)
        ELSE IF s.pattern # "none" /\ w = 0 THEN R(s, Err("IndexOutOfRange"), n, b)
        ELSE IF s.where = "bad" THEN R(s2, Err("UnknownColumn"), n + w, b)
        ELSE IF s.pattern = "none" /\ s.where = "none" THEN R(s2, p, n + w, b)
        ELSE R(s2, [p EXCEPT !.kind = "Projection", !.text = "show", !.proj = Ids(n, w)],
               n + w, [b EXCEPT !.opt = @ \cup {EliminateProjection}])

(* buildShow.  SHOW TABLES / TABLE STATUS need a database name; the table *)
(* of SHOW CREATE TABLE is looked up for being a view; every column gets *)
(* a fresh id; a LIKE pattern is rewritten in the AST to compare the     *)
(* first result column (OutputNames()[0], which a kind without columns    *)
(* does not have); LIKE and WHERE become selections, and the show        *)
(* is then wrapped in a projection with fresh column ids.                 *)
buildShow(s, env, n, b) ==
    LET w   == ShowWidth(s, s.tp = "createTable" /\ env.isView)
        s2  == IF s.pattern = "none" THEN s ELSE [s EXCEPT !.pattern = "firstCol"]
        sel == s.pattern # "none" \/ s.where # "none"
        p   == [PlanOf("Show") EXCEPT !.tp = s.tp, !.cols = Ids(n, w)]
    IN  IF s.tp \in {"tables", "tableStatus"} /\ s.db = "" THEN R(s, Err("NoDB"), n, b)
        ELSE IF s.pattern # "none" /\ w = 0 THEN R(s, Err("IndexOutOfRange"), n, b)
        ELSE IF s.where = "bad" THEN R(s2, Err("UnknownColumn"), n + w, b)
        ELSE IF ~sel THEN R(s2, p, n + w, b)
        ELSE R(s2, [p EXCEPT !.kind = "Projection", !.text = "show",
                             !.proj = Ids(n + w, w)],
               n + 2 * w, [b EXCEPT !.opt = @ \cup {EliminateProjection}])

(* buildExplain of a SHOW: the SHOW's own plan, the rewritten SHOW kept *)
(* inside the EXPLAIN. *)
buildExplain(a, env, n, b) ==
    LET r == buildShow(a.show, env, n, b)
    IN  [r EXCEPT !.ast = [a EXCEPT !.show = r.ast]]

(* buildExplainPlan: an Explain of the target plan.  Its prepareSchema   *)
(* (outside this repository) is taken to succeed.                        *)
buildExplainPlan(target) == [PlanOf("Explain") EXCEPT !.text = target]

(* buildExplainFor: the last plan of the connection, read from the       *)
(* session manager; no such connection is an error, a connection without *)
(* a plan gives an Explain with no target.                                *)
buildExplainFor(env) ==
    CASE env.conn = "absent"  -> Err("NoSuchThread")
      [] env.conn = "idle"    -> buildExplainPlan("none")
      [] env.conn = "planned" -> buildExplainPlan("processPlan")

(* The column counts of buildShowNextRowID, buildShowDDLFields,           *)
(* buildShowDDLJobsFields, buildCancelDDLJobsFields and                    *)
(* buildShowDDLJobQueriesFields, by ADMIN statement type.                 *)
AdminWidths ==
    [nextRowID |-> 4, showDDL |-> 6, showDDLJobs |-> 11, cancelDDLJobs |-> 2,
     showDDLJobQueries |-> 1]

(* Columns built by buildColumnWithName keep the UniqueID 0 they are     *)
(* created with.                                                          *)
Unallocated(k) == [i \in 1..k |-> 0]

(* Mutant: ADMIN SHOW DDL JOBS keeps its columns unallocated as well. *)
buildAdminNoAlloc(a, n) ==
    LET w == AdminWidths[a.tp]
        p == [PlanOf("Admin") EXCEPT !.tp = a.tp, !.cols = Unallocated(w)]
    IN  IF a.tp \notin DOMAIN AdminWidths THEN [plan |-> Err("UnsupportedType"), next |-> n]
        ELSE IF a.tp = "showDDLJobs" /\ a.where = "bad" THEN [plan |-> Err("UnknownColumn"), next |-> n]
        ELSE IF a.tp = "showDDLJobs" /\ a.where = "ok" THEN [plan |-> [p EXCEPT !.kind = "Selection"], next |-> n]
        ELSE [plan |-> p, next |-> n]

(* buildAdmin: one plan per ADMIN type with its fixed schema; only SHOW   *)
(* DDL JOBS takes column ids from the session, and its WHERE becomes a    *)
(* selection built after the ids are taken.  Any other type is            *)
(* unsupported.                                                           *)
buildAdmin(a, n) ==
    LET w == AdminWidths[a.tp]
        p == [PlanOf("Admin") EXCEPT !.tp = a.tp, !.cols = Unallocated(w)]
    IN  IF a.tp \notin DOMAIN AdminWidths THEN [plan |-> Err("UnsupportedType"), next |-> n]
        ELSE IF a.tp # "showDDLJobs" THEN [plan |-> p, next |-> n]
        ELSE IF a.where = "bad" THEN [plan |-> Err("UnknownColumn"), next |-> n + w]
        ELSE [plan |-> [p EXCEPT !.kind = IF a.where = "ok" THEN "Selection" ELSE "Admin",
                                 !.cols = Ids(n, w)],
              next |-> n + w]

(* buildSimple: USE needs a database; GRANT at table level needs one from *)
(* the statement or the session; everything else is a Simple plan.       *)
buildSimple(a, env) ==
    IF \/ a.kind = "use" /\ a.db = ""
       \/ a.kind = "grant" /\ env.db = "" /\ a.db = "" /\ a.level = "table"
    THEN Err("NoDB")
    ELSE [PlanOf("Simple") EXCEPT !.tp = a.kind]

(* buildPrepare: the text comes from the statement or from a user variable, *)
(* "NULL" when that is not set. *)
buildPrepare(a, env) ==
    [PlanOf("Prepare") EXCEPT !.text =
        IF ~a.fromVar THEN "literal" ELSE IF env.userVar THEN "var" ELSE "NULL"]

(* buildExecute: every USING expression is rewritten, the first failure wins. *)
buildExecute(a) ==
    IF \E i \in 1..Len(a.using) : a.using[i] = "bad" THEN Err("Rewrite")
    ELSE [PlanOf("Execute") EXCEPT !.items = a.using,
                                   !.text = IF a.binary THEN "binary" ELSE "text"]

(* buildDo: a projection over a one-row dual, one fresh column per       *)
(* expression, allocated as each expression is rewritten.                 *)
buildDo(a, n) ==
    LET e == SelectInSeq(a.exprs, LAMBDA x : x = "bad")
    IN  IF e # 0 THEN [plan |-> Err("Rewrite"), next |-> n + e - 1]
        ELSE [plan |-> [PlanOf("Projection") EXCEPT !.text = "do",
                           !.proj = Ids(n, Len(a.exprs))],
              next |-> n + Len(a.exprs)]

(* buildLoadStats: a LoadStats plan for the statement's path. *)
buildLoadStats == PlanOf("LoadStats")

(* buildDDL.  ALTER DATABASE without a name takes the session's current   *)
(* database into the AST.  CREATE VIEW builds its SELECT with AST         *)
(* expansion allowed (the flag is cleared by a deferred call, on every   *)
(* return), fills a missing column list from the SELECT's output names,  *)
(* requires the list to match the SELECT's width, and resolves a CURRENT *)
(* USER definer to the session's user; each of these is written into the *)
(* AST.  Building the SELECT is a nested Build, which resets optFlag.     *)
buildCreateView(a, env, n, b) ==
    LET b1   == [b EXCEPT !.opt = {PrunColumns}, !.cap = @ \cup {ExpandAST}]
        done == [b1 EXCEPT !.cap = @ \ {ExpandAST}]
        cols == IF a.cols = Nil THEN env.width ELSE a.cols
        a2   == [a EXCEPT !.cols = cols]
        a3   == [a2 EXCEPT !.definer = IF @ = "current" THEN "user" ELSE @]
    IN  IF ~env.selectOk THEN R(a, Err("Select"), n, done)
        ELSE IF cols # env.width THEN R(a2, Err("ViewWrongList"), n + env.width, done)
        ELSE R(a3, [PlanOf("DDL") EXCEPT !.tp = "createView", !.items = <<cols>>,
                                   !.text = a3.definer],
               n + env.width, done)

(* Mutant: the current database is taken only into a statement with no name yet. *)
buildAlterDatabaseOnce(a, env, n, b) ==
    LET a2 == IF a.useDefault /\ a.name = "" THEN [a EXCEPT !.name = env.db] ELSE a
    IN  IF a2.name = "" THEN R(a2, Err("NoDB"), n, b)
        ELSE R(a2, [PlanOf("DDL") EXCEPT !.tp = "alterDB", !.text = a2.name], n, b)

buildAlterDatabase(a, env, n, b) ==
    LET a2 == IF a.useDefault THEN [a EXCEPT !.name = env.db] ELSE a
    IN  IF a2.name = "" THEN R(a2, Err("NoDB"), n, b)
        ELSE R(a2, [PlanOf("DDL") EXCEPT !.tp = "alterDB", !.text = a2.name], n, b)

(* What may change between two builds of the same statement: another       *)
(* statement of the session (USE, SET @v) or another session's DDL changes *)
(* one thing a build reads.                                                *)
EnvChanges(env) ==
    {e \in Envs : Cardinality({f \in DOMAIN e : e[f] # env[f]}) = 1}

-----------------------------------------------------------------------------
(* The type switch of Build over the statements modelled here. *)
BuildSwitch(a, env, n, b) ==
    CASE a.kind = "admin"      -> LET d == buildAdmin(a, n) IN R(a, d.plan, d.next, b)
      [] a.kind = "set"        -> buildSet(a, n, b)
      [] a.kind = "show"       -> buildShow(a, env, n, b)
      [] a.kind = "explain"    -> buildExplain(a, env, n, b)
      [] a.kind = "explainFor" -> R(a, buildExplainFor(env), n, b)
      [] a.kind \in {"use", "grant", "kill", "simple"} -> R(a, buildSimple(a, env), n, b)
      [] a.kind = "deallocate" -> R(a, PlanOf("Deallocate"), n, b)
      [] a.kind = "prepare"    -> R(a, buildPrepare(a, env), n, b)
      [] a.kind = "execute"    -> R(a, buildExecute(a), n, b)
      [] a.kind = "do"         -> LET d == buildDo(a, n) IN R(a, d.plan, d.next, b)
      [] a.kind = "loadStats"  -> R(a, buildLoadStats, n, b)
      [] a.kind = "alterDB"    -> buildAlterDatabase(a, env, n, b)
      [] a.kind = "createView" -> buildCreateView(a, env, n, b)
      [] OTHER                 -> R(a, Err("UnsupportedType"), n, b)

(* PlanBuilder.Build: optFlag starts from flagPrunColumns for every build. *)
Build(a, env, n, b) == BuildSwitch(a, env, n, [b EXCEPT !.opt = {PrunColumns}])

=============================================================================
