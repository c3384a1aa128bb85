----------------------------- MODULE MC_Session -----------------------------
EXTENDS Session

SetVars == [value : {"default", "name", "tabcol", "const"}, ext : BOOLEAN]
SetStmts == {[kind |-> "set", vars |-> vs] :
                 vs \in UNION {[1..k -> SetVars] : k \in 1..2}}

ShowBodies == [kind : {"show"}, tp : {"databases", "tables", "tableStatus", "createTable"},
               db : {"", "db"}, full : BOOLEAN, pattern : {"none", "unset"},
               where : {"none", "ok", "bad"}]
(* Kinds of other widths, among them one whose schema function is       *)
(* separate, and SHOW CREATE USER, which has no column without a user.  *)
OtherShowBodies ==
    [kind : {"show"}, tp : {"warnings", "index"}, db : {""}, full : {FALSE},
     pattern : {"none"}, where : {"none", "ok"}]
    \cup [kind : {"show"}, tp : {"createUser"}, db : {""}, full : {FALSE},
          pattern : {"none"}, where : {"none"}, user : BOOLEAN]
ExplainStmts == {[kind |-> "explain", show |-> s] : s \in ShowBodies}
ExplainForStmts == [kind : {"explainFor"}]

AdminStmts ==
    [kind : {"admin"}, tp : {"nextRowID", "showDDL", "cancelDDLJobs",
                             "showDDLJobQueries", "checkTable"}, where : {"none"}]
    \cup [kind : {"admin"}, tp : {"showDDLJobs"}, where : {"none", "ok", "bad"}]

SimpleStmts ==
    [kind : {"use"}, db : {"", "db"}]
    \cup [kind : {"grant"}, db : {"", "db"}, level : {"global", "db", "table"}]
    \cup [kind : {"kill", "simple", "deallocate", "loadStats", "unsupported"}]

Exprs == UNION {[1..k -> {"const", "bad"}] : k \in 0..2}
CallStmts ==
    [kind : {"prepare"}, fromVar : BOOLEAN]
    \cup [kind : {"execute"}, using : Exprs, binary : BOOLEAN]
    \cup {s \in [kind : {"do"}, exprs : Exprs] : s.exprs # <<>>}

(* The pass run's CREATE VIEW statements name their columns; see the       *)
(* hazards for a statement without a column list.                           *)
DDLStmts ==
    [kind : {"alterDB"}, useDefault : BOOLEAN, name : {"", "db"}]
    \cup [kind : {"createView"}, cols : {1, 2}, definer : {"current", "explicit"}]

(* CREATE VIEW without a column list: its first build writes the SELECT's *)
(* output names into the AST (session_view_columns).                      *)
ViewNoColsStmts == [kind : {"createView"}, cols : {Nil}, definer : {"current", "explicit"}]

MCStmts == SetStmts \cup ShowBodies \cup OtherShowBodies \cup ExplainStmts
           \cup ExplainForStmts \cup AdminStmts \cup SimpleStmts \cup CallStmts \cup DDLStmts
=============================================================================
