------------------------------ MODULE Session ------------------------------
(***************************************************************************)
(* One statement of a session planned by PlanBuilder.Build, again and     *)
(* again (EXECUTE of a prepared statement plans its AST anew), with the   *)
(* session and schema state changing between builds.  The builders of    *)
(* module Builders rewrite the AST in place; the session's plan column id *)
(* counter carries over from one build to the next, and every build has a *)
(* new PlanBuilder whose optFlag the optimizer reads after Build.          *)
(***************************************************************************)
EXTENDS Builders

CONSTANTS
    Stmts,          \* the statements, as parsed
    MaxBuilds,      \* builds of the statement in one behaviour
    MaxEnvChanges   \* changes of the session and schema state

VARIABLES
    orig,        \* the statement as parsed
    ast,         \* the statement as the builds left it
    env,         \* the session and schema state a build reads
    plan,        \* the plan or error of the last build
    nextID,      \* the session's plan column id counter
    optFlag,     \* the optFlag of the last build's PlanBuilder
    builds,      \* builds so far
    envChanges,  \* changes of env so far
    issued       \* the column ids of the plans built before the last one

vars == <<orig, ast, env, plan, nextID, optFlag, builds, envChanges, issued>>

(* NewPlanBuilder: a builder with no flags set. *)
NewPlanBuilder == [opt |-> {}, cap |-> {}]


Init ==
    /\ orig \in Stmts
    /\ ast = orig
    /\ env \in Envs
    /\ plan = NoPlan
    /\ nextID = 0
    /\ optFlag = {}
    /\ builds = 0
    /\ envChanges = 0
    /\ issued = {}

(* The column ids a plan carries that were taken from the session counter *)
(* (a column nobody allocated keeps the UniqueID 0). *)
PlanIds(p) == (Range(p.cols) \cup Range(p.proj)) \ {0}

(* PlanBuilder.Build on the statement's AST, by a new PlanBuilder. *)
BuildStmt ==
    /\ builds < MaxBuilds
    /\ LET r == Build(ast, env, nextID, NewPlanBuilder)
       IN  /\ ast' = r.ast
           /\ plan' = r.plan
           /\ nextID' = r.next
           /\ optFlag' = r.b.opt
    /\ builds' = builds + 1
    /\ issued' = issued \cup PlanIds(plan)
    /\ UNCHANGED <<orig, env, envChanges>>

(* Another statement or session changes what the next build reads. *)
ChangeEnv ==
    /\ envChanges < MaxEnvChanges
    /\ env' \in EnvChanges(env)
    /\ envChanges' = envChanges + 1
    /\ UNCHANGED <<orig, ast, plan, nextID, optFlag, builds, issued>>

Next == BuildStmt \/ ChangeEnv

Spec == Init /\ [][Next]_vars

-----------------------------------------------------------------------------
(* Properties *)

(* The in-place rewrites of buildSet (a bare column name becomes a string), *)
(* buildShow (the LIKE pattern is pointed at the first result column),    *)
(* ALTER DATABASE (the current database is written into the statement)    *)
(* and CREATE VIEW (the definer) are invisible: every build of the        *)
(* rewritten AST answers what a build of the statement as parsed answers  *)
(* in the same session and schema state.                                  *)
Abstract == INSTANCE PlanSpec
AbstractSpec == Abstract!Spec

(* Every allocated column of a plan has an id of its own: the allocated   *)
(* ids of the plan are pairwise distinct (a SHOW's projection does not    *)
(* reuse its child's ids), none was handed out for a plan built earlier   *)
(* in the session, and none is beyond the session's counter.  A plan that *)
(* resolves a WHERE or LIKE against its columns (a selection, or the      *)
(* projection over a filtered SHOW) has every column allocated, although *)
(* ADMIN plans leave theirs at 0.                                        *)
ColumnIDsFresh ==
    /\ IsInjective(SelectSeq(plan.cols \o plan.proj, LAMBDA i : i # 0))
    /\ plan.kind \in {"Selection", "Projection"} => 0 \notin Range(plan.cols)
    /\ PlanIds(plan) \cap issued = {}
    /\ PlanIds(plan) \subseteq 1..nextID

=============================================================================
