----------------------------- MODULE PlanSpec -----------------------------
(***************************************************************************)
(* What Build promises for a statement that is planned more than once (a  *)
(* prepared statement is planned again at every EXECUTE): each build       *)
(* answers what building the statement as it was parsed would answer in   *)
(* the current session and schema state, with the same optimizer flags.  *)
(* The AST, which the builders rewrite in place, is not part of this      *)
(* specification.                                                          *)
(***************************************************************************)
EXTENDS Builders

CONSTANTS Stmts, MaxBuilds, MaxEnvChanges

VARIABLES orig, env, plan, nextID, optFlag, builds, envChanges

vars == <<orig, env, plan, nextID, optFlag, builds, envChanges>>

Init ==
    /\ orig \in Stmts
    /\ env \in Envs
    /\ plan = NoPlan
    /\ nextID = 0
    /\ optFlag = {}
    /\ builds = 0
    /\ envChanges = 0

(* A build of the statement as parsed, with a fresh builder. *)
FreshBuild ==
    /\ builds < MaxBuilds
    /\ LET r == Build(orig, env, nextID, [opt |-> {}, cap |-> {}])
       IN  /\ plan' = r.plan
           /\ nextID' = r.next
           /\ optFlag' = r.b.opt
    /\ builds' = builds + 1
    /\ UNCHANGED <<orig, env, envChanges>>

ChangeEnv ==
    /\ envChanges < MaxEnvChanges
    /\ env' \in EnvChanges(env)
    /\ envChanges' = envChanges + 1
    /\ UNCHANGED <<orig, plan, nextID, optFlag, builds>>

Next == FreshBuild \/ ChangeEnv

Spec == Init /\ [][Next]_vars

=============================================================================
