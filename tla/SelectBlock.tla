---------------------------- MODULE SelectBlock ----------------------------
(***************************************************************************)
(* The two parts of building a query block that this repository holds:   *)
(* the node builders' use of the handle-map and select-offset stacks      *)
(* (HandleCols), and splitWhere, which buildSelection applies to the      *)
(* block's WHERE (WhereSplit).  The two share no state: splitWhere reads  *)
(* only its argument and neither stack is read or written by it.  So a    *)
(* behaviour is a run of one part, chosen in Init, with the other part    *)
(* at its initial state; an invariant of either part holds on every       *)
(* interleaving of both exactly when it holds on the runs of that part.   *)
(***************************************************************************)
CONSTANTS Tables, MaxCols, MaxDepth, MaxUnion, MaxBlocks, WhereExprs, MaxExprDepth

VARIABLES
    part,   \* "block" (HandleCols) or "where" (WhereSplit)
    id2HandleMapStack, stackTail, nextCol, frags, subqueryBase, lockMap,
    selectOffset, nextOffset,
    where, conds, called

H == INSTANCE HandleCols
W == INSTANCE WhereSplit

blockVars == <<id2HandleMapStack, stackTail, nextCol, frags, subqueryBase, lockMap,
               selectOffset, nextOffset>>
whereVars == <<where, conds, called>>
vars == <<part, blockVars, whereVars>>

Init ==
    /\ H!Init
    /\ \/ part = "block" /\ where = W!NilExpr /\ conds = <<>> /\ called = FALSE
       \/ part = "where" /\ W!Init

Next ==
    \/ part = "block" /\ H!Next /\ UNCHANGED <<part, whereVars>>
    \/ part = "where" /\ W!Split /\ UNCHANGED <<part, blockVars>>

Spec == Init /\ [][Next]_vars

-----------------------------------------------------------------------------
(* Properties: those of the parts. *)

(* The handle-map stack and the select-offset stack are well formed. *)
TypeOK == part \in {"block", "where"} /\ H!TypeOK

(* The handle-map stack stays in step with the plan (HandleCols!StackMatchesPlan). *)
StackMatchesPlan == H!StackMatchesPlan

(* splitWhere returns the WHERE's AND conditions in written order         *)
(* (WhereSplit!SplitWhereAsConditions).                                    *)
SplitWhereAsConditions == W!SplitWhereAsConditions

=============================================================================
