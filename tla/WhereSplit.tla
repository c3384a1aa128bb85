----------------------------- MODULE WhereSplit -----------------------------
(***************************************************************************)
(* splitWhere (planner/core/planbuilder.go): the list of AND conditions   *)
(* of a WHERE expression.  An expression node is abstracted to its kind:  *)
(* a missing WHERE (nil), a binary operation that is a logical AND, any   *)
(* other binary operation (OR, =, ...), a parenthesised expression, or    *)
(* any other expression, a leaf with an identity.  A step of this module  *)
(* is one call of splitWhere on a WHERE expression chosen in Init; the    *)
(* result is checked against a non-recursive definition of the same list. *)
(***************************************************************************)
EXTENDS Integers, Sequences, SequencesExt

CONSTANTS
    WhereExprs,    \* the WHERE expressions to split
    MaxExprDepth   \* bound on the nesting depth of the expressions in WhereExprs

NilExpr == [k |-> "nil"]
Leaf(id) == [k |-> "leaf", id |-> id]
And(l, r) == [k |-> "and", l |-> l, r |-> r]
Binary(l, r) == [k |-> "binary", l |-> l, r |-> r]
Paren(e) == [k |-> "paren", e |-> e]

VARIABLES
    where,   \* the expression passed to splitWhere
    conds,   \* its result (empty before the call)
    called   \* whether splitWhere has returned

-----------------------------------------------------------------------------
(* Mutant: a missing WHERE is returned as a condition. *)
RECURSIVE splitWhereKeepNil(_)
splitWhereKeepNil(w) ==
    CASE w.k = "and"   -> splitWhereKeepNil(w.l) \o splitWhereKeepNil(w.r)
      [] w.k = "paren" -> splitWhereKeepNil(w.e)
      [] OTHER         -> <<w>>

(* Mutant: a parenthesised expression is kept as one condition. *)
RECURSIVE splitWhereKeepParens(_)
splitWhereKeepParens(w) ==
    CASE w.k = "nil"   -> <<>>
      [] w.k = "and"   -> splitWhereKeepParens(w.l) \o splitWhereKeepParens(w.r)
      [] OTHER         -> <<w>>

(* splitWhere: nil gives no condition, an AND the conditions of its left  *)
(* then of its right operand, a parenthesised expression those of what it *)
(* encloses, any other binary operation or expression itself.             *)
RECURSIVE splitWhere(_)
splitWhere(w) ==
    CASE w.k = "nil"   -> <<>>
      [] w.k = "and"   -> splitWhere(w.l) \o splitWhere(w.r)
      [] w.k = "paren" -> splitWhere(w.e)
      [] OTHER         -> <<w>>

-----------------------------------------------------------------------------
Init ==
    /\ where \in WhereExprs
    /\ conds = <<>>
    /\ called = FALSE

Split ==
    /\ ~called
    /\ conds' = splitWhere(where)
    /\ called' = TRUE
    /\ UNCHANGED where

Next == Split

Spec == Init /\ [][Next]_<<where, conds, called>>

-----------------------------------------------------------------------------
(* Properties *)

(* The node reached from w by following path p, a sequence of steps into *)
(* the left ("l") or right ("r") operand of an AND or into a parenthesis  *)
(* ("e"); NoNode when a step leaves that AND / parenthesis skeleton.      *)
NoNode == [k |-> "none"]
Step(t, d) ==
    CASE t.k = "and" /\ d = "l"   -> t.l
      [] t.k = "and" /\ d = "r"   -> t.r
      [] t.k = "paren" /\ d = "e" -> t.e
      [] OTHER                    -> NoNode
At(w, p) == FoldLeft(Step, w, p)

Paths == UNION {[1..n -> {"l", "r", "e"}] : n \in 0..MaxExprDepth}

(* Path p lies left of path q: at the first step where they part, p goes *)
(* into the left operand and q into the right one.                       *)
LeftOf(p, q) ==
    \E d \in 1..Len(p) :
        /\ d <= Len(q) /\ SubSeq(p, 1, d - 1) = SubSeq(q, 1, d - 1)
        /\ p[d] = "l" /\ q[d] = "r"

(* The conditions of w: the nodes below its AND / parenthesis skeleton    *)
(* that are neither an AND, a parenthesis nor nil, from left to right.   *)
Conditions(w) ==
    LET P == {p \in Paths : At(w, p).k \in {"leaf", "binary"}}
        ordered == SetToSortSeq(P, LeftOf)
    IN  [i \in 1..Len(ordered) |-> At(w, ordered[i])]

(* splitWhere returns exactly the AND conditions of the WHERE expression, *)
(* conditions, in the order they are written: an AND inside parentheses  *)
(* is split as well, any other operator (OR, a comparison) is one         *)
(* condition however many ANDs it encloses, and a missing WHERE gives   *)
(* no condition.                                                          *)
SplitWhereAsConditions ==
    called => conds = Conditions(where)

=============================================================================
