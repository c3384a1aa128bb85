---------------------------- MODULE MC_SelectBlock ----------------------------
(* A query block as buildSelect builds it: its node builders and their    *)
(* use of the handle-map and select-offset stacks, and splitWhere, which  *)
(* buildSelection applies to the block's WHERE.                           *)
(* Two tables, up to three DataSources per build (enough for a self-join  *)
(* joined again with another table), a stack three fragments deep, and    *)
(* UNIONs of two children.                                                *)
EXTENDS SelectBlock, Integers, TLC

MCSymmetry == Permutations(Tables)

(* Expression nodes, as WhereSplit builds them. *)
NilExpr == [k |-> "nil"]
Leaf(id) == [k |-> "leaf", id |-> id]
And(l, r) == [k |-> "and", l |-> l, r |-> r]
Binary(l, r) == [k |-> "binary", l |-> l, r |-> r]
Paren(e) == [k |-> "paren", e |-> e]

RECURSIVE ExprsOfDepth(_)
ExprsOfDepth(n) ==
    IF n = 0 THEN {Leaf("a"), Leaf("b")}
    ELSE LET E == ExprsOfDepth(n - 1)
         IN  E \cup {And(l, r) : l, r \in E} \cup {Binary(l, r) : l, r \in E}
               \cup {Paren(e) : e \in E}

(* WHERE expressions over two leaves: every expression of depth two, and *)
(* at depth three each of those under a parenthesis, or as the left      *)
(* operand of an AND or another binary operation whose right operand has *)
(* depth at most one; and the missing WHERE.                              *)
MCMaxExprDepth == 3
MCWhereExprs ==
    LET E2 == ExprsOfDepth(2)
        E1 == ExprsOfDepth(1)
    IN  E2 \cup {Paren(e) : e \in E2} \cup {And(l, r) : l \in E2, r \in E1}
           \cup {Binary(l, r) : l \in E2, r \in E1} \cup {NilExpr}
=============================================================================
