---------------------------- MODULE MC_MemoGroup ----------------------------
(* Model-checking instance of MemoGroup: three operator kinds over two    *)
(* operand Groups (six distinct GroupExprs, so every interleaving of up   *)
(* to six members is reached), and three structurally distinct physical  *)
(* properties: no ordering, ascending and descending on one column.      *)
EXTENDS MemoGroup, TLC

MCPhysProps ==
    { <<>>,
      << [col |-> "a", desc |-> FALSE] >>,
      << [col |-> "a", desc |-> TRUE] >> }

MCSymmetry == Permutations(ChildGroups) \cup Permutations(Impls)
=============================================================================
