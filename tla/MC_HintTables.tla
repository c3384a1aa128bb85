---------------------------- MODULE MC_HintTables ----------------------------
(* Two hint kinds, two table names in two databases and two query blocks; *)
(* each hint lists up to two tables, with or without a QB_NAME, and each  *)
(* of up to three queries passes one or two tables (a join's two sides),  *)
(* any of them possibly not a plain table.                                *)
EXTENDS HintTables, TLC

SeqsUpTo(S, n) == UNION { [1..k -> S] : k \in 0..n }

MCHintLists == SeqsUpTo(HintTable, 2)
MCQueryArgs == SeqsUpTo(Key \cup {Nil}, 2) \ {<<>>}

MCSymmetry == Permutations(Kinds) \cup Permutations(TableNames)

=============================================================================
