--------------------------- MODULE MC_AccessPaths ---------------------------
(* Every statement over a table with up to two public indices: up to two  *)
(* syntax-level hints of any kind naming at most one index each, at most  *)
(* one comment-style hint naming up to two, and any non-empty set of      *)
(* isolation-read engines.  Names range over both indices and "primary",  *)
(* so every hint can name an index the table lacks.                       *)
EXTENDS AccessPaths

SeqsUpTo(S, n) == UNION { [1..k -> S] : k \in 0..n }

SyntaxHint(scopes) ==
    [kind : HintKinds, scan : scopes, names : SeqsUpTo(HintNames, 1)]
CommentHint ==
    [kind : {"use", "ignore"}, scan : {TRUE}, names : SeqsUpTo(HintNames, 2)]

(* Cluster memory tables have no indices and no TiFlash replica. *)
Tables(tiflash) ==
    { t \in [indices : SUBSET IndexNames, pkIsHandle : BOOLEAN,
             tiflash : tiflash, cluster : BOOLEAN] :
        t.cluster => t.indices = {} /\ ~t.tiflash /\ ~t.pkIsHandle }

StmtsOf(scopes, tiflash) ==
    [tbl : Tables(tiflash), syntax : SeqsUpTo(SyntaxHint(scopes), 2),
     comment : SeqsUpTo(CommentHint, 1), engines : SUBSET StoreTypes \ {{}}]

MCIndexOrder == <<"i1", "i2">>

MCStmts == StmtsOf({TRUE}, {FALSE})

(* Tables that also have an available TiFlash replica. *)
MCStmtsTiFlash == StmtsOf({TRUE}, {TRUE})

(* Syntax-level hints scoped FOR JOIN / FOR ORDER BY as well as FOR SCAN. *)
MCStmtsScopes == StmtsOf(BOOLEAN, {FALSE})
=============================================================================
