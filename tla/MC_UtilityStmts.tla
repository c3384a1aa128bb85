-------------------------- MODULE MC_UtilityStmts --------------------------
(* ANALYZE statements over two tables: every combination of handle primary *)
(* key, column kinds, index lists and partitioning for ANALYZE TABLE t and  *)
(* ANALYZE TABLE t INDEX, a few pairs of tables (one listed twice), and     *)
(* option lists of up to two options around the scaled limits.  SPLIT      *)
(* TABLE and SPLIT INDEX on a two-column index (and on a missing index): BY *)
(* lists of one or two rows of up to three values, and BETWEEN bounds of up *)
(* to three values, with region counts around the limit.  INSERT, as in    *)
(* MC_InsertPlan: every form over tables of two or three columns in which  *)
(* no generated column reads another.                                      *)
EXTENDS UtilityStmts, Integers, Sequences, SequencesExt

CONSTANTS t1, t2

OptTypeNames == {"buckets", "width", "depth", "samples"}   \* Analyze!OptTypes
MCOptionLimit == [o \in OptTypeNames |-> 4]
MCOptionDefault == [o \in OptTypeNames |-> IF o = "depth" THEN 1 ELSE 2]

IndexLists == {<<>>, <<[name |-> "i1", public |-> TRUE]>>,
               <<[name |-> "i1", public |-> FALSE]>>,
               <<[name |-> "i1", public |-> TRUE], [name |-> "primary", public |-> TRUE]>>}
ColSets == {{}, {"virtual"}, {"stored"}, {"plain", "virtual"}}
Partitionings == {[partitioned |-> FALSE, parts |-> <<>>],
                  [partitioned |-> TRUE, parts |-> <<"p1", "p2">>]}

(* A handle primary key has no index entry of its own. *)
Shapes(id) ==
    {t \in [id : {id}, view : {FALSE}, pkIsHandle : BOOLEAN, cols : ColSets,
            indices : IndexLists, partitioned : BOOLEAN, parts : {<<>>, <<"p1", "p2">>}] :
        /\ [partitioned |-> t.partitioned, parts |-> t.parts] \in Partitionings
        /\ t.pkIsHandle => \A k \in DOMAIN t.indices : t.indices[k].name # "primary"}

View(id) == [id |-> id, view |-> TRUE, pkIsHandle |-> FALSE, cols |-> {"plain"},
             indices |-> <<>>, partitioned |-> FALSE, parts |-> <<>>]

Plain(id, p) == [id |-> id, view |-> FALSE, pkIsHandle |-> TRUE, cols |-> {"plain"},
                 indices |-> <<[name |-> "i1", public |-> TRUE]>>,
                 partitioned |-> p, parts |-> IF p THEN <<"p1", "p2">> ELSE <<>>]

TableLists ==
    {<<t>> : t \in Shapes(t1) \cup {View(t1)}}
    \cup UNION {{<<Plain(t1, p), u>> : u \in {Plain(t1, p), Plain(t2, TRUE), View(t2)}} :
                p \in BOOLEAN}

PartitionLists == {<<>>, <<"p1">>, <<"p3">>, <<"p1", "p1">>, <<"p2", "p1">>}
IndexNameLists == {<<>>, <<"i1">>, <<"primary">>, <<"i1", "primary">>, <<"i1", "i1">>}

TableStmts ==
    [tbls : TableLists, partitionNames : PartitionLists, indexFlag : {FALSE},
     indexNames : {<<>>}, opts : {<<>>}, fastAnalyze : {FALSE}, tikv : {TRUE}]
IndexStmts ==
    {s \in [tbls : TableLists, partitionNames : PartitionLists, indexFlag : {TRUE},
            indexNames : IndexNameLists, opts : {<<>>}, fastAnalyze : {FALSE}, tikv : {TRUE}] :
        Len(s.tbls) = 1}

MCOpts == [type : OptTypeNames, value : 0..5]
OptLists == {<<>>} \cup {<<o>> : o \in MCOpts} \cup {<<o, p>> : o, p \in MCOpts}
OptionStmts ==
    [tbls : {<<Plain(t1, FALSE)>>}, partitionNames : {<<>>}, indexFlag : {FALSE},
     indexNames : {<<>>}, opts : OptLists, fastAnalyze : BOOLEAN, tikv : BOOLEAN]

MCAnalyzeStmts == TableStmts \cup IndexStmts \cup OptionStmts

MCIndexCols == [i \in {"idx"} |-> 2]

Rows == UNION {[1..n -> {"lit", "colRef", "trunc", "bad"}] : n \in 0..3}
Targets == {"", "idx", "missing"}   \* "": SPLIT TABLE

ByStmts ==
    [indexName : Targets, valueLists : {<<r>> : r \in Rows} \cup {<<r, q>> : r, q \in Rows},
     lower : {<<>>}, upper : {<<>>}, num : {0}]
BetweenStmts ==
    [indexName : Targets, valueLists : {<<>>}, lower : Rows, upper : Rows,
     num : {0, 1, SplitRegionMaxNum, SplitRegionMaxNum + 1}]

AllSplitStmts == ByStmts \cup BetweenStmts

(* SPLIT TABLE / SPLIT INDEX ... BY with an empty row is left to its own *)
(* run (split_region_empty_row).                                          *)
MCSplitStmts ==
    {s \in AllSplitStmts :
        ~(s.indexName \in {"", "idx"} /\ \E k \in 1..Len(s.valueLists) : s.valueLists[k] = <<>>)}
InsertValueKinds == {"value", "default", "defaultNamed"}   \* InsertPlan!ValueKinds
ColGen(cols, n) == \E k \in 1..Len(cols) : cols[k].name = n /\ cols[k].gen
MCInsertColNames == {"a", "b", "c"}
Order == <<"a", "b", "c">>

SeqsUpTo(X, n) == UNION { [1..k -> X] : k \in 0..n }
DistinctSeqs(X, lo, hi) ==
    { q \in UNION { [1..k -> X] : k \in lo..hi } : IsInjective(q) }

(* Column k of the table: plain, or generated from earlier columns. *)
ColChoices(k) ==
    { [name |-> Order[k], gen |-> FALSE, deps |-> {}] } \cup
    { [name |-> Order[k], gen |-> TRUE, deps |-> d] :
        d \in SUBSET { Order[j] : j \in 1..k-1 } \ {{}} }

AllTables ==
    { [cols |-> q, isView |-> FALSE] :
        q \in UNION { { q \in [1..n -> UNION { ColChoices(k) : k \in 1..n }] :
                          \A k \in 1..n : q[k] \in ColChoices(k) } : n \in 2..3 } }

(* A generated column reading another generated column. *)
HasChain(t) ==
    \E k \in 1..Len(t.cols) : t.cols[k].gen /\
        \E d \in t.cols[k].deps : ColGen(t.cols, d)

InsertView == [cols |-> <<[name |-> "a", gen |-> FALSE, deps |-> {}],
                    [name |-> "b", gen |-> FALSE, deps |-> {}]>>, isView |-> TRUE]

InsertPlain(t) == [tbl |-> t, columns |-> <<>>, setlist |-> <<>>, lists |-> <<>>,
             selectWidth |-> 0, onDup |-> <<>>]

TableNames(t) == {c.name : c \in ToSet(t.cols)}
Assignments(t) == [col : TableNames(t), kind : InsertValueKinds]
AssignSeqs(t) == { q \in SeqsUpTo(Assignments(t), 2) :
                     q # <<>> /\ IsInjective([i \in 1..Len(q) |-> q[i].col]) }

Lists ==
    { <<r>> : r \in SeqsUpTo(InsertValueKinds, 3) } \cup
    { <<r1, r2>> : r1 \in SeqsUpTo(InsertValueKinds, 3),
                   r2 \in SeqsUpTo({"value", "default"}, 3) }

ColumnLists == DistinctSeqs(MCInsertColNames, 0, 3)

InsertValuesStmts(T) ==
    { s \in [tbl : T, columns : ColumnLists, setlist : {<<>>}, lists : Lists,
             selectWidth : {0}, onDup : {<<>>}] :
        ToSet(s.columns) \subseteq TableNames(s.tbl) }

InsertSetStmts(T) ==
    UNION { { [InsertPlain(t) EXCEPT !.setlist = a] : a \in AssignSeqs(t) } : t \in T }

InsertSelectStmts(T) ==
    { s \in [tbl : T, columns : ColumnLists, setlist : {<<>>}, lists : {<<>>},
             selectWidth : 0..3, onDup : {<<>>}] :
        ToSet(s.columns) \subseteq TableNames(s.tbl) }

InsertOnDupStmts(T) ==
    UNION { { [InsertPlain(t) EXCEPT !.lists = <<<<>>>>, !.onDup = a] : a \in AssignSeqs(t) }
            : t \in T }

NoChainTables == { t \in AllTables : ~HasChain(t) } \cup {InsertView}
ChainTables == { t \in AllTables : HasChain(t) }

MCInsertStmts ==
    InsertValuesStmts(NoChainTables) \cup InsertSetStmts(NoChainTables)
      \cup InsertSelectStmts(NoChainTables) \cup InsertOnDupStmts(NoChainTables)


(* ON DUPLICATE KEY UPDATE on tables where generated columns read others. *)
MCInsertStmtsChain == InsertOnDupStmts(ChainTables)
=============================================================================
