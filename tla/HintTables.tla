---------------------------- MODULE HintTables ----------------------------
(***************************************************************************)
(* Table-level optimizer hints of the plan builder (planbuilder.go):      *)
(* tableNames2HintTableInfo turns the tables a hint names into            *)
(* hintTableInfo entries (database, table, query-block offset, matched);  *)
(* each ifPrefer* query (ifPreferHashJoin, ifPreferTiFlash, ...) calls    *)
(* matchTableName, which answers whether one of the given tables is on    *)
(* that hint's list and marks the entry it matched; at the end of the     *)
(* block, extractUnmatchedTables lists the entries never matched, which   *)
(* the builder reports as inapplicable hints.  One hint list is kept per  *)
(* hint kind, and queries against them interleave in any order as the    *)
(* joins and data sources of the block are built.                         *)
(***************************************************************************)
EXTENDS Integers, Sequences, FiniteSets, SequencesExt

CONSTANTS
    Kinds,       \* hint kinds with a table list (HASH_JOIN, READ_FROM_STORAGE(TIFLASH[...]), ...)
    TableNames,  \* table names a hint or a query may carry
    DBNames,     \* database names
    CurrentDB,   \* the session's current database
    Offsets,     \* query-block (select) offsets
    HintOffset,  \* the offset of the block whose comment holds the hints
    NoQB,        \* a hint table without a QB_NAME
    Nil,         \* a query side that is not a plain table
    HintLists,   \* the table lists a hint may carry (sequences of HintTable)
    QueryArgs,   \* the table lists a query may pass (sequences of Key or Nil)
    MaxQueries   \* bound on the ifPrefer* calls of one build

ASSUME CurrentDB \in DBNames /\ HintOffset \in Offsets /\ NoQB \notin Offsets

(* An ast.HintTable: a table name and an optional query block. *)
HintTable == [tbl : TableNames, qb : Offsets \cup {NoQB}]

(* A table as the builder passes it to a query. *)
Key == [db : DBNames, tbl : TableNames, offset : Offsets]

VARIABLES
    hintTables,  \* kind -> Seq of hintTableInfo ([db, tbl, offset, matched])
    queried,     \* ghost: kind -> the tables passed to that kind's queries
    answer,      \* the result of the last matchTableName (FALSE before any)
    queries,     \* number of queries so far
    unmatched    \* kind -> names reported unmatched at the end of the block, or Nil

vars == <<hintTables, queried, answer, queries, unmatched>>

KeyOf(e) == [db |-> e.db, tbl |-> e.tbl, offset |-> e.offset]

-----------------------------------------------------------------------------
(* Mutant: a hint without QB_NAME keeps no offset of its own. *)
getHintOffsetNoDefault(qb) == qb

(* getHintOffset (BlockHintProcessor, outside this repository): the QB_NAME's *)
(* block when one is given, else the block the hint is written in.       *)
getHintOffset(qb) == IF qb = NoQB THEN HintOffset ELSE qb

(* tableNames2HintTableInfo: the entry takes the table name and the hint's *)
(* offset; its database is never taken from the hint, so the empty-name   *)
(* test always fills in the current database.                             *)
tableNames2HintTableInfo(hts) ==
    [i \in 1..Len(hts) |->
        [db |-> CurrentDB, tbl |-> hts[i].tbl,
         offset |-> getHintOffset(hts[i].qb), matched |-> FALSE]]

(* Mutant: the select offset is left out of the comparison. *)
EntryMatchesNoOffset(e, t) == e.db = t.db /\ e.tbl = t.tbl

EntryMatches(e, t) ==
    e.db = t.db /\ e.tbl = t.tbl /\ t.offset = e.offset

(* Mutant: the search stops at the first table that matches. *)
matchTableNameFirstOnly(tables, hts) ==
    LET hit(t) == IF t = Nil THEN 0 ELSE SelectInSeq(hts, LAMBDA e : EntryMatches(e, t))
        firstT == SelectInSeq(tables, LAMBDA t : hit(t) # 0)
        marked == IF firstT = 0 THEN {} ELSE {hit(tables[firstT])}
    IN  [matched |-> firstT # 0,
         hints |-> [i \in 1..Len(hts) |-> [hts[i] EXCEPT !.matched = @ \/ i \in marked]]]

(* matchTableName: for every non-nil table, the first entry equal to it in *)
(* database, name and select offset is marked matched; the answer is     *)
(* whether any table matched.                                             *)
matchTableName(tables, hts) ==
    LET hit(t) == IF t = Nil THEN 0 ELSE SelectInSeq(hts, LAMBDA e : EntryMatches(e, t))
        marked == { hit(tables[j]) : j \in 1..Len(tables) } \ {0}
    IN  [matched |-> marked # {},
         hints |-> [i \in 1..Len(hts) |-> [hts[i] EXCEPT !.matched = @ \/ i \in marked]]]

(* Mutant: the matched flag is not consulted. *)
extractUnmatchedTablesAll(hts) == [i \in 1..Len(hts) |-> hts[i].tbl]

(* extractUnmatchedTables: the names of the entries never matched. *)
extractUnmatchedTables(hts) ==
    [i \in 1..Len(SelectSeq(hts, LAMBDA e : ~e.matched)) |->
        SelectSeq(hts, LAMBDA e : ~e.matched)[i].tbl]

-----------------------------------------------------------------------------
(* The hints of one block, as the builder records them from the parsed    *)
(* statement.                                                             *)
Init ==
    /\ \E hs \in [Kinds -> HintLists] :
         hintTables = [k \in Kinds |-> tableNames2HintTableInfo(hs[k])]
    /\ queried = [k \in Kinds |-> {}]
    /\ answer = FALSE
    /\ queries = 0
    /\ unmatched = Nil

(* ifPrefer<kind>(tables...): one matchTableName against that kind's list. *)
Prefer(k, tables) ==
    /\ unmatched = Nil /\ queries < MaxQueries
    /\ LET r == matchTableName(tables, hintTables[k])
       IN  /\ hintTables' = [hintTables EXCEPT ![k] = r.hints]
           /\ answer' = r.matched
    /\ queried' = [queried EXCEPT ![k] = @ \cup (ToSet(tables) \ {Nil})]
    /\ queries' = queries + 1
    /\ UNCHANGED unmatched

(* The block is built: every kind's unmatched entries are reported. *)
EndBlock ==
    /\ unmatched = Nil
    /\ unmatched' = [k \in Kinds |-> extractUnmatchedTables(hintTables[k])]
    /\ UNCHANGED <<hintTables, queried, answer, queries>>

Next ==
    \/ \E k \in Kinds, tables \in QueryArgs : Prefer(k, tables)
    \/ EndBlock

Spec == Init /\ [][Next]_vars

-----------------------------------------------------------------------------
(* Properties *)

TypeOK ==
    /\ \A k \in Kinds : hintTables[k] \in Seq([db : DBNames, tbl : TableNames,
                                               offset : Offsets, matched : BOOLEAN])
    /\ queried \in [Kinds -> SUBSET Key]
    /\ answer \in BOOLEAN
    /\ queries \in 0..MaxQueries
    /\ unmatched = Nil \/ unmatched \in [Kinds -> Seq(TableNames)]

(* An entry is marked matched only after some query of its own kind has  *)
(* passed a table equal to it in database, name and query block: a hint  *)
(* written for one block is never consumed by a same-named table of     *)
(* another block, nor by another kind's query.                           *)
MatchedOnlyWhenQueried ==
    \A k \in Kinds : \A i \in 1..Len(hintTables[k]) :
        hintTables[k][i].matched => KeyOf(hintTables[k][i]) \in queried[k]

(* Every entry that some query of its kind has asked about is marked     *)
(* matched, whichever table of the query's list it was and whatever the  *)
(* order of the queries, unless an earlier entry of the list names the   *)
(* same table.                                                           *)
QueriedEntriesMatched ==
    \A k \in Kinds : \A i \in 1..Len(hintTables[k]) :
        LET e == hintTables[k][i]
        IN  (KeyOf(e) \in queried[k]
             /\ \A j \in 1..i-1 : KeyOf(hintTables[k][j]) # KeyOf(e))
            => e.matched

(* The report at the end of the block names, per kind, exactly the tables *)
(* of the entries no query of that kind asked about, in hint order, and   *)
(* one name for each later copy of an entry listed twice.                *)
UnmatchedReportExact ==
    unmatched # Nil =>
      \A k \in Kinds :
        LET h == hintTables[k]
            unused(i) == KeyOf(h[i]) \notin queried[k]
                         \/ \E j \in 1..i-1 : KeyOf(h[j]) = KeyOf(h[i])
        IN  unmatched[k] = [i \in 1..Len(SelectSeq([j \in 1..Len(h) |-> j], unused)) |->
                              h[SelectSeq([j \in 1..Len(h) |-> j], unused)[i]].tbl]

=============================================================================
