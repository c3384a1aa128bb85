---------------------------- MODULE AccessPaths ----------------------------
(***************************************************************************)
(* Index-hint resolution of the plan builder (planner/core/planbuilder.go):*)
(* getPossibleAccessPaths turns a table's public paths and the statement's *)
(* index hints (syntax-level USE/FORCE/IGNORE INDEX, then comment-style    *)
(* /*+ USE_INDEX(t, ...) */ hints of the same table) into the candidate    *)
(* access paths; filterPathByIsolationRead then keeps the paths whose      *)
(* store the session's isolation-read engines allow.  The builder runs     *)
(* the two for one table of one statement; a step of this module is one   *)
(* such compile, with the statement chosen from a bounded set.            *)
(***************************************************************************)
EXTENDS Integers, Sequences, FiniteSets, SequencesExt

CONSTANTS
    IndexOrder,   \* index names in table-definition order (tblInfo.Indices)
    Primary,      \* the index name "primary"
    TiKV, TiFlash, TiDB,   \* store types (kv.StoreType)
    Stmts         \* the statements to compile (see StmtType)

HintKinds == {"use", "force", "ignore"}   \* ast.HintUse / HintForce / HintIgnore
IndexNames == ToSet(IndexOrder)
HintNames == IndexNames \cup {Primary}
StoreTypes == {TiKV, TiFlash, TiDB}
NoIndex == "none"

ASSUME Primary \notin IndexNames

(* One ast.IndexHint: kind, whether its scope is FOR SCAN, index names.    *)
(* An empty list is the parser's nil IndexNames ("USE INDEX ()").         *)
Hint == [kind : HintKinds, scan : BOOLEAN, names : Seq(HintNames)]

(* A table as the builder sees it: public indices, whether the integer    *)
(* primary key is the handle, an available TiFlash replica, and whether   *)
(* it is a cluster memory table (served by TiDB itself).                  *)
Table == [indices : SUBSET IndexNames, pkIsHandle : BOOLEAN,
          tiflash : BOOLEAN, cluster : BOOLEAN]

(* A statement: its table, its syntax-level hints, the comment-style hints *)
(* naming that table, and the session's isolation-read engines.           *)
StmtType == [tbl : Table, syntax : Seq(Hint), comment : Seq(Hint),
             engines : SUBSET StoreTypes]

Path == [table : BOOLEAN, store : StoreTypes, index : IndexNames \cup {NoIndex},
         forced : BOOLEAN]

Pending == [status |-> "pending", paths |-> <<>>, warnings |-> 0]

VARIABLES
    stmt,         \* the statement being compiled
    candidates,   \* getPossibleAccessPaths' result (ds.possibleAccessPaths)
    result        \* Pending, or the outcome of resolving its access paths

vars == <<stmt, candidates, result>>

-----------------------------------------------------------------------------
(* getPossibleAccessPaths: the public paths, in the order the code builds *)
(* them: the table path, a TiFlash table path, then every public index.   *)
PublicPaths(t) ==
    LET idx == SelectSeq(IndexOrder, LAMBDA n : n \in t.indices)
        row == [table |-> TRUE, store |-> IF t.cluster THEN TiDB ELSE TiKV,
                index |-> NoIndex, forced |-> FALSE]
        tf  == [table |-> TRUE, store |-> TiFlash, index |-> NoIndex, forced |-> FALSE]
    IN  <<row>> \o (IF t.tiflash THEN <<tf>> ELSE <<>>)
          \o [i \in 1..Len(idx) |-> [table |-> FALSE, store |-> TiKV,
                                     index |-> idx[i], forced |-> FALSE]]

isPrimaryIndex(n) == n = Primary

(* getPathByIndexName: position in paths of the first index path with this *)
(* name; for "primary" on a PK-handle table, the LAST table path seen.     *)
getPathByIndexName(paths, n, t) ==
    LET ip == SelectInSeq(paths, LAMBDA p : ~p.table /\ p.index = n)
        tp == SelectLastInSeq(paths, LAMBDA p : p.table)
    IN  IF ip # 0 THEN ip
        ELSE IF isPrimaryIndex(n) /\ t.pkIsHandle THEN tp ELSE 0

(* getTablePath (outside src/): the first table path. *)
getTablePath(paths) == SelectInSeq(paths, LAMBDA p : p.table)

(* Loop state of getPossibleAccessPaths; available/ignored hold positions *)
(* in the public paths, since the code appends pointers to those paths.   *)
LoopInit == [available |-> <<>>, ignored |-> <<>>, forced |-> {},
             hasScanHint |-> FALSE, hasUseOrForce |-> FALSE,
             warnings |-> 0, err |-> FALSE]

(* Force the path at position p: path.Forced = true; append to available. *)
ForcePath(a, p) ==
    [a EXCEPT !.hasUseOrForce = TRUE, !.forced = @ \cup {p},
              !.available = Append(@, p)]

(* Mutant: the 0-based "i < indexHintsLen" kept on 1-based hint numbers. *)
ResolveNameOffByOne(a, n, i, h, s) ==
    LET p == getPathByIndexName(PublicPaths(s.tbl), n, s.tbl)
    IN  IF a.err THEN a
        ELSE IF p = 0
          THEN IF i < Len(s.syntax)
                 THEN [a EXCEPT !.err = TRUE]
                 ELSE [a EXCEPT !.warnings = @ + 1]
        ELSE IF h.kind = "ignore" THEN [a EXCEPT !.ignored = Append(@, p)]
        ELSE ForcePath(a, p)

(* One index name of hint number i (syntax hints come first). *)
ResolveName(a, n, i, h, s) ==
    LET public == PublicPaths(s.tbl)
        p == getPathByIndexName(public, n, s.tbl)
    IN  IF a.err THEN a
        ELSE IF p = 0
          THEN IF i <= Len(s.syntax)
                 THEN [a EXCEPT !.err = TRUE]
                 ELSE [a EXCEPT !.warnings = @ + 1]
        ELSE IF h.kind = "ignore" THEN [a EXCEPT !.ignored = Append(@, p)]
        ELSE ForcePath(a, p)

(* One hint of the loop: non-scan hints are skipped; "USE/FORCE INDEX ()" *)
(* forces the table path; then every index name is resolved.             *)
ProcessHint(a, i, s) ==
    LET hints == s.syntax \o s.comment
        h  == hints[i]
        tp == getTablePath(PublicPaths(s.tbl))
        a1 == [a EXCEPT !.hasScanHint = TRUE]
        a2 == IF h.names = <<>> /\ h.kind # "ignore" /\ tp # 0
                THEN ForcePath(a1, tp) ELSE a1
    IN  IF a.err \/ ~h.scan THEN a
        ELSE FoldLeft(LAMBDA acc, n : ResolveName(acc, n, i, h, s), a2, h.names)

(* Mutant: the ignored paths are collected but never removed. *)
removeIgnoredPathsNone(public, avail, ignored, t) == avail

(* removeIgnoredPaths: table paths always stay; an index path goes when an *)
(* ignored path carries its name.                                          *)
removeIgnoredPaths(public, avail, ignored, t) ==
    LET ignoredPaths == [j \in 1..Len(ignored) |-> public[ignored[j]]]
    IN  IF ignored = <<>> THEN avail
        ELSE SelectSeq(avail, LAMBDA q : public[q].table
                          \/ getPathByIndexName(ignoredPaths, public[q].index, t) = 0)

(* The fallback &util.AccessPath{IsTablePath: true}: its StoreType is the  *)
(* zero value, kv.TiKV, even for a cluster memory table.                  *)
TableScan == [table |-> TRUE, store |-> TiKV, index |-> NoIndex, forced |-> FALSE]

(* Mutant: no table scan is added when every candidate was ignored. *)
WithFallbackNone(paths) == paths

(* "If we have got FORCE or USE index hint but got no available index, we *)
(* have to use table scan."                                               *)
WithFallback(paths) == IF paths = <<>> THEN <<TableScan>> ELSE paths

getPossibleAccessPaths(s) ==
    LET public == PublicPaths(s.tbl)
        hints  == s.syntax \o s.comment
        a == FoldLeft(LAMBDA acc, i : ProcessHint(acc, i, s), LoopInit,
                      [i \in 1..Len(hints) |-> i])
        avail == IF ~a.hasScanHint \/ ~a.hasUseOrForce
                   THEN [q \in 1..Len(public) |-> q] ELSE a.available
        kept == removeIgnoredPaths(public, avail, a.ignored, s.tbl)
        paths == [j \in 1..Len(kept) |->
                    [public[kept[j]] EXCEPT !.forced = kept[j] \in a.forced]]
    IN  IF a.err
          THEN [status |-> "KeyDoesNotExist", paths |-> <<>>, warnings |-> a.warnings]
          ELSE [status |-> "ok", warnings |-> a.warnings, paths |-> WithFallback(paths)]

(* filterPathByIsolationRead: drop the paths of disallowed stores; no path *)
(* left is an internal error.                                              *)
filterPathByIsolationRead(r, engines) ==
    LET kept == SelectSeq(r.paths, LAMBDA p : p.store \in engines)
    IN  [r EXCEPT !.paths = kept,
                  !.status = IF kept = <<>> THEN "NoAccessPath" ELSE @]

(* buildDataSource (outside src/) runs the two in this order. *)
ResolveAccessPaths(r, s) ==
    IF r.status # "ok" THEN r ELSE filterPathByIsolationRead(r, s.engines)

-----------------------------------------------------------------------------
Init ==
    /\ stmt \in Stmts
    /\ candidates = Pending
    /\ result = Pending

Compile ==
    /\ result = Pending
    /\ candidates' = getPossibleAccessPaths(stmt)
    /\ result' = ResolveAccessPaths(candidates', stmt)
    /\ UNCHANGED stmt

Next == Compile

Spec == Init /\ [][Next]_vars

-----------------------------------------------------------------------------
(* Properties, stated from spec 4.1 and 8 over the statement's hints. *)

AllHints(s) == s.syntax \o s.comment

(* An index name resolves when the table has it as a public index, or it  *)
(* is "primary" and the primary key is the handle.                        *)
Resolves(n, t) == n \in t.indices \/ (n = Primary /\ t.pkIsHandle)

(* The (hint number, name position) pairs whose name does not resolve. *)
Unresolved(s, from, to) ==
    { <<i, j>> \in (from..to) \X (1..3) :
        j <= Len(AllHints(s)[i].names)
        /\ ~Resolves(AllHints(s)[i].names[j], s.tbl) }

(* A syntax-level hint naming a missing index fails the compile; the same *)
(* name in a comment-style hint only adds one warning per name and the    *)
(* compile goes on (getPossibleAccessPaths, the i < indexHintsLen test).  *)
HintErrorsAsSpecified ==
    result # Pending =>
      /\ (result.status = "KeyDoesNotExist")
            <=> Unresolved(stmt, 1, Len(stmt.syntax)) # {}
      /\ result.status # "KeyDoesNotExist" =>
            result.warnings = Cardinality(Unresolved(stmt, Len(stmt.syntax) + 1,
                                                     Len(AllHints(stmt))))

(* The candidate paths, stated without the loop: the paths named by a     *)
(* resolving USE/FORCE scan hint, all forced, or every public path when   *)
(* there is none; minus the index paths named by an IGNORE hint; and a    *)
(* plain table scan when nothing is left.                                 *)
SpecifiedPaths(s) ==
    LET t == s.tbl
        public == ToSet(PublicPaths(t))
        useForce == { h \in ToSet(AllHints(s)) : h.scan /\ h.kind # "ignore" }
        named == { p \in public :
                     \E h \in useForce :
                        \/ h.names = <<>> /\ p = PublicPaths(t)[1]
                        \/ \E n \in ToSet(h.names) :
                              \/ ~p.table /\ p.index = n
                              \/ p.table /\ n = Primary /\ t.pkIsHandle }
        ignoredNames == { n \in t.indices :
                            \E h \in ToSet(AllHints(s)) :
                               h.scan /\ h.kind = "ignore" /\ n \in ToSet(h.names) }
        cand == IF named = {} THEN public ELSE named
        kept == { p \in cand : p.table \/ p.index \notin ignoredNames }
    IN  IF kept = {}
          THEN { [table |-> TRUE, store |-> TiKV, index |-> NoIndex, forced |-> FALSE] }
          ELSE { [p EXCEPT !.forced = named # {}] : p \in kept }

(* Before isolation-read filtering, a successful compile yields exactly   *)
(* the specified candidate paths.                                         *)
PathsAsSpecified ==
    candidates.status = "ok" => ToSet(candidates.paths) = SpecifiedPaths(stmt)

(* A compile whose hints all resolve never fails for want of an access    *)
(* path while the isolation-read engines allow the table's own row store:*)
(* "hints that resolve to no usable path fall back to a full scan rather  *)
(* than failing" (spec 4.1).                                              *)
RowStoreAlwaysUsable ==
    (result # Pending /\ PublicPaths(stmt.tbl)[1].store \in stmt.engines)
        => result.status # "NoAccessPath"

=============================================================================
