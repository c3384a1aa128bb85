--------------------------- MODULE SplitRegion ---------------------------
(***************************************************************************)
(* Planning of SPLIT TABLE / SPLIT INDEX (planner/core/planbuilder.go,    *)
(* buildSplitRegion, buildSplitIndexRegion, buildSplitTableRegion,        *)
(* convertValue2ColumnType and convertValue).  A statement splits either *)
(* BY a list of value rows, or BETWEEN a lower and an upper row into a   *)
(* number of REGIONS.  Each value is converted to the type of the column *)
(* it stands for; a value is abstracted to the outcome of that           *)
(* conversion: a literal that converts, a column reference (rewritten    *)
(* against the table's schema to a non-constant), a literal the column   *)
(* type truncates, and a literal the conversion rejects otherwise.       *)
(* A step of this module is the compile of one statement.                *)
(***************************************************************************)
EXTENDS Integers, Sequences, FiniteSets, SequencesExt

CONSTANTS
    IndexNames,         \* index names of the table
    IndexCols,          \* index name -> number of its columns
    SplitRegionMaxNum,  \* config SplitRegionMaxNum
    Stmts               \* the SPLIT statements to compile (see StmtType)

ValueKinds == {"lit", "colRef", "trunc", "bad"}
NoIndex == ""   \* SPLIT TABLE: the statement names no index

StmtType == [indexName : IndexNames \cup {NoIndex, "missing"},
             valueLists : Seq(Seq(ValueKinds)),
             lower : Seq(ValueKinds), upper : Seq(ValueKinds), num : Int]

(* The outcome: an error and the 1-based row it names, or the plan's     *)
(* value rows, bounds and region count.                                   *)
Outcome(status, row, lists, lower, upper, num) ==
    [status |-> status, row |-> row, lists |-> lists,
     lower |-> lower, upper |-> upper, num |-> num]
Fail(status, row) == Outcome(status, row, <<>>, <<>>, <<>>, 0)
Pending == Fail("pending", 0)

VARIABLES
    stmt,     \* the statement being compiled
    result    \* Pending, or the outcome of buildSplitRegion

vars == <<stmt, result>>

-----------------------------------------------------------------------------
(* convertValue: a non-constant after rewriting is "Expect constant      *)
(* values"; a truncation is reported as ErrTruncated (whether or not the *)
(* value prints); any other conversion error is returned as it is.       *)
convertValue(v) ==
    CASE v = "lit"    -> "ok"
      [] v = "colRef" -> "ExpectConstant"
      [] v = "trunc"  -> "Truncated"
      [] v = "bad"    -> "ConvertError"

(* convertValue2ColumnType, and the single-value conversions of SPLIT    *)
(* TABLE: the first value that fails decides, values in order.           *)
convertValues(vs) ==
    LET j == SelectInSeq(vs, LAMBDA v : convertValue(v) # "ok")
    IN  IF j = 0 THEN "ok" ELSE convertValue(vs[j])

(* Mutant: every row's count is checked before any row is converted. *)
CheckRowsCountsFirst(lists, width, handle) ==
    LET cnt == SelectInSeq(lists, LAMBDA r : Len(r) > width)
        cv == SelectInSeq(lists, LAMBDA r : convertValues(r) # "ok")
    IN  IF cnt # 0 THEN Fail("WrongValueCountOnRow", cnt)
        ELSE IF cv # 0 THEN Fail(convertValues(lists[cv]), 0)
        ELSE Outcome("ok", 0, lists, <<>>, <<>>, 0)

(* The BY form: row i is checked against the width (too many values is   *)
(* "wrong value count on row i"), then converted, before row i + 1.      *)
(* SPLIT TABLE (handle) takes valuesItem[0] even of a row with no value.  *)
CheckRows(lists, width, handle) ==
    LET bad(r) == Len(r) > width \/ convertValues(r) # "ok" \/ (r = <<>> /\ handle)
        i == SelectInSeq(lists, bad)
    IN  IF i = 0 THEN Outcome("ok", 0, lists, <<>>, <<>>, 0)
        ELSE IF Len(lists[i]) > width THEN Fail("WrongValueCountOnRow", i)
        ELSE IF lists[i] = <<>> /\ handle THEN Fail("IndexOutOfRange", i)
        ELSE Fail(convertValues(lists[i]), 0)

(* Mutant: an empty bound is accepted. *)
CheckIndexBoundNoEmpty(vs, width) ==
    IF Len(vs) > width THEN "BoundCount" ELSE convertValues(vs)

(* checkLowerUpperValue of SPLIT INDEX: at least one value, at most one  *)
(* per index column, each converted.                                      *)
CheckIndexBound(vs, width) ==
    IF vs = <<>> THEN "BoundEmpty"
    ELSE IF Len(vs) > width THEN "BoundCount"
    ELSE convertValues(vs)

(* checkLowerUpperValue of SPLIT TABLE: exactly one value, converted. *)
CheckTableBound(vs) ==
    IF Len(vs) # 1 THEN "BoundCount" ELSE convertValue(vs[1])

(* Mutant: a count below one is not rejected. *)
CheckNumNoLowerBound(n) ==
    IF n > SplitRegionMaxNum THEN "NumExceeded" ELSE "ok"

(* The region count, checked last. *)
CheckNum(n) ==
    IF n > SplitRegionMaxNum THEN "NumExceeded"
    ELSE IF n < 1 THEN "NumNotPositive"
    ELSE "ok"

(* The BETWEEN form: the lower bound's check lo, then the upper bound's *)
(* up, then the region count. *)
CheckBounds(s, lo, up) ==
    IF lo # "ok" THEN Fail(lo, 0)
    ELSE IF up # "ok" THEN Fail(up, 0)
    ELSE IF CheckNum(s.num) # "ok" THEN Fail(CheckNum(s.num), 0)
    ELSE Outcome("ok", 0, <<>>, s.lower, s.upper, s.num)

(* buildSplitIndexRegion: the index must exist; value rows hold at most  *)
(* one value per index column. *)
buildSplitIndexRegion(s) ==
    IF s.indexName \notin IndexNames THEN Fail("KeyDoesNotExist", 0)
    ELSE IF s.valueLists # <<>> THEN CheckRows(s.valueLists, IndexCols[s.indexName], FALSE)
    ELSE CheckBounds(s, CheckIndexBound(s.lower, IndexCols[s.indexName]),
                     CheckIndexBound(s.upper, IndexCols[s.indexName]))

(* buildSplitTableRegion: one handle value per row and per bound. *)
buildSplitTableRegion(s) ==
    IF s.valueLists # <<>> THEN CheckRows(s.valueLists, 1, TRUE)
    ELSE CheckBounds(s, CheckTableBound(s.lower), CheckTableBound(s.upper))

(* buildSplitRegion: SPLIT INDEX when an index is named, else SPLIT TABLE. *)
buildSplitRegion(s) ==
    IF s.indexName # NoIndex THEN buildSplitIndexRegion(s) ELSE buildSplitTableRegion(s)

-----------------------------------------------------------------------------
Init ==
    /\ stmt \in Stmts
    /\ result = Pending

(* PlanBuilder.Build on a SplitRegionStmt. *)
Compile ==
    /\ result = Pending
    /\ result' = buildSplitRegion(stmt)
    /\ UNCHANGED stmt

Next == Compile

Spec == Init /\ [][Next]_vars

-----------------------------------------------------------------------------
(* Properties *)

Statuses == {"pending", "ok", "KeyDoesNotExist", "WrongValueCountOnRow",
             "IndexOutOfRange", "ExpectConstant", "Truncated", "ConvertError",
             "BoundEmpty", "BoundCount", "NumExceeded", "NumNotPositive"}

TypeOK ==
    /\ stmt \in StmtType
    /\ result.status \in Statuses
    /\ result.row \in 0..Len(stmt.valueLists)
    /\ result.status = "ok" => result.num \in 0..SplitRegionMaxNum
    /\ result.status = "ok" /\ stmt.valueLists = <<>> => result.num \in 1..SplitRegionMaxNum

(* The number of values a row or bound may carry for the statement: one  *)
(* per index column, or the single handle.                                *)
Width(s) == IF s.indexName = NoIndex THEN 1 ELSE IndexCols[s.indexName]
Convertible(vs) == \A k \in 1..Len(vs) : convertValue(vs[k]) = "ok"

(* SPLIT ... BY: the rows are validated one at a time, so the error       *)
(* reported is the first row that has too many values or a value that    *)
(* does not convert: a count error names that row's 1-based number, and *)
(* a conversion error in an earlier row wins over a count error in a     *)
(* later one; a statement whose rows are all good is planned with them.  *)
SplitRowsCheckedInOrder ==
    (result # Pending /\ stmt.valueLists # <<>>
     /\ (stmt.indexName = NoIndex \/ stmt.indexName \in IndexNames)) =>
      LET rows == stmt.valueLists
          i == SelectInSeq(rows, LAMBDA r : Len(r) > Width(stmt) \/ ~Convertible(r))
      IN  IF i = 0 THEN result.status = "ok" /\ result.lists = rows
          ELSE IF Len(rows[i]) > Width(stmt)
            THEN result.status = "WrongValueCountOnRow" /\ result.row = i
          ELSE result.status = convertValues(rows[i])

(* A SPLIT plan is executable: BY rows hold between one value and one   *)
(* per column (exactly one for SPLIT TABLE), BETWEEN bounds hold at least *)
(* one value and at most one per column, every value converted, and the  *)
(* region count lies in 1..SplitRegionMaxNum.                             *)
SplitPlanWellFormed ==
    result.status = "ok" =>
      IF stmt.valueLists # <<>>
        THEN \A k \in 1..Len(result.lists) :
               Len(result.lists[k]) \in 1..Width(stmt) /\ Convertible(result.lists[k])
        ELSE /\ \A b \in {result.lower, result.upper} :
                  Len(b) \in 1..Width(stmt) /\ Convertible(b)
             /\ result.num \in 1..SplitRegionMaxNum

(* A BY row with no value is a value-count mismatch (spec section 6:     *)
(* SchemaViolation, returned by the builder), rejected as "wrong value   *)
(* count on row N" when it is the first defective row, just as           *)
(* checkLowerUpperValue rejects a lower or upper bound with no value:     *)
(* SPLIT TABLE ... BY () must not index past the empty row, and SPLIT     *)
(* INDEX ... BY () must not plan a split at an empty key.                 *)
SplitEmptyRowRejected ==
    (result # Pending /\ stmt.valueLists # <<>>
     /\ (stmt.indexName = NoIndex \/ stmt.indexName \in IndexNames)) =>
      LET rows == stmt.valueLists
          i == SelectInSeq(rows, LAMBDA r : r = <<>> \/ Len(r) > Width(stmt)
                                             \/ ~Convertible(r))
      IN  (i # 0 /\ rows[i] = <<>>) =>
            result.status = "WrongValueCountOnRow" /\ result.row = i

=============================================================================
