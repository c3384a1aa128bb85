---------------------------- MODULE InsertPlan ----------------------------
(***************************************************************************)
(* Planning of INSERT / REPLACE (planner/core/planbuilder.go, buildInsert *)
(* and the functions it calls).  The three forms                          *)
(*   INSERT ... SET col = v, ...          buildSetValuesOfInsert          *)
(*   INSERT [(cols)] VALUES (...), ...    buildValuesListOfInsert         *)
(*   INSERT [(cols)] SELECT ...           buildSelectPlanOfInsert         *)
(* are followed by resolveOnDuplicate (ON DUPLICATE KEY UPDATE list) and  *)
(* resolveGeneratedColumns.  Data is abstracted to what the checks tell  *)
(* apart: a column is its name, whether it is generated and the columns  *)
(* its generation expression reads; a value is a plain value, the bare   *)
(* DEFAULT placeholder or DEFAULT(col); a SELECT is its output width.    *)
(* A step of this module is the compile of one statement.                *)
(***************************************************************************)
EXTENDS Integers, Sequences, FiniteSets, SequencesExt, Relation

CONSTANTS
    ColNames,   \* column names of the target tables
    Stmts       \* the INSERT statements to compile (see StmtType)

ValueKinds == {"value", "default", "defaultNamed"}

Column == [name : ColNames, gen : BOOLEAN, deps : SUBSET ColNames]
TableType == [cols : Seq(Column), isView : BOOLEAN]
Assignment == [col : ColNames, kind : ValueKinds]

StmtType == [tbl : TableType, columns : Seq(ColNames), setlist : Seq(Assignment),
             lists : Seq(Seq(ValueKinds)), selectWidth : Nat,
             onDup : Seq(Assignment)]

Statuses == {"pending", "ok", "WrongValueCountOnRow", "BadGeneratedColumn",
             "IndexOutOfRange", "InsertIntoView"}

(* The outcome of a compile: an error with the row it names, or the plan's *)
(* Schema4OnDuplicate (table columns, then the new row for SELECT), the   *)
(* ON DUPLICATE columns, and the generated columns recomputed on update.  *)
Outcome(status, row, schema, onDupCols, onDupGen) ==
    [status |-> status, row |-> row, schema |-> schema,
     onDupCols |-> onDupCols, onDupGen |-> onDupGen]

Fail(status, row) == Outcome(status, row, <<>>, {}, <<>>)
Pending == Fail("pending", 0)
Passed == Fail("ok", 0)

VARIABLES
    stmt,     \* the statement being compiled
    result    \* Pending, or the outcome of buildInsert

vars == <<stmt, result>>

-----------------------------------------------------------------------------
OffsetOf(cols, n) == SelectInSeq(cols, LAMBDA c : c.name = n)
ColOf(cols, n) == cols[OffsetOf(cols, n)]
Names(cols) == [k \in 1..Len(cols) |-> cols[k].name]

(* getAffectCols: the explicit column list, else (no SET list) every      *)
(* column of the table.                                                   *)
getAffectCols(s) ==
    IF s.columns # <<>>
      THEN [j \in 1..Len(s.columns) |-> ColOf(s.tbl.cols, s.columns[j])]
      ELSE IF s.setlist = <<>> THEN s.tbl.cols ELSE <<>>

(* The mock table plan's schema: every table column, by offset. *)
TableSchema(s) == [k \in 1..Len(s.tbl.cols) |-> <<"table", k>>]

(* buildSetValuesOfInsert: an assignment to a generated column fails      *)
(* unless its value is a DEFAULT expression (extractDefaultExpr, with or  *)
(* without a column name); the first such assignment is reported.        *)
buildSetValuesOfInsert(s) ==
    LET bad == SelectInSeq(s.setlist, LAMBDA a :
                   ColOf(s.tbl.cols, a.col).gen /\ a.kind = "value")
    IN  IF bad # 0 THEN Fail("BadGeneratedColumn", 0) ELSE Passed

(* Mutant: rows after the first are not compared with their predecessor. *)
ValuesRowNoLengthCheck(s, aff, i) ==
    LET row == s.lists[i]
        j == SelectInSeq([k \in 1..Len(row) |-> k], LAMBDA k :
                 k > Len(aff) \/ (aff[k].gen /\ row[k] # "default"))
    IN  IF j = 0 THEN Passed
        ELSE IF j > Len(aff) THEN Fail("IndexOutOfRange", i)
        ELSE Fail("BadGeneratedColumn", i)

(* Mutant: the 1-based row number is reported as i + 1, as for the code's *)
(* 0-based loop index.                                                    *)
ValuesRowOffByOne(s, aff, i) ==
    LET row == s.lists[i]
        j == SelectInSeq([k \in 1..Len(row) |-> k], LAMBDA k :
                 k > Len(aff) \/ (aff[k].gen /\ row[k] # "default"))
    IN  IF i > 1 /\ Len(s.lists[i - 1]) # Len(row)
          THEN Fail("WrongValueCountOnRow", i + 1)
        ELSE IF j = 0 THEN Passed
        ELSE IF j > Len(aff) THEN Fail("IndexOutOfRange", i + 1)
        ELSE Fail("BadGeneratedColumn", i + 1)

(* The values of row i of buildValuesListOfInsert, in order: value j is   *)
(* written to affectedValuesCols[j] (out of range past its end); a        *)
(* generated column takes the bare DEFAULT only.                          *)
ValuesRow(s, aff, i) ==
    LET row == s.lists[i]
        j == SelectInSeq([k \in 1..Len(row) |-> k], LAMBDA k :
                 k > Len(aff) \/ (aff[k].gen /\ row[k] # "default"))
    IN  IF i > 1 /\ Len(s.lists[i - 1]) # Len(row)
          THEN Fail("WrongValueCountOnRow", i)
        ELSE IF j = 0 THEN Passed
        ELSE IF j > Len(aff) THEN Fail("IndexOutOfRange", i)
        ELSE Fail("BadGeneratedColumn", i)

(* buildValuesListOfInsert: the first row is checked against the affected *)
(* columns unless both the column list and the first row are empty        *)
(* ("insert into t values ()"), then the rows are built in order.         *)
buildValuesListOfInsert(s) ==
    LET aff == getAffectCols(s)
        rows == [i \in 1..Len(s.lists) |-> ValuesRow(s, aff, i)]
        bad == SelectInSeq(rows, LAMBDA o : o.status # "ok")
    IN  IF (s.columns # <<>> \/ s.lists[1] # <<>>) /\ Len(s.lists[1]) # Len(aff)
          THEN Fail("WrongValueCountOnRow", 1)
        ELSE IF bad # 0 THEN rows[bad]
        ELSE Passed

(* Mutant: the selected column i is placed at offset i of the new row.   *)
NewRowByPosition(s, aff) ==
    [k \in 1..Len(s.tbl.cols) |->
        IF k <= Len(aff) THEN <<"select", k>> ELSE "empty"]

(* schema4NewRow: selected column i goes to the offset of affected column *)
(* i; every other offset gets an unnamed placeholder column.              *)
NewRow(s, aff) ==
    [k \in 1..Len(s.tbl.cols) |->
        LET i == SelectLastInSeq(aff, LAMBDA c : c.name = s.tbl.cols[k].name)
        IN  IF i = 0 THEN "empty" ELSE <<"select", i>>]

(* buildSelectPlanOfInsert: the width check comes before the generated-   *)
(* column check (MySQL compatibility, as the code's comment explains).    *)
buildSelectPlanOfInsert(s) ==
    LET aff == getAffectCols(s)
        g == SelectInSeq(aff, LAMBDA c : c.gen)
    IN  IF s.selectWidth # Len(aff) THEN Fail("WrongValueCountOnRow", 1)
        ELSE IF g # 0 THEN Fail("BadGeneratedColumn", 0)
        ELSE Outcome("ok", 0, TableSchema(s) \o NewRow(s, aff), {}, <<>>)

(* resolveOnDuplicate: a generated column may only be set to a DEFAULT     *)
(* expression (named or not) and is then skipped; every other assigned   *)
(* column joins onDupColSet.                                              *)
resolveOnDuplicate(s) ==
    LET bad == SelectInSeq(s.onDup, LAMBDA a :
                   ColOf(s.tbl.cols, a.col).gen /\ a.kind = "value")
    IN  IF bad # 0 THEN Fail("BadGeneratedColumn", 0)
        ELSE Outcome("ok", 0, <<>>,
                     { s.onDup[i].col : i \in { i \in 1..Len(s.onDup) :
                                ~ColOf(s.tbl.cols, s.onDup[i].col).gen } }, <<>>)

(* resolveGeneratedColumns: every generated column, in table order, is    *)
(* compiled; it is re-evaluated on duplicate update when one of its       *)
(* direct dependences is in onDups.                                       *)
resolveGeneratedColumns(cols, onDups) ==
    Names(SelectSeq(cols, LAMBDA c : c.gen /\ c.deps \cap onDups # {}))

buildInsert(s) ==
    LET branch == IF s.setlist # <<>> THEN buildSetValuesOfInsert(s)
                  ELSE IF s.lists # <<>> THEN buildValuesListOfInsert(s)
                  ELSE buildSelectPlanOfInsert(s)
        schema == IF s.setlist = <<>> /\ s.lists = <<>>
                    THEN branch.schema ELSE TableSchema(s)
        od == resolveOnDuplicate(s)
    IN  IF s.tbl.isView THEN Fail("InsertIntoView", 0)
        ELSE IF branch.status # "ok" THEN branch
        ELSE IF od.status # "ok" THEN od
        ELSE Outcome("ok", 0, schema, od.onDupCols,
                     resolveGeneratedColumns(s.tbl.cols, od.onDupCols))

-----------------------------------------------------------------------------
Init ==
    /\ stmt \in Stmts
    /\ result = Pending

Compile ==
    /\ result = Pending
    /\ result' = buildInsert(stmt)
    /\ UNCHANGED stmt

Next == Compile

Spec == Init /\ [][Next]_vars

-----------------------------------------------------------------------------
(* Properties *)

TypeOK ==
    /\ stmt \in StmtType
    /\ result.status \in Statuses
    /\ result.row \in 0..(IF stmt.lists = <<>> THEN 1 ELSE Len(stmt.lists))
    /\ result.onDupCols \subseteq ColNames
    /\ result.onDupGen \in Seq(ColNames)

IsGen(s, n) == ColOf(s.tbl.cols, n).gen

(* The outcome spec 4.1 / 8 and TestGeneratedColumnWrite ask for, stated  *)
(* per row against the declared width rather than row against row: rows  *)
(* are 1-indexed, the width is that of the column list (of the table when *)
(* there is none), except that "VALUES ()" rows are all empty; the error  *)
(* is about the first row that has a wrong count or writes a generated    *)
(* column with anything but DEFAULT; for SELECT the count is checked      *)
(* first and any generated target column fails; a generated column in SET *)
(* or ON DUPLICATE KEY UPDATE takes DEFAULT or DEFAULT(col) only.         *)
ExpectedStatus(s) ==
    LET aff == getAffectCols(s)
        L == s.lists
        width == IF s.columns = <<>> /\ L # <<>> /\ L[1] = <<>> THEN 0 ELSE Len(aff)
        countBad(i) == Len(L[i]) # width
        genBad(i) == \E j \in 1..Len(L[i]) : j <= Len(aff) /\ aff[j].gen /\ L[i][j] # "default"
        badRows == { i \in 1..Len(L) : countBad(i) \/ genBad(i) }
        first == CHOOSE i \in badRows : \A k \in badRows : i <= k
        onDupBad == \E a \in ToSet(s.onDup) : IsGen(s, a.col) /\ a.kind = "value"
        branch ==
            IF s.setlist # <<>>
              THEN IF \E a \in ToSet(s.setlist) : IsGen(s, a.col) /\ a.kind = "value"
                     THEN <<"BadGeneratedColumn", 0>> ELSE <<"ok", 0>>
            ELSE IF L # <<>>
              THEN IF badRows = {} THEN <<"ok", 0>>
                   ELSE IF countBad(first) THEN <<"WrongValueCountOnRow", first>>
                   ELSE <<"BadGeneratedColumn", first>>
            ELSE IF s.selectWidth # Len(aff) THEN <<"WrongValueCountOnRow", 1>>
            ELSE IF \E c \in ToSet(aff) : c.gen THEN <<"BadGeneratedColumn", 0>>
            ELSE <<"ok", 0>>
    IN  IF s.tbl.isView THEN <<"InsertIntoView", 0>>
        ELSE IF branch[1] = "ok" /\ onDupBad THEN <<"BadGeneratedColumn", 0>>
        ELSE branch

(* Every compile ends in the outcome above, and never indexes past the    *)
(* affected columns (the row-against-row length check guards col :=      *)
(* affectedValuesCols[j]).                                                *)
InsertErrorsAsSpecified ==
    result # Pending => <<result.status, result.row>> = ExpectedStatus(stmt)

(* INSERT ... SELECT: the ON DUPLICATE schema is the table's columns      *)
(* followed by the full new-row shape: each selected column at the offset *)
(* of its target column, an unnamed placeholder at every other offset.    *)
SelectRowShape ==
    (result.status = "ok" /\ stmt.setlist = <<>> /\ stmt.lists = <<>>) =>
        LET n == Len(stmt.tbl.cols)
        IN  /\ Len(result.schema) = 2 * n
            /\ \A k \in 1..n :
                 /\ result.schema[k] = <<"table", k>>
                 /\ result.schema[n + k] =
                      IF \E j \in 1..Len(stmt.columns) : stmt.columns[j] = stmt.tbl.cols[k].name
                        THEN <<"select", CHOOSE j \in 1..Len(stmt.columns) :
                                                stmt.columns[j] = stmt.tbl.cols[k].name>>
                      ELSE IF stmt.columns = <<>> THEN <<"select", k>>
                      ELSE "empty"

(* "reads" between the columns of a table: the generation expression of  *)
(* c reads d; its transitive closure.                                     *)
ReadsClosure(cols) ==
    LET N == ToSet(Names(cols))
        R == [x, y \in N |-> ColOf(cols, x).gen /\ y \in ColOf(cols, x).deps]
    IN  TransitiveClosure(R, N)

(* After ON DUPLICATE KEY UPDATE changes some columns, exactly the        *)
(* generated columns whose value depends, directly or through other       *)
(* generated columns, on a changed column are re-evaluated, each once;    *)
(* otherwise a stored generated column keeps a stale value.               *)
OnDupRecomputesDependents ==
    result.status = "ok" =>
        LET cols == stmt.tbl.cols
            C == ReadsClosure(cols)
            must == { c \in ToSet(Names(cols)) :
                        ColOf(cols, c).gen /\ \E d \in result.onDupCols : C[c, d] }
        IN  /\ ToSet(result.onDupGen) = must
            /\ Len(result.onDupGen) = Cardinality(must)

=============================================================================
