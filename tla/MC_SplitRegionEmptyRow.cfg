CONSTANTS
    t1 = t1
    t2 = t2
    TableIds = {t1, t2}
    AnalyzeIndexNames = {"i1", "primary"}
    PartNames = {"p1", "p2", "p3"}
    OptionLimit <- MCOptionLimit
    OptionDefault <- MCOptionDefault
    CMSketchSizeLimit = 4
    AnalyzeStmts = {}
    SplitIndexNames = {"idx"}
    IndexCols <- MCIndexCols
    SplitRegionMaxNum = 3
    SplitStmts <- AllSplitStmts
    InsertColNames <- MCInsertColNames
    InsertStmts = {}

SPECIFICATION Spec
\* A behaviour is the compile of one statement, which then ends.
CHECK_DEADLOCK FALSE

INVARIANT SplitEmptyRowRejected
