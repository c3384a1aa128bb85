CONSTANTS
    IndexOrder <- MCIndexOrder
    Primary = primary
    TiKV = TiKV
    TiFlash = TiFlash
    TiDB = TiDB
    Stmts <- MCStmtsTiFlash

SPECIFICATION Spec
\* A compile of one statement ends: the final state has no successor.
CHECK_DEADLOCK FALSE

INVARIANT RowStoreAlwaysUsable
