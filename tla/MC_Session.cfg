CONSTANTS
    Nil = Nil
    Stmts <- MCStmts
    MaxBuilds = 3
    MaxEnvChanges = 2

SPECIFICATION Spec
\* A session ends after its bounded builds and changes: the last state has no successor.
CHECK_DEADLOCK FALSE

INVARIANT ColumnIDsFresh
PROPERTY AbstractSpec
