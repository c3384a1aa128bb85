CONSTANTS
    Tables = {t1, t2}
    MaxCols = 3
    MaxDepth = 3
    MaxUnion = 2
    MaxBlocks = 3
    WhereExprs <- MCWhereExprs
    MaxExprDepth <- MCMaxExprDepth

SPECIFICATION Spec
\* A split of a WHERE returns and ends its behaviour.
CHECK_DEADLOCK FALSE
SYMMETRY MCSymmetry

INVARIANT TypeOK
INVARIANT StackMatchesPlan
INVARIANT SplitWhereAsConditions
