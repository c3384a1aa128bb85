CONSTANTS
    Kinds = {hashJoin, tiflash}
    TableNames = {t1, t2}
    DBNames = {test, other}
    CurrentDB = test
    Offsets = {1, 2}
    HintOffset = 1
    NoQB = NoQB
    Nil = Nil
    HintLists <- MCHintLists
    QueryArgs <- MCQueryArgs
    MaxQueries = 2

SPECIFICATION Spec
SYMMETRY MCSymmetry
\* A build ends once the block is reported.
CHECK_DEADLOCK FALSE

INVARIANT TypeOK
INVARIANT MatchedOnlyWhenQueried
INVARIANT QueriedEntriesMatched
INVARIANT UnmatchedReportExact
