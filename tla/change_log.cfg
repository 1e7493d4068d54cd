\* Two tables with one row each, three transactions of four statements together,
\* with IDs that grow from one digit to two, and two calls of Setup.
SPECIFICATION Spec
CONSTANTS
    Table = {t1, t2}
    Key = {k}
    Value = {v1, v2}
    Tx = {x1, x2, x3}
    FirstTxID = 9
    MaxWrites = 4
    MaxSetups = 2
    None = None
SYMMETRY MCSymmetry
CHECK_DEADLOCK FALSE
INVARIANTS
    TypeOK
    LogReplays
    TriggersWork
    TreeShowsTransactions
