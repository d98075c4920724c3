SPECIFICATION RowsSpec
CONSTANTS
    Topics = {t1, t2}
    MaxRows = 2
    MaxRowCalls = 1
    MaxLosses = 1
INVARIANT NothingUnseen
CHECK_DEADLOCK FALSE
