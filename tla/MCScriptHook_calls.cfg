SPECIFICATION Spec
CONSTANTS
    Scripts = {"f"}
    Keys <- MCKeys
    Inner = 2
    RowKeys = {1, 2, 7}
    MaxRows = 2
INVARIANTS AllOrError Culprit
CHECK_DEADLOCK FALSE
