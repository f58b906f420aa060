SPECIFICATION QuerySpec
CONSTANTS
    Cols <- ThreeCols
    MaxRows = 2
    MaxSize = 2
INVARIANTS AnsweredOnce ResultFreed Complete
