SPECIFICATION Spec
CONSTANTS
    MaxBody = 160
    Numbers = {0, 4, 7, 8, 140, 158, 160, 161}
    Widths = {12}
    MaxMessages = 2
    MaxBlocks = 2
INVARIANTS OnlyReceived BodyFits SomethingToSum
PROPERTIES NoReread
