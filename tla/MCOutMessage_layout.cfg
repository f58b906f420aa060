SPECIFICATION OutSpec
CONSTANTS
    OutWidths = {1, 2, 4, 8}
    Lengths = {0, 3, 65535, 65536}
    MaxAdds = 3
INVARIANTS Intact Recoverable
