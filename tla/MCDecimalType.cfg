SPECIFICATION Spec
CONSTANTS
    Regs = {r1, r2}
    Digits = {0, 1, 3, 5, 9, 17}
    Places = {0, 1, 2}
    Columns <- MCColumns
    ByteSize = 8
    IntSize = 32
    MaxMag = 40
INVARIANTS
    Exact
    Ordered
