SPECIFICATION Spec
CONSTANTS
    Names = {"@a", "@A", "@b"}
    Lower <- MCLower
    MaxText = 2
    MaxDepth = 2
INVARIANTS
    Bound
    OnlyItsOwn
CHECK_DEADLOCK FALSE
