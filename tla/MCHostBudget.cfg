CONSTANTS
    Owners = {o1, o2}
    Blocks = {b1, b2}
    Cap = 4
    Bytes <- MCBytes
SPECIFICATION Spec
SYMMETRY Symmetry
INVARIANTS
    TypeOK
    ExactCharges
    WithinCap
    UncommittedWithinCap
PROPERTY CommitHonoured
CHECK_DEADLOCK FALSE
