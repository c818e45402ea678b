SPECIFICATION Spec
CONSTANTS
    a = a
    b = b
    r1 = r1
    r2 = r2
    Contents = {a, b}
    Size <- MCSize
    Reqs = {r1, r2}
    Expires = TRUE
    None = None
INVARIANTS
    CompletedIsWhole
    CountedOnce
PROPERTIES
    ProgressKept
SYMMETRY MCSymmetry
