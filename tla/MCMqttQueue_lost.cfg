CONSTANTS
    Size = 2
    Batch = 2
    Messages = {m1, m2, m3, m4}
    None = None

SPECIFICATION Spec
SYMMETRY MCSymmetry

INVARIANT NothingLost
