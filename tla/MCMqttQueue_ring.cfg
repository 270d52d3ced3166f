CONSTANTS
    Size = 3
    Batch = 2
    Messages = {m1, m2, m3, m4, m5}
    None = None

SPECIFICATION Spec
SYMMETRY MCSymmetry
CONSTRAINT MCUnraced

INVARIANT SafeUnlessRaced
