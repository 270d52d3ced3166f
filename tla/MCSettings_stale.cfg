CONSTANTS
    NKeys = 3
    Vals = {0, 1}
    Default <- MCDefault
    AnchorKeys = {2}
    TooLong = {3}

SPECIFICATION Spec

INVARIANT AppliedWhenQuiet
