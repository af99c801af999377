CONSTANTS
    Keys = {k1, k2, k3, k4, k5}

SPECIFICATION Spec

INVARIANT TypeOK
INVARIANT IndexConsistent

PROPERTY AbstractSpec
