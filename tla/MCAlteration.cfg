\* Three blocks, altered three times.
SPECIFICATION Spec
CONSTANTS
    Data = {d1, d2}
    Nonces = {n1, n2}
    PrivateKeys = {k1, k2}
    MaxBlocks = 3
    MaxAlterations = 3
INVARIANTS NoticesAlterations
CHECK_DEADLOCK FALSE
SYMMETRY Symmetry
