\* Two connections in memory: an old one may still be destroyed while a new one exists.
SPECIFICATION Spec
CONSTANTS
    Conns = {k1, k2}
    MaxCtr = 2
    None = None
SYMMETRY Symmetry
VIEW WithoutOutCtr
INVARIANTS
    NoUseAfterFree
    OneNeighbor
    TimeoutArmed
    GoneInputsZero
