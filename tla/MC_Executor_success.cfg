CONSTANTS
    i1 = i1
    i2 = i2
    i3 = i3
    Invocations <- MC_Invocations
SPECIFICATION Spec
SYMMETRY MC_Symmetry
INVARIANT TypeOK
