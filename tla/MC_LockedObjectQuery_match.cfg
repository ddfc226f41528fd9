CONSTANTS
    l1 = l1
    l2 = l2
    i1 = i1
    i2 = i2
    NoId = NoId
    Lockeds <- MC_Lockeds
    Items <- MC_Items
SPECIFICATION Spec
INVARIANT TypeOK
INVARIANT RenderedItemMatchesObject
