CONSTANTS
    o1 = o1
    o2 = o2
    o3 = o3
    Objects <- MC_Objects
    PageSize = 2
    MaxOwned = 3
SPECIFICATION Spec
PROPERTY QueryTerminates
