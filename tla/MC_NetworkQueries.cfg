CONSTANTS
    testnet = testnet
    mainnet = mainnet
    p1 = p1
    NoParam = NoParam
    Networks <- MC_Networks
    DefaultNetwork <- testnet
    Params <- MC_Params
    MaxVersion = 2
SPECIFICATION Spec
INVARIANT TypeOK
INVARIANT ShownFromSelectedNetwork
INVARIANT InvalidationReachesCommit
PROPERTY EventuallyCurrent
PROPERTY Refinement
PROPERTY CacheNeverRegresses
