CONSTANTS
    null = null
    Null <- null
    Names <- MC_Names
    MaxServerLen = 3
    MaxMysLen = 2
SPECIFICATION Spec
INVARIANT ServerPathMeansSetting
INVARIANT MysPathMeansSetting
