CONSTANTS
    Hours = 2
    Minutes = 2
    Seconds = 2
    MaxInt = 20
    MaxNumber = 18
    MaxYear = 2101
    Tables = {t1, t2, t3}
    Fields = {"a", "b"}
    MaxDepth = 2
    MaxNesting = 2
    MaxInteger = 5
    Names = {1, 2}
    Eras <- MCEras
    Numbers <- MCNumbers
    FileTrees <- MCFileTrees
    FindOptions <- MCFindOptions
    JsonLeaves <- MCJsonLeaves
    LuaLeaves <- MCLuaLeaves
    LuaKeys <- MCLuaKeys
SPECIFICATION Spec
INVARIANT FindIsExact
CHECK_DEADLOCK FALSE
