\* A move within one folder that overwrites.
CONSTANTS
    d1 = d1
    d2 = d2
    e1 = e1
    e2 = e2
    s1 = s1
    Tops = {d1, d2}
    Names = {e1, e2}
    Initial <- TwoTrees
    Strangers = {}
    OthersAt <- NoPaths
    Nothing = Nothing
    Dir = Dir
    LastNumber = 1
    Kinds = {"copy", "move"}
    Policies <- AllPolicies
    MaxRoots = 2
    DeletedAt <- NoPaths
    CallsMayFail = FALSE
SPECIFICATION Spec
CHECK_DEADLOCK FALSE
INVARIANTS OverwriteKeepsNew
