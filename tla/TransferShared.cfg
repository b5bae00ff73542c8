\* Two roots, copied and moved while calls fail and other programs create and delete files.
CONSTANTS
    d1 = d1
    d2 = d2
    e1 = e1
    e2 = e2
    s1 = s1
    Tops = {d1, d2}
    Names = {e1, e2}
    Initial <- TwoRoots
    Strangers = {s1}
    OthersAt <- Targets
    Nothing = Nothing
    Dir = Dir
    LastNumber = 1
    Kinds = {"copy", "move"}
    Policies <- AllPolicies
    MaxRoots = 2
    DeletedAt <- OneSource
    CallsMayFail = TRUE
SPECIFICATION Spec
CHECK_DEADLOCK FALSE
INVARIANTS RootsKept
