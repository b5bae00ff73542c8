\* Two trees, copied and moved on the disk, to, from and between servers while other programs
\* interfere and calls fail; archives are made and unpacked.
CONSTANTS
    d1 = d1
    d2 = d2
    e1 = e1
    e2 = e2
    s1 = s1
    Tops = {d1, d2}
    Names = {e1, e2}
    Initial <- TwoTrees
    Strangers = {}
    OthersAt <- NoPaths
    Nothing = Nothing
    Dir = Dir
    LastNumber = 1
    Kinds = {"copy", "move"}
    Policies <- AllPolicies
    MaxRoots = 1
    DeletedAt <- AllPaths
    CallsMayFail = TRUE
    src_ = src_
    dst_ = dst_
    hidden = hidden
    From = src_
    To = dst_
    AtFirst <- ServerTree
    HiddenNames = {hidden}
    NewName = e1
    Tree = Tree
    Fresh = Fresh
    Intruder = Intruder
    IntrudesAt <- ServerTargets
    Schemes = {"sftp", "s3", "webdav"}
    Ways = {"up", "down", "within", "across"}
    Acts = {"copy", "move", "rename", "delete", "createFile", "createDirectory"}
    Rules <- AllPolicies
    MaxSources = 2
    ServersFail = TRUE
    l1 = l1
    l2 = l2
    pk = pk
    sp = sp
    out = out
    Sacks = {d1, d2}
    Labels = {l1, l2}
    Pack = pk
    Spare = sp
    Out = out
    Staging = staging
    Backup = backup
    Foreign = foreign
    ForeignAt <- ArchiveTargets
    Formats = {"zip", "tar"}
    ArcRules <- AllPolicies
    MaxJobs = 2
    DiskFails = TRUE
SPECIFICATION FilesSpec
CHECK_DEADLOCK FALSE
INVARIANTS TypesHold NothingIsLost AnswersTrue
