\* Folders and files are copied to an SFTP server.
CONSTANTS
    d1 = d1
    d2 = d2
    e1 = e1
    e2 = e2
    s1 = s1
    Tops = {d1, d2}
    Names = {e1, e2}
    Initial <- TwoTrees
    Strangers = {}
    OthersAt <- NoPaths
    Nothing = Nothing
    Dir = Dir
    LastNumber = 1
    Kinds = {"copy", "move"}
    Policies = {"fail"}
    MaxRoots = 1
    DeletedAt <- NoPaths
    CallsMayFail = FALSE
    src_ = src_
    dst_ = dst_
    hidden = hidden
    From = src_
    To = dst_
    AtFirst <- ServerTree
    HiddenNames = {hidden}
    NewName = e1
    Tree = Tree
    Fresh = Fresh
    Intruder = Intruder
    IntrudesAt <- NoPaths
    Schemes = {"sftp"}
    Ways = {"up"}
    Acts = {"copy"}
    Rules = {"fail", "overwrite"}
    MaxSources = 1
    ServersFail = FALSE
    l1 = l1
    l2 = l2
    pk = pk
    sp = sp
    out = out
    Sacks = {d1, d2}
    Labels = {l1, l2}
    Pack = pk
    Spare = sp
    Out = out
    Staging = staging
    Backup = backup
    Foreign = foreign
    ForeignAt <- NoPaths
    Formats = {"zip", "tar"}
    ArcRules <- AllPolicies
    MaxJobs = 0
    DiskFails = FALSE
SPECIFICATION FilesSpec
CHECK_DEADLOCK FALSE
INVARIANTS HierarchyRecreated
