CONSTANTS
    r1 = r1
    r2 = r2
    i1 = i1
    i2 = i2
    e1 = e1
    e2 = e2
    f1 = f1
    f2 = f2
    d1 = d1
    d2 = d2
    Repositories = {r1, r2}
    GitSections = {"history", "worktrees"}
    GitItems = {i1, i2}
    MaxGitActs = 2
    EditTabs = {e1, e2}
    EditFiles = {f1, f2}
    MaxTexts = 2
    MaxEditActs = 4
    Destinations = {d1, d2}
    MaxPlans = 2
    MaxCopyActs = 4
    MaxServers = 4
    MaxServerActs = 3
SYMMETRY Alike
SPECIFICATION DialogsSpec
CHECK_DEADLOCK FALSE
INVARIANTS TypeOK  ReviewTrue TextIsSafe AsAsked
