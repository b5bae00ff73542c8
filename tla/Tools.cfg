CONSTANTS
    t1 = t1
    line = line
    SearchTabs = {t1}
    Lines = {line}
    MaxSearches = 2
    AbsorbedMax = 2
    MaxFaults = 1
    MaxShells = 2
    MaxChunks = 2
    BufferMax = 1
    MaxDockActs = 2
    n1 = n1
    n2 = n2
    n3 = n3
    RowOrder <- ThreeNames
    Up = up
    Nowhere = nowhere
    MaxActs = 3
    MaxOps = 1
    OthersChange <- OneOfThem
    p1 = p1
    u1 = u1
    u2 = u2
    Profiles = {p1}
    Uris = {u1, u2}
    RecentMax = 1
    MaxCommands = 3
    MaxStops = 2
    ShellNames = {1, 2}
    MaxShellCalls = 3
    MaxShellActs = 3
    m1 = m1
    m2 = m2
    MaxLines = 4
    ContextSize = 1
    ShownLines = 3
    EntryNames = {m1, m2}
    Metadata <- SomeEntries
    MaxCompareActs = 3
    h1 = h1
    h2 = h2
    Handlers = {h1, h2}
    OutputMax = 1
    FileLength = 3
    MaxPreviewActs = 4
    MaxTerminals = 1
    MaxSaid = 2
    UnreadMax = 1
    MaxCalls = 2
    MaxKeyChanges = 1
SPECIFICATION ToolsSpec
CHECK_DEADLOCK FALSE
INVARIANTS TypeOK FindingsTrue  SelectionTrue 
