\* Two directories, one in the other; a profile that may be edited to name another host.
CONSTANTS
    home = home
    docs = docs
    zip = zip
    file = file
    f = f
    Uris = {home, docs, zip}
    Once = {zip}
    Parent <- HomeOf
    FileUri = file
    Names = {f}
    MaxRequests = 3
    MaxTabs = 2
    Initial <- OneFile
    Places <- HomeAndDocs
    Ahead <- ToTheArchive
    MaxActs = 2
    Kinds = {"delete", "move"}
    p1 = p1
    h1 = h1
    h2 = h2
    Profiles = {p1}
    Hosts = {h1, h2}
    MaxKeys = 2
    MaxCalls = 3
    MaxEvents = 1
SPECIFICATION PanelsSpec
SYMMETRY Alike
CHECK_DEADLOCK FALSE
INVARIANTS TypesHold OwnFolder ListingsEnd GoneIsGone ConfirmedOnly SessionsTrue
