SPECIFICATION LibrarySpec
CONSTANTS
    no = no
    f1 = f1
    f2 = f2
    t1 = t1
    box = box
    clip = clip
    lone = lone
    v1 = v1
    v2 = v2
    l1 = l1
    i1 = i1
    i2 = i2
    hd = hd
    sd = sd
    e1 = e1
    e2 = e2
    r1 = r1
    r2 = r2
    q1 = q1
    q2 = q2
    pa = pa
    pu = pu
    Foci = {"tab", "locators", "texts", "rail", "rows", "list", "limit", "secrets", "tokens", "schema", "providers", "titles", "lists", "details", "labels"}
    Row = {r1, r2}
    FileRow = {r1}
    MaxPolls = 2
    MaxDrops = 2
    Video = {v1, v2}
    List = {l1}
    Offers <- Offers3
    MaxProbes = 3
    MaxEdits = 3
    Shown = {e1, e2}
    MaxVersion = 2
    MaxRequests = 2
    RootRow = {r1, r2}
    MemberRow = {e1, e2}
    Query = {q1, q2}
    Found <- FoundBy
    MaxLoads = 2
    Person = {pa, pu}
    Managers = {pa}
    GateCall = {e1, e2}
    Address = {e1, e2}
    MaxSession = 2
    MaxPassword = 1
    MaxGateCalls = 3
    MaxAttempts = 2
    LoginWindow = 2
    MaxClock = 6
    Opener = {e1, e2}
    OldChild = {1, 2}
    MaxSchemaCrashes = 1
    Patcher = {e1, e2}
    Together <- FieldsTogether
    MaxPatches = 3
    Titled = {e1, e2}
    Tweet = {t1}
    Asker = {f1, f2}
    MaxNames = 2
    MaxAsks = 2
    MaxRestarts = 1
    Viewer = {pa, pu}
    Boss = {pa}
    Reading = {q1}
    Listable = {box, clip, lone}
    ListParent <- Within
    NoParent = no
    Label = {l1, i1}
    LabelAbove <- Above
    NoLabel = no
    NoViewer = no
    PageSize = 1
    JobItemsMax = 1
    MaxJob = 2
    MaxJobItems = 2
    MaxTagging = 2
SYMMETRY Alike
INVARIANTS
    LibraryTypeOK
    ScreenAgrees
    RequestsHold
    OpenedIsSound
CHECK_DEADLOCK FALSE
