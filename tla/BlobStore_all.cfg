SPECIFICATION MixSpec
CONSTANTS
    w1 = w1
    w2 = w2
    w3 = w3
    w4 = w4
    w5 = w5
    k1 = k1
    f1 = f1
    f2 = f2
    f3 = f3
    b1 = b1
    b2 = b2
    None = None
    Writer = {w1, w2, w3, w4, w5}
    KindOf <- Kinds
    Cleaner = {k1}
    File = {f1, f2, f3}
    HashOf <- TwoExtensions
    BlobId = {b1, b2}
    Mixes <- AllKinds
    box = box
    clip = clip
    page = page
    lone = lone
    m1 = m1
    m2 = m2
    t1 = t1
    fo = fo
    Page = {b1, b2}
    Font = {f1, f2}
    MaxPageFaults = 1
    Item = {box, clip, page, lone}
    ContainerOf <- Boxed
    Owns <- Owned
    MaxUpsets = 1
    MaxPost = 4
    Editor = {b1, b2}
    RuleHost = {"medium"}
    SessionHost = {"x", "medium", "other"}
    MaxRule = 2
    MaxRuleEdits = 2
    Foci = {"store", "pages", "exports", "threads", "sources", "cookies"}
    MaxCrashes = 1
SYMMETRY Symmetry
INVARIANTS
    StoreTypeOK
    OnlyTheExposedAreHarmed
    RowsHaveFiles
    FetchedAsMeant
    ShownIsWhole
CHECK_DEADLOCK FALSE
