SPECIFICATION RequestsSpec
CONSTANTS
    q1 = q1
    q2 = q2
    a = a
    b = b
    editors = editors
    u1 = u1
    s0 = s0
    s1 = s1
    i1 = i1
    i2 = i2
    Foci = {"tags"}
    Handlers = {q1, q2}
    Custom = {editors}
    MaxId = 2
    MaxUid = 3
    MaxRequests = 3
    TagRequest = {q1, q2}
    Slug = {a, b}
    MaxTag = 4
    MaxDepth = 2
    VisRequest = {q1, q2}
    Person = {u1}
    Shelf = {s0, s1}
    DefaultShelf = s0
    Item = {i1, i2}
    ParentItem <- RootAndChild
    NoItem = none
    NoOne = nobody
    GivenMask <- Masks
    TopBit = 5
    MaxVisOps = 3
SYMMETRY Symmetry
INVARIANTS
    MoveRefusesDescendants
CHECK_DEADLOCK FALSE
