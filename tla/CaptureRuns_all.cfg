SPECIFICATION MixSpec
CONSTANTS
    p1 = p1
    m1 = m1
    t1 = t1
    x1 = x1
    o1 = o1
    k1 = k1
    k2 = k2
    Root = root
    Capture = {p1, m1, t1, x1, o1}
    Cli = {m1, o1}
    KindOf <- Kinds
    Child = {k1, k2}
    Mixes <- AllKinds
    MaxFaults = 1
    MaxCrashes = 2
    Run = {z1, z2}
    Strict = {z1}
    Helped = {z1}
    GroupId = {1, 2}
    Foci = {"captures", "processes"}
INVARIANTS
    TypeOK
    CompletedRunIsClean
    JobsTellTheTruth
    KillsAreSound
PROPERTIES
    ServicePromise
    RunningJobSettles
    BoundedCallsReturn
CHECK_DEADLOCK FALSE
