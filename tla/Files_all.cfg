SPECIFICATION FilesSpec
CONSTANTS
    g1 = g1
    g2 = g2
    c1 = c1
    Foci = {"tweets", "cleanup", "staging", "tools", "slot", "fetches"}
    TweetTask = {k1, k2}
    Sweeper = {s1}
    TweetMedia = {p1, p2}
    MaxTweet = 2
    MaxTweetFaults = 1
    Upload = {u1, u2}
    StagedUse = {m1, m2}
    Export = {x1}
    NoUpload = none
    MaxServerCrashes = 1
    ServerUpdate = {g1, g2}
    CliUpdate = {c1}
    PinnedVersion <- Pins
    MaxVersion = 2
    MaxToolFaults = 1
    Waiter = {t1, t2, t3, t4}
    Fetch = {f1}
    MaxFetchFaults = 1
INVARIANTS
    FilesTypeOK
    TweetsStayWhole
    StagedFilesStay
    ToolsAreSound
    SlotServesOneByOne
    FetchesEndAsAsked
PROPERTIES
    StagedDirsGo
CHECK_DEADLOCK FALSE
