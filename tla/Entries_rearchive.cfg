SPECIFICATION EntriesSpec
CONSTANTS
    t1 = t1
    t2 = t2
    t3 = t3
    t4 = t4
    t5 = t5
    t6 = t6
    s1 = s1
    s2 = s2
    s3 = s3
    s4 = s4
    s5 = s5
    blob = blob
    Task = {t1, t2, t3, t4, t5, t6}
    KindOf <- Kinds
    SizedTask = {s1, s2, s3, s4, s5}
    SizedKindOf <- SizedMix
    Blob = {blob}
    SizeOf <- OneSize
    MaxSized = 3
    Members = 0
    Mixes <- Rearchive
    MaxId = 3
    Foci = {"tree"}
PROPERTIES
    RearchiveTouchesItsEntry
CHECK_DEADLOCK FALSE
