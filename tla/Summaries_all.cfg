SPECIFICATION SummariesSpec
CONSTANTS
    r1 = r1
    r2 = r2
    e1 = e1
    SummaryRequest = {r1, r2}
    SummaryEdit = {e1}
    MaxEntries = 2
    MaxMishaps = 1
INVARIANTS
    SummariesTypeOK
    FetchedOnceInSight
    SummaryDescribesItsEntry
PROPERTIES
    ShownStays
    AttemptSettles
CHECK_DEADLOCK FALSE
