CONSTANTS
    d1 = d1
    Docs = {d1, d2}
    Folders = {f1}
    Above <- MCAbove
    Workers = {w1}
    Requests = {r1, r2}
    NoDoc = NoDoc
    MaxJobs = 3
    MaxFaults = 0
SPECIFICATION FairSpec
CHECK_DEADLOCK FALSE
PROPERTIES EventuallyPurged SyncEnds
