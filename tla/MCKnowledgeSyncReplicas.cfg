CONSTANTS
    d1 = d1
    Docs = {d1}
    Folders = {f1}
    Above <- MCAbove
    Workers = {w1, w2}
    Requests = {r1, r2}
    NoDoc = NoDoc
    MaxJobs = 2
    MaxFaults = 0
SPECIFICATION FairSpec
CHECK_DEADLOCK FALSE
PROPERTY EventuallyPurged
