CONSTANTS
    d1 = d1
    Docs = {d1}
    Folders = {f1, f2}
    Above <- MCAbove
    Workers = {w1}
    Requests = {r1, r2, r3}
    NoDoc = NoDoc
    MaxJobs = 3
    MaxFaults = 1
SPECIFICATION Spec
SYMMETRY Symmetry
CHECK_DEADLOCK FALSE
INVARIANTS TypeOK PurgeComing SyncedIsIndexed BadgeSettles
PROPERTY EndedJobStays
