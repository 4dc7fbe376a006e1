CONSTANTS
    Uploads = {u1, u2}
    Workers = {w1}
    NoUpload = NoUpload
    NumPages = 1
    Caps = {0}
    Limit = 5
    MaxFaults = 0
SPECIFICATION FairSpec
CHECK_DEADLOCK FALSE
PROPERTY EventuallyIngested
