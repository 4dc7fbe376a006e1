CONSTANTS
    Uploads = {u1, u2}
    Workers = {w1}
    NoUpload = NoUpload
    NumPages = 2
    Caps = {1, 2}
    Limit = 5
    MaxFaults = 1
SPECIFICATION Spec
SYMMETRY Symmetry
CHECK_DEADLOCK FALSE
INVARIANTS TypeOK BytesKept IngestedIsComplete NotStranded
PROPERTIES StorageWithinQuota ArchivedStays
