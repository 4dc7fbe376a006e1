CONSTANTS
    Logs = {l1, l2}
    Workers = {w1}
    Schedulers = {s1}
    MaxAttempts = 1
    MaxRetries = 1
    BatchSize = 2
    BatchSender = FALSE
    NoLog = NoLog
    NoWorker = NoWorker
    MaxEntries = 4
    MaxFaults = 0
SPECIFICATION FairSpec
CHECK_DEADLOCK FALSE
PROPERTY EventuallySettled
