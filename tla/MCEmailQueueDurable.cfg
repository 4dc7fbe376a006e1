CONSTANTS
    Logs = {l1}
    Workers = {w1}
    Schedulers = {s1}
    MaxAttempts = 1
    MaxRetries = 1
    BatchSize = 1
    BatchSender = TRUE
    NoLog = NoLog
    NoWorker = NoWorker
    MaxEntries = 2
    MaxFaults = 1
SPECIFICATION FairSpec
CHECK_DEADLOCK FALSE
PROPERTY DurableQueue
