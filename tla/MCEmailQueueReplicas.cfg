CONSTANTS
    Logs = {l1}
    Workers = {w1}
    Schedulers = {s1, s2}
    MaxAttempts = 1
    MaxRetries = 1
    BatchSize = 1
    BatchSender = TRUE
    NoLog = NoLog
    NoWorker = NoWorker
    MaxEntries = 3
    MaxFaults = 0
SPECIFICATION Spec
CHECK_DEADLOCK FALSE
INVARIANT MovedOnce
