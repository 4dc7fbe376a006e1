CONSTANTS
    Logs = {l1, l2}
    Workers = {w1, w2}
    Schedulers = {s1, s2}
    MaxAttempts = 1
    MaxRetries = 1
    BatchSize = 2
    BatchSender = TRUE
    NoLog = NoLog
    NoWorker = NoWorker
    MaxEntries = 3
    MaxFaults = 2
SPECIFICATION Spec
SYMMETRY Symmetry
CHECK_DEADLOCK FALSE
INVARIANTS TypeOK Accounted OneCarrier AttemptsAscend ReceiptIsOwn
PROPERTIES ReportKept MailsDelivered
