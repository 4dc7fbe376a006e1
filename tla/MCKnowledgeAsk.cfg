CONSTANTS
    m1 = m1
    m2 = m2
    m3 = m3
    s1 = s1
    s2 = s2
    s3 = s3
    r1 = r1
    r2 = r2
    Asks = {a1, a2, a3}
    Rooms = {r1, r2}
    Members = {m1, m2, m3}
    Requests <- MCRequests
    Sessions = {s1, s2, s3}
    RoomOf <- MCRoomOf
    Cleaners = {c1}
    Limit = 1
    MaxFaults = 1
    MaxPauses = 1
    NoSession = NoSession
    NoRequest = NoRequest
    NoAnswer = NoAnswer
SPECIFICATION Spec
SYMMETRY Symmetry
CHECK_DEADLOCK FALSE
INVARIANTS TypeOK OneAtATime AnswersAgree QuotaNearlyKept StateAccounts AuditKept
