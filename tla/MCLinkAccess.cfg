CONSTANTS
    guest = guest
    other = other
    Visits = {v1, v2}
    Emails <- MCEmails
    Mailbox <- MCMailbox
    RuleSets <- MCRuleSets
    MaxAccess = 2
    MaxOps = 2
    MaxFaults = 1
SPECIFICATION Spec
SYMMETRY Symmetry
CHECK_DEADLOCK FALSE
INVARIANTS TypeOK SessionsRespectRules RemovedStayOut OpensAreCounted
PROPERTIES SingleUse SessionsFollowPolicy
