SPECIFICATION FairSpec
CONSTANTS
    c1 = c1  c2 = c2  c3 = c3    s1 = s1  s2 = s2
    Conn = {c1, c2, c3}
    Sid = {s1, s2}
    Session <- MCSession
    NoConn = NoConn
    Threshold = 3
    IdleLimit = 2
    Pidless = {c2}
    Ghostable = {c1}
    MaxFailures = 1
INVARIANT TypeOK
PROPERTIES EvictsOnEvidence GracePeriod ImplementsRegistry DeadReaped EndsWithSessions
CHECK_DEADLOCK FALSE
