SPECIFICATION Spec
CONSTANTS
    c1 = c1  c2 = c2  c3 = c3
    Client = {c1, c2}
    NoClient = NoClient
    MaxServers = 2
    Hasty = {c1}
    Handover = FALSE
    Faulty = {}
    Crashable = {}
INVARIANT NoListenRace
CHECK_DEADLOCK FALSE
