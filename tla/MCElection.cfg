SPECIFICATION FairSpec
CONSTANTS
    c1 = c1  c2 = c2  c3 = c3
    Client = {c1, c2, c3}
    NoClient = NoClient
    MaxServers = 2
    Hasty = {}
    Handover = FALSE
    Faulty = {1}
    Crashable = {c1, 1, 2}
INVARIANTS TypeOK OneElected IdentityPublished TokenFirst NoListenRace
PROPERTIES EnsureEnds ImplementsService
CHECK_DEADLOCK FALSE
