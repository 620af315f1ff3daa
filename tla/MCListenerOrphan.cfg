SPECIFICATION AnsweredSpec
CONSTANTS
    m1 = m1  m2 = m2  h1 = h1
    Monitor = {m1}
    Helper = {}
    None = None
    MaxCollisions = 1
    Killable = {}
    Hung = {}
    Watched = {m1}
    Unread = {m1}
PROPERTY OwnerGoneEnds
CHECK_DEADLOCK FALSE
