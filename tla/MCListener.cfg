SPECIFICATION FairSpec
CONSTANTS
    m1 = m1  m2 = m2  h1 = h1
    Monitor = {m1, m2}
    Helper = {h1}
    None = None
    MaxCollisions = 1
    Killable = {m1}
    Hung = {m1}
    Watched = {m1, m2}
    Unread = {m2}
INVARIANTS TypeOK OneListener
PROPERTIES HelpersSpareListeners NoRejoin ImplementsSession OwnerGoneNoticed StateDeleted DisconnectEnds
CHECK_DEADLOCK FALSE
