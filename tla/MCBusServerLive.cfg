SPECIFICATION FairSpec
CONSTANTS
    c1 = c1  c2 = c2  c3 = c3
    s1 = s1  s2 = s2  n1 = n1  n2 = n2  k1 = k1  k2 = k2
    Conn = {c1, c2, c3}
    Sid = {s1, s2}
    Name = {n1, n2}
    Nonce = {k1, k2}
    NoConn = NoConn  NoSid = NoSid  NoName = NoName  NoNonce = NoNonce  Absent = Absent
    Reaper = Reaper
    Hellos <- MCLiveHellos
    NewNames = {n1}
    Reapable = {}
    Stallable = {}
PROPERTIES EvictedIsClosed HandlersEnd
CHECK_DEADLOCK FALSE
