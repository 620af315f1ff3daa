SPECIFICATION Spec
CONSTANTS
    s1 = s1  s2 = s2  s3 = s3  n1 = n1  n2 = n2  p = p  q = q
    Sid = {s1, s2, s3}
    Name = {n1, n2, s1}
    Text = {s1, s2, s3, n1, n2, p, q, Empty}
    Empty = Empty
    Absent = Absent
    Prefixes <- MCPrefixes
    Short = {p, Empty}
    Sender = {s1}
    Limit = 2
    Window = 2
    MaxSize = 0
    Backups = 2
    MaxTime = 4
    MaxLogged = 5
INVARIANTS TypeOK ReachesBestMatch RateBound QuotaExact LogHasNoGap
PROPERTY DropsOldestOnly
CHECK_DEADLOCK FALSE
