SPECIFICATION Spec
CONSTANTS
    NoRow = NoRow
    NoDate = NoDate
    Strip <- MCStrip
    Proc = {p1, p2}
    RawName = {kospi}
    Name = {kospi}
    Date = {d1}
    MaxInfo = 3
    MaxData = 4
    MaxRequests = 4
    MaxAborts = 0
PROPERTIES
    UserDataKept
