SPECIFICATION FairSpec
CONSTANTS
    NoRow = NoRow
    NoDate = NoDate
    Strip <- MCStrip
    Proc = {p1, p2}
    RawName = {kospi, krx}
    Name = {kospi, krx}
    Date = {d1}
    MaxInfo = 4
    MaxData = 4
    MaxRequests = 3
    MaxAborts = 1
PROPERTIES
    HistorySealed
    CallsEnd
