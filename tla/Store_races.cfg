SPECIFICATION Spec
CONSTANTS
    NoRow = NoRow
    NoDate = NoDate
    Strip <- MCStrip
    Proc = {p1, p2, p3}
    RawName = {kospi, kospiPadded}
    Name = {kospi}
    Date = {d1}
    MaxInfo = 3
    MaxData = 4
    MaxRequests = 4
    MaxAborts = 1
SYMMETRY ThreadSymmetry
INVARIANTS
    UniqueNames
    UniqueKeys
    DataHasInfo
    ConfigIffInfo
    JobReferencesLive
    UpsertedInfoStays
    UserInfoUntouched
    IInv
PROPERTIES
    EnabledOnlyByUser
    NoResurrection
    EachCommitIsWhole
