SPECIFICATION Spec
CONSTANTS
    IndexKey = {kospi, krx}
    MaxDate = 2
    MaxListed = 4
    MaxNews = 2
    Rows = {1, 2}
    FetchBatchSize = 2
    NoItem = NoItem
SYMMETRY IndexSymmetry
INVARIANTS
    LatestIsNewest
    NoneMissed
    OnlyTheLastMissed
    IInv
