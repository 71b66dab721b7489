SPECIFICATION FairSpec
CONSTANTS
    Kind = {"data", "infos", "configs"}
    Row = {1, 2}
    Key = {1, 2}
    Tag <- Tags
    Input <- Inputs
    Gone = Gone
    Table0 <- Tables
    Filter <- Filters
    Default <- AllUp
    PageSize = 1
    MaxActions = 4
    MaxCalls = 2
    MaxFailures = 1
    NoLoad = NoLoad
    NoAnswer = NoAnswer
INVARIANTS
    IInv
    ShownIsCurrent
    OneListing
PROPERTIES
    LoadsEnd
    AllRowsCome
CHECK_DEADLOCK FALSE
