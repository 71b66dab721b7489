SPECIFICATION Spec
CONSTANTS
  MaxId = 3
  MaxKey = 2
  Queries <- AllQueries
  DefaultSize = 2
  MaxSize = 1
  NoRow = NoRow
  NoCursor = NoCursor
  MaxWrites = 2
INVARIANTS
  PagesInOrder
  StableRowsShown
  NextPageExists
  TotalElements
  IInv
