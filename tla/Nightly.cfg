SPECIFICATION FairSpec
CONSTANTS
  Info = {i1, i2}
  Timer = timer
  Manual = {m1}
  Horizon = 2
  OldestFirst = {i1}
  MaxEdits = 1
  MaxFailures = 1
INVARIANTS GapFree IInv
PROPERTIES CatchUp NightHoldsOn
