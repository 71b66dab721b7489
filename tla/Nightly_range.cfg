SPECIFICATION Spec
CONSTANTS
  Info = {i1}
  Timer = timer
  Manual = {m1}
  Horizon = 3
  OldestFirst = {i1}
  MaxEdits = 1
  MaxFailures = 0
INVARIANTS RangeKept
