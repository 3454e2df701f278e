SPECIFICATION FairSpec
CONSTANTS
  e1 = e1
  e2 = e2
  f1 = f1
  f2 = f2
  f3 = f3
  Unmarked = "unmarked"
  Employee <- OneEmployee
  Day <- ThreeDays
  Status <- OnlyPresent
  Finalizer <- TwoRuns
  Period <- OverlappingPeriods
  LockOnly <- NoLock
  Adjust <- NoAdjustment
  PaidOff = {2}
  Rate <- DailyRate
  AdvanceAmount = 3
  MaxAdvances = 0
  SystemStored = {TRUE}
INVARIANTS
  CountedRowsFrozen
PROPERTIES
  EveryRunEnds
