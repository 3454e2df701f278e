SPECIFICATION Spec
CONSTANTS
  e1 = e1
  e2 = e2
  f1 = f1
  f2 = f2
  f3 = f3
  Unmarked = "unmarked"
  Employee <- OneEmployee
  Day <- OneDay
  Status <- PresentAbsent
  Finalizer <- TwoRuns
  Period <- WholePeriod
  LockOnly <- NoLock
  Adjust <- NoAdjustment
  PaidOff = {}
  Rate <- DailyRate
  AdvanceAmount = 3
  MaxAdvances = 1
  SystemStored = {TRUE}
INVARIANTS
  PaidOnce
