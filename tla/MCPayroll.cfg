SPECIFICATION Spec
CONSTANTS
  e1 = e1
  e2 = e2
  f1 = f1
  f2 = f2
  f3 = f3
  Unmarked = "unmarked"
  Employee <- TwoEmployees
  Day <- OneDay
  Status <- PresentAbsent
  Finalizer <- OneRunAndALock
  Period <- WholePeriod
  LockOnly <- OneLock
  Adjust <- OneAdjustment
  PaidOff = {}
  Rate <- DailyRate
  AdvanceAmount = 3
  MaxAdvances = 2
  SystemStored = {TRUE, FALSE}
INVARIANTS
  TypeOK
  PaysAllOrNothing
  WagesFollowTheReading
PROPERTIES
  WagesAppearTogether
