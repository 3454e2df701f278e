SPECIFICATION LeaveSpec
CONSTANTS
  e1 = e1
  l1 = l1
  a1 = a1
  a2 = a2
  NoLeave = NoLeave
  Unmarked = "unmarked"
  Employee = {e1}
  Day <- ThreeDays
  Status = {"present", "paid_leave"}
  Leave = {l1}
  LeaveOf <- TheLeaves
  Call = {a1}
  Scanned = TRUE
PROPERTIES
  OnlyLeaveDaysMarked
