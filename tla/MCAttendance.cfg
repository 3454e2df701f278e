SPECIFICATION Spec
CONSTANTS
  e1 = e1
  d1 = d1
  d2 = d2
  NoDraft = NoDraft
  NoCall = NoCall
  Employee <- TheEmployees
  Status <- TheStatuses
  Device <- TwoDevices
  Requests <- TheRequests
  LastDay = 2
  MaxVersion = 2
SYMMETRY DeviceSymmetry
INVARIANTS
  TypeOK
  VersionNamesContent
PROPERTIES
  LockedRowsStay
  EditSawUnlessOvertaken
  ImplementsRegister
