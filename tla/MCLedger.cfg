SPECIFICATION Spec
CONSTANTS
  d1 = d1
  d2 = d2
  s1 = s1
  s2 = s2
  c1 = c1
  NoClient = NoClient
  NoDraft = NoDraft
  Device <- TwoDevices
  Settler <- OneSettler
  Client <- OneClient
  Payload <- TypedIn
  Amount <- EitherSign
  MaxEntries = 2
  MaxVersion = 3
  Inferred = {TRUE, FALSE}
  CarriesVersion = {TRUE, FALSE}
SYMMETRY DeviceSymmetry
INVARIANTS
  TypeOK
  OneEntryPerClient
PROPERTIES
  ContentChangesWithVersion
  EditSawTheEntry
  SettlementClears
CHECK_DEADLOCK FALSE
