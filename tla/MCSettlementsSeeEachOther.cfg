SPECIFICATION Spec
CONSTANTS
  d1 = d1
  d2 = d2
  s1 = s1
  s2 = s2
  c1 = c1
  NoClient = NoClient
  NoDraft = NoDraft
  Device <- Nobody
  Settler <- TwoSettlers
  Client <- Nobody
  Payload <- TypedIn
  Amount <- OneAmount
  MaxEntries = 3
  MaxVersion = 1
  Inferred = {TRUE}
  CarriesVersion = {TRUE}
PROPERTIES
  SettlementsSeeEachOther
CHECK_DEADLOCK FALSE
