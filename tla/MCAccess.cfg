SPECIFICATION Spec
CONSTANTS
  p1 = p1
  p2 = p2
  t1 = t1
  t2 = t2
  e1 = e1
  e2 = e2
  e3 = e3
  g1 = g1
  g2 = g2
  c1 = c1
  c2 = c2
  a1 = a1
  a2 = a2
  NoRow = NoRow
  NoTenant = NoTenant
  Phone = {p1, p2}
  Tenant = {t1, t2}
  Employee = {e1, e2}
  Register = {g1, g2}
  Call = {c1, c2}
  Address = {a1, a2}
  MaxRequests = 2
  Window = 2
  CleanupAge = 2
  MaxSize = 1
  Wait = 1
SYMMETRY Symmetry
ACTION_CONSTRAINT ClockWaits
INVARIANTS
  TypeOK
  EmptyTenantHasCause
  RateBounded
PROPERTIES
  SuspensionHolds
