SPECIFICATION Spec
CONSTANTS
  e1 = e1
  e2 = e2
  s1 = s1
  s2 = s2
  w1 = w1
  w2 = w2
  u1 = u1
  u2 = u2
  m1 = m1
  m2 = m2
  r1 = r1
  r2 = r2
  r3 = r3
  dashboard = dashboard
  roster = roster
  NoShift = NoShift
  Blank = Blank
  None = None
  Employee = {e1}
  Shift = {s1, s2}
  Wage = {w1, w2}
  Updater = {u1, u2}
  Typed <- Edits
  MaxVersion = 3
  Key = {e1, dashboard}
  Roster = {}
  Reader = {r1}
  Marker = {m1}
  TTL = 1
  Slow = 1
  MaxWrites = 3
  MaxTime = 0
PROPERTIES
  UpdateKeepsColumns
CHECK_DEADLOCK FALSE
