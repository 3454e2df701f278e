SPECIFICATION Spec
CONSTANTS
  e1 = e1
  e2 = e2
  s1 = s1
  s2 = s2
  w1 = w1
  w2 = w2
  u1 = u1
  u2 = u2
  m1 = m1
  m2 = m2
  r1 = r1
  r2 = r2
  r3 = r3
  dashboard = dashboard
  roster = roster
  NoShift = NoShift
  Blank = Blank
  None = None
  Employee = {e1}
  Shift = {s1}
  Wage = {w1, w2}
  Updater = {}
  Typed <- Edits
  MaxVersion = 3
  Key = {roster}
  Roster = {roster}
  Reader = {r1, r2}
  Marker = {m1}
  TTL = 1
  Slow = 1
  MaxWrites = 2
  MaxTime = 4
SYMMETRY Symmetry
INVARIANTS
  TypeOK
  AnswersAreFresh
PROPERTIES
  StaleBounded
CHECK_DEADLOCK FALSE
