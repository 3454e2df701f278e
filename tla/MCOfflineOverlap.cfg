SPECIFICATION Spec
CONSTANTS
  i1 = i1
  i2 = i2
  f1 = f1
  f2 = f2
  Item = {i1, i2}
  Flush = {f1}
INVARIANTS
  NothingSavedIsLost
