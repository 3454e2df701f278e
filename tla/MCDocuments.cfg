SPECIFICATION Spec
CONSTANTS
  doc = doc
  doc2 = doc2
  photo = photo
  p1 = p1
  p2 = p2
  other = other
  r1 = r1
  r2 = r2
  r3 = r3
  f1 = f1
  NoRow = NoRow
  NoCall = NoCall
  Slot = {doc, doc2, photo}
  Photo = {photo}
  Request = {r1, r2, r3}
  Picture = {p1, p2, other}
  Format <- Kinds
  Inferred = {TRUE, FALSE}
  Pick = {p1, p2}
  Flush = {f1}
CONSTRAINT OneStory
SYMMETRY Symmetry
INVARIANTS
  TypeOK
  LostFileHasCause
  CalmPicksAreKept
CHECK_DEADLOCK FALSE
