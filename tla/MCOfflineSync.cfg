SPECIFICATION FairSpec
CONSTANTS
  i1 = i1
  i2 = i2
  f1 = f1
  f2 = f2
  Item = {i1, i2}
  Flush = {f1, f2}
INVARIANTS
  TypeOK
  FlushesDoNotOverlap
  CalmSavesAreKept
PROPERTIES
  EveryFlushEnds
