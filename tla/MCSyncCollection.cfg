SPECIFICATION FairSpec
CONSTANTS
  Segments = {n1, n2}
  Etags = {e1, e2}
  Absent = Absent
  Clients = {c1}
  Colls = {k1, k2}
  NoColl = NoColl
  MaxSeq = 3
INVARIANTS
  NoMissedChange
PROPERTIES
  EventuallyInSync
  KeepsPromise
CHECK_DEADLOCK FALSE
