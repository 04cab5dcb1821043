SPECIFICATION Spec
CONSTANTS
  c1 = c1
  c2 = c2
  Clients = {c1, c2}
  Unlockers = {c2}
  Procs = {p1, p2}
  Nobody = nobody
  Objects = {"event"}
  CalendarName = "cal"
  Requests <- MCRequests
  DefaultTimeout = 1
  MaxTimeout = 2
  MaxNow = 2
  MaxRow = 3
  MaxRequests = 3
INVARIANTS
  OneExclusiveLock
  NothingOverlooked
PROPERTIES
  LocksNeverReturn
SYMMETRY ProcSymmetry
CHECK_DEADLOCK FALSE
