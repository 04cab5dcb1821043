SPECIFICATION Spec
CONSTANTS
  c1 = c1
  c2 = c2
  Clients = {c1, c2}
  Unlockers = {c2}
  Procs = {p1, p2}
  Requests <- MCRequests
  InitialTree <- MCTree
  DefaultTimeout = 1
  MaxTimeout = 2
  MaxNow = 2
  MaxRequests = 3
INVARIANTS
  ConflictsExplained
PROPERTIES
  LocksNeverReturn
  MembershipGuarded
SYMMETRY ProcSymmetry
CHECK_DEADLOCK FALSE
