SPECIFICATION MCSpec
CONSTANTS
  u1 = u1
  u2 = u2
  bx = bx
  by = by
  Users = {u1, u2}
  Bodies = {bx, by}
  Size <- MCSize
  UserLimit <- MCUserLimit
  TenantLimit = 6
  Procs = {p1, p2}
  Requests <- MCRequests
  MaxRequests = 4
INVARIANTS
  WithinLimit
  QuotaCoversStored
  LogAgrees
  TreeIsSound
  ContentsMatch
PROPERTIES
  MembershipLogged
SYMMETRY ProcSymmetry
CHECK_DEADLOCK FALSE
