SPECIFICATION Spec
CONSTANTS
  u1 = u1
  u2 = u2
  u3 = u3
  t1 = t1
  t2 = t2
  p1 = p1
  p2 = p2
  i1 = i1
  None = None
  Users = {u1, u2, u3}
  Tenants = {t1, t2}
  Home <- MCHome
  First = u1
  Staff <- MCTwoAdmins
  Before = p1
  Passwords = {p1, p2}
  Identities = {i1}
  Requests = {r1, r2}
  Asked <- MCAsked
  MaxBytes = 1
  MaxWrites = 3
PROPERTIES
  LastAdminKept
CHECK_DEADLOCK FALSE
