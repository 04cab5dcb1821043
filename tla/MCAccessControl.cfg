SPECIFICATION Spec
CONSTANTS
  u1 = u1
  u2 = u2
  g1 = g1
  g2 = g2
  g3 = g3
  none = none
  None = none
  Users = {u1, u2}
  Groups = {g1, g2, g3}
  Spare = {g3}
  Start <- MCStart
  NewRows <- MCNewRows
  Admins = {a1, a2}
  Requests = {r1}
  MaxWrites = 2
  MaxBusy = 2
  Resources <- MCResources
  Parent <- MCParent
  Owner <- MCOwner
  Wanted = {"read"}
  Lists <- MCLists
  StartLists <- MCStartLists
INVARIANTS
  AnswersExplained
  OwnerKeepsAccess
  MembershipsAcyclic
PROPERTY
  EvaluationsEnd
CHECK_DEADLOCK FALSE
