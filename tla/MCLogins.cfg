SPECIFICATION Spec
CONSTANTS
  Addresses = {a1, a2}
  Slots = {p1, p2}
  Configurations <- MCConfigurations
  Ttl = 1
  StaleGrace = 1
  MaxEntries = 1
  MaxFailures = 2
  WindowLength = 2
  MaxTracked = 1
  MaxNonces = 2
  MaxNc = 2
  MaxNow = 2
INVARIANTS
  NoncesRemembered
  FailuresBounded
PROPERTIES
  SingleUse
  WindowStands
SYMMETRY Symmetry
