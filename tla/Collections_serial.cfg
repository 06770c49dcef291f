SPECIFICATION Spec
CONSTANTS
  Clerks = {c1}
  Promises = {p1, p2}
  Premiums = {1, 5}
  Counts = {1, 2}
  Money = {1, 3}
  Tenders = {4, 11, 30}
  MaxRows = 2
  LastDay = 1
SYMMETRY SamePromises
CHECK_DEADLOCK FALSE
INVARIANTS NotOverpaid OnePerInstallment
PROPERTIES LockedIsFrozen ResolvedIsFinal
