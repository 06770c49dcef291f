SPECIFICATION Spec
CONSTANTS
  Clerks = {c1, c2}
  Promises = {p1, p2}
  Premiums = {2}
  Counts = {1, 2}
  Money = {1, 2}
  Tenders = {4, 11}
  MaxRows = 2
  LastDay = 0
SYMMETRY SamePeople
CHECK_DEADLOCK FALSE
INVARIANTS FulfilledIsPaid PromiseHasInstallment
PROPERTY MoneyIsKept
