SPECIFICATION Spec
CONSTANTS
  Orgs = {home, other}
  MotherOrg = home
  Keys = {k1}
  Persons = {eva}
  Producers = {ana}
  Rates = {12}
  Shares <- Quarters
  Threads = {t1}
  MaxRequests = 2
  MaxRows = 1
  MaxDay = 1
  None = None
CHECK_DEADLOCK FALSE
INVARIANT ImportsStayHome
