SPECIFICATION Spec
CONSTANTS
  Users = {ana, beto}
  Producers = {beto}
  Executives = {beto}
  Persons = {eva}
  Threads = {t1, t2}
  MaxRequests = 4
  MaxProspects = 1
  MaxOpps = 2
  MaxCustomers = 2
  MaxActivities = 1
  None = None
SYMMETRY Symmetry
CHECK_DEADLOCK FALSE
INVARIANTS OneCustomerEach StampsFollowStage ListedOpens
