SPECIFICATION Spec
CONSTANTS
  Plans = {"oficina", "enterprise"}
  Sold = {"oficina"}
  DefaultPlan = "profesional"
  Codes = {k1}
  Users = {u1, u2}
  Threads = {t1, t2}
  MaxRequests = 5
  MaxCustomers = 3
  MaxReceipts = 1
  MaxSessions = 1
  MaxDeletes = 2
SYMMETRY Symmetry
CHECK_DEADLOCK FALSE
INVARIANTS AccessWasGranted RetryPaysOnce
PROPERTIES ActivationStays DecisionStands
