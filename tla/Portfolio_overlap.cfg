SPECIFICATION Spec
CONSTANTS
  Orgs = {home}
  MotherOrg = home
  Keys = {k1, k2}
  Persons = {eva}
  Producers = {ana, beto}
  Rates = {12}
  Shares <- Quarters
  Threads = {t1, t2}
  MaxRequests = 3
  MaxRows = 2
  MaxDay = 2
  None = None
SYMMETRY Symmetry
CHECK_DEADLOCK FALSE
INVARIANTS DerivedOnce NumberOnce EveryPolicyFollowed AlwaysOneProducer ProducerHistory
