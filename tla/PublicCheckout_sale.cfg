SPECIFICATION FairSpec
CONSTANTS
  p1 = p1
  p2 = p2
  t1 = t1
  t2 = t2
  Pages = {w1, w2}
  Hooks = {h1}
  Trips = {t1}
  Plans = {p1, p2}
  Price <- MCPrice
  Pax <- MCPax
  Sessions = {s1, s2}
  Opps = {o1, o2}
  NoTrip = NoTrip
  NoPlan = NoPlan
  NoOpp = NoOpp
  NoSession = NoSession
  Providers = {"STRIPE"}
  Reopens = FALSE
  Delayed = FALSE
  Drift = FALSE
  Outage = FALSE
CHECK_DEADLOCK FALSE
INVARIANTS OnePolicy PolicyIsWhatWasPaid IssuedIsWon
PROPERTY SaleSpec
