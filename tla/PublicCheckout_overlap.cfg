SPECIFICATION Spec
CONSTANTS
  p1 = p1
  p2 = p2
  t1 = t1
  t2 = t2
  Pages = {w1, w2}
  Hooks = {h1}
  Trips = {t1}
  Plans = {p1}
  Price <- MCPrice
  Pax <- MCPax
  Sessions = {s1}
  Opps = {o1, o2}
  NoTrip = NoTrip
  NoPlan = NoPlan
  NoOpp = NoOpp
  NoSession = NoSession
  Providers = {"STRIPE", "SANDBOX"}
  Reopens = TRUE
  Delayed = FALSE
  Drift = FALSE
  Outage = FALSE
SYMMETRY Symmetry
CONSTRAINT Kept
CHECK_DEADLOCK FALSE
INVARIANTS CompletedIsIssued
PROPERTIES SucceededIsFinal
