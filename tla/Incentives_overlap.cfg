SPECIFICATION Spec
CONSTANTS
  Plans = {p1, p2}
  Sources = {s1, s2}
  Amounts = {1025}
  Agreed = {10, 20}
  Tiers <- TwoPercent
  Threads = {t1, t2}
  MaxRequests = 5
  None = None
SYMMETRY Symmetry
CHECK_DEADLOCK FALSE
INVARIANTS SettlementFollows MoneyFollowsClaim
PROPERTIES ClosedIsFrozen ReversedStays
