SPECIFICATION Spec
CONSTANTS
  Persons = {ana, beto, root}
  Founder = ana
  Pilots = {beto, root}
  Platform = {root}
  SoleOrg = TRUE
  Offered = {"OWNER", "BROKER", "PRODUCER"}
  SeatLimits <- SmallLimits
  MaxInvites = 2
  MaxTokens = 2
  MaxRequests = 4
  Threads = {t1, t2}
SYMMETRY ThreadSymmetry
CHECK_DEADLOCK FALSE
INVARIANTS ActiveIsLinked TokensFollowAccess
PROPERTIES SeatsHeld OwnerKept OldInvitationsStayShut
