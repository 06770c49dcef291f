SPECIFICATION Spec
CONSTANTS
  q1 = q1
  q2 = q2
  c1 = c1
  c2 = c2
  Customers = {c1, c2}
  Policies = {q1, q2}
  Client <- Clients
  Producers = {ana}
  Office = office
  Ids = {i1}
  Contents = {x, y}
  Threads = {t1, t2}
  Cooldown = 2
  Rank <- Ranks
  FetchLimit = 1
  PageLimit = 1
  NoteLimit = 2
  MaxRequests = 3
  MaxDay = 3
  None = None
SYMMETRY Symmetry
CONSTRAINT Apart
CHECK_DEADLOCK FALSE
INVARIANTS SyncedIsStored DocumentHasFile  ListedOpens
