\* Two requests on three steps, interleaved and one at a time.
CONSTANTS
  NoDay = NoDay
  t1 = t1
  t2 = t2
  t3 = t3
  Clients = {c1, c2}
  Types = {t1, t2, t3}
  Milestones = {m1, m2, m3}
  Horizon = 2
  LastDay = 1
  Paths <- ThreeSteps
  Targets = {1}
  MaxRequests = 3
  DueWindow = 1
  Tables <- SomeTables
  Screens <- SomeScreens
  ListDays = {0, 1, 2, 3}
SPECIFICATION Spec
SYMMETRY SameRowsAndClients
CHECK_DEADLOCK FALSE
INVARIANTS AloneInv TrailTellsAlone ApplyFitsAlone ListsAgree
PROPERTIES BaselineStands KeepsTheBookAlone
