\* A shift and a fact stamped at the same time: done work moves.
CONSTANTS
  NoDay = NoDay
  t1 = t1
  t2 = t2
  t3 = t3
  Clients = {c1, c2}
  Types = {t1, t2}
  Milestones = {m1, m2, m3}
  Horizon = 2
  LastDay = 1
  Paths <- TwoSteps
  Targets = {1}
  MaxRequests = 4
  DueWindow = 1
  Tables <- SomeTables
  Screens <- SomeScreens
  ListDays = {0, 1, 2, 3}
SPECIFICATION Spec
SYMMETRY SameRowsAndClients
CHECK_DEADLOCK FALSE
PROPERTY DoneStays
