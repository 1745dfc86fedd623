\* Two requests at a time on two connections.
CONSTANTS
  None = None
  s1 = s1
  s2 = s2
  d1 = d1
  m1 = m1
  Clients = {c1, c2}
  Seasons = {s1, s2, s3}
  Drops = {d1, d2}
  Models = {m1, m2}
  Types = {t1}
  Names = {1, 2}
  Horizon = 1
  MaxConns = 2
  MaxRequests = 2
  DefaultLimit = 2
  MaxLimit = 3
  Held <- TwoSeasons
  SeasonLists <- SomeSeasonLists
  OpenDays = {0, 1, 2, 3}
  Trails <- SomeTrails
  Limits = {0, 1, 2, 3, 4}
  ScopeLists <- SomeScopeLists
SPECIFICATION FairSpec
CHECK_DEADLOCK FALSE
INVARIANTS TablesStand ScreensAgree ChoicesHold
PROPERTIES TrailInOrder EveryRequestEnds
