\* Two browsers and two users: requests interleaved and one at a time.
CONSTANTS
  Garbled = Garbled
  Unread = Unread
  PerSecond = 2
  TTL = 5
  SigningKeys <- TwoKeys
  Subjects = {"", "u:1"}
  Moments = {0, 1, 2, 3}
  Current <- TodaysCost
  Least <- LeastCost
  Most <- MostCost
  SaltLen = 3
  MinSaltLen = 2
  KeyLen = 3
  MaxKeyLen = 4
  MinLen = 12
  MaxLen = 128
  Costs <- SomeCosts
  Lengths = {1, 2, 3, 4, 5}
  Plains = {"p", "q"}
  Clients = {c1, c2}
  Users = {u1, u2}
  MaxRequests = 4
SPECIFICATION Spec
SYMMETRY SameNames
CHECK_DEADLOCK FALSE
INVARIANTS UsersTold RootRemainsAlone SecretsHold RoutesGuarded
PROPERTY SessionsEndAlone
