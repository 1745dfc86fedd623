\* Two requests on a strip of up to four photos, interleaved and one at a time.
CONSTANTS
  Clients = {c1, c2}
  Keys = {k1, k2}
  Photos = {p1, p2, p3, p4}
  MaxFiles = 2
  MaxRequests = 4
SPECIFICATION Spec
SYMMETRY SameNames
CHECK_DEADLOCK FALSE
INVARIANTS StripStands CoverStandsAlone
PROPERTY KeepsTheListAlone
