\* Two requests on a template of up to three steps, interleaved and one at a time.
CONSTANTS
  Clients = {c1, c2}
  Types = {t1, t2, t3}
  Items = {i1, i2, i3, i4}
  Earliest = 1
  MaxRequests = 5
SPECIFICATION Spec
SYMMETRY SameNames
CHECK_DEADLOCK FALSE
INVARIANTS ListStands TrailTells
PROPERTY KeepsTheListAlone
