\* Two requests on up to three templates, interleaved and one at a time.
CONSTANTS
  Blank = Blank
  Garbled = Garbled
  Clients = {c1, c2}
  TemplateIDs = {a, b, c}
  MaxRequests = 6
SPECIFICATION Spec
SYMMETRY SameNames
CHECK_DEADLOCK FALSE
INVARIANTS DefaultStands SavesLandAlone FormsHold
