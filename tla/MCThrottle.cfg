\* Six-bit durations: the shift wraps below zero and past it within six attempts.
CONSTANTS
  Attempts = {c1, c2}
  Keys = {k1, k2, k3}
  Free = 2
  Base = 5
  Longest = 12
  Width = 6
  SweepAt = 2
  Pauses = {5, 7}
  LastMoment = 14
  MaxTries = 6
SPECIFICATION ThrottleSpec
SYMMETRY SameNames
CHECK_DEADLOCK FALSE
INVARIANT RecordsDouble
PROPERTIES WaitStands RecentWhenFull TriesWaitAlone
