SPECIFICATION FairSpec
CONSTANTS
  Clients = {c1, c2}
  k1 = k1
  k2 = k2
  k3 = k3
  Keys = {k1, k2, k3}
  NoKey = NoKey
  Blank = Blank
  Unread = Unread
  Size <- Sizes
  MaxSize = 2
  MinSecret = 32
  Latest = 2
  Settings <- SomeSettings
  Accepted = {k1, k2}
  MaxRequests = 2
  MaxStarts = 2
  MaxOutages = 1
  MaxBackups = 1
CHECK_DEADLOCK FALSE
INVARIANTS FilesStand RowsHaveBlobs BackupFits BootHolds
PROPERTIES CleanCutsNobody StoresBlobs WorkEnds
