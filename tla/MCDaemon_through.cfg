\* Every call is saved; saves and commands fail, the process dies at any point.
CONSTANTS
  WorkspaceIds = {1, 2}
  SnapshotIds = {1}
  Limits = {l1}
  NoQuota = NoQuota
  Contents = {c0}
  Pristine = c0
  Layout <- NoLinks
  HostResolves <- Nothing
  GuestLeaves <- Nothing
  Faults = TRUE
  DefaultLimits = l1
  PolicyIds = {deny, p}
  DefaultPolicy = deny
  NoSnapshot = 0
  MaxTime = 0
  ClockGoesBack = FALSE
  GcLists <- PurgeLists
  Restarts = TRUE
  Retain = 1
  DeleteAfter = 0
  Dash = 99
  TicksPerSecond = 1
  Radix = 2
  NoFile = NoFile
  SaveFaults = TRUE
  WriteThrough = TRUE
SPECIFICATION DaemonSpec
INVARIANTS DaemonTypeOK ReloadsAreConsistent
PROPERTIES NothingInUseIsPurged
