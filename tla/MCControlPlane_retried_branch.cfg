\* A branch whose quota command failed is tried again.
CONSTANTS
  WorkspaceIds = {w1, w2}
  SnapshotIds = {s1}
  Limits = {l1}
  NoQuota = NoQuota
  Contents = {c0, c1}
  Pristine = c0
  Layout <- NoLinks
  HostResolves <- NoneResolve
  GuestLeaves <- Anything
  Faults = TRUE
  DefaultLimits = l1
  PolicyIds = {deny}
  DefaultPolicy = deny
  NoSnapshot = NoSnapshot
  MaxTime = 0
  ClockGoesBack = FALSE
  GcLists <- NoLists
  Restarts = FALSE
SPECIFICATION Spec
PROPERTIES BranchesCopyTheirSnapshot
