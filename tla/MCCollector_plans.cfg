\* Plans of any age, without faults; the clock may be set back.
CONSTANTS
  WorkspaceIds = {1, 2}
  SnapshotIds = {1, 2}
  Limits = {l1}
  NoQuota = NoQuota
  Contents = {c0}
  Pristine = c0
  Layout <- NoLinks
  HostResolves <- NoneResolve
  GuestLeaves <- Nothing
  Faults = FALSE
  DefaultLimits = l1
  PolicyIds = {deny}
  DefaultPolicy = deny
  NoSnapshot = NoSnapshot
  MaxTime = 1
  ClockGoesBack = TRUE
  GcLists <- NoLists
  Restarts = FALSE
  Retain = 1
  DeleteAfter = 1
SPECIFICATION CollectorSpec
INVARIANTS CollectorTypeOK FreshPlanCompletes NewestAreKept TwoPassesSettle
PROPERTIES CollectedWereDue
