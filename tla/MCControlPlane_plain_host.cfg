\* A host that is not NixOS: it has no /run/current-system/sw.
CONSTANTS
  WorkspaceIds = {w1, w2}
  SnapshotIds = {s1}
  Limits = {l1}
  NoQuota = NoQuota
  Contents = {c0, c1}
  Pristine = c0
  Layout <- OneLink
  HostResolves <- NoneResolve
  GuestLeaves <- NoDangling
  Faults = FALSE
  DefaultLimits = l1
  PolicyIds = {deny}
  DefaultPolicy = deny
  NoSnapshot = NoSnapshot
  MaxTime = 0
  ClockGoesBack = FALSE
  GcLists <- NoLists
  Restarts = FALSE
SPECIFICATION Spec
INVARIANTS NothingLeaks
