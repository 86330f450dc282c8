\* No faults and no restarts: nothing may leak, and branches are copies.
CONSTANTS
  WorkspaceIds = {w1, w2}
  SnapshotIds = {s1, s2}
  Limits = {l1}
  NoQuota = NoQuota
  Contents = {c0, c1}
  Pristine = c0
  Layout <- OneLink
  HostResolves <- AllResolve
  GuestLeaves <- NoDangling
  Faults = FALSE
  DefaultLimits = l1
  PolicyIds = {deny}
  DefaultPolicy = deny
  NoSnapshot = NoSnapshot
  MaxTime = 0
  ClockGoesBack = FALSE
  GcLists <- ShortLists
  Restarts = FALSE
SPECIFICATION Spec
INVARIANTS NothingLeaks BackendsAgree
PROPERTIES BranchesCopyTheirSnapshot
