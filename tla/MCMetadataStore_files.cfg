\* Files whole, or cut by a crash, a full disk or a reader beside the writer;
\* two ticks to the second, so that a saved time may lose half a second.
CONSTANTS
  WorkspaceIds = {1, 2}
  SnapshotIds = {1, 2}
  Limits = {l1}
  NoQuota = NoQuota
  Contents = {c0}
  Pristine = c0
  Layout <- NoLinks
  HostResolves <- Nothing
  GuestLeaves <- Nothing
  Faults = FALSE
  DefaultLimits = l1
  PolicyIds = {deny}
  DefaultPolicy = deny
  NoSnapshot = 0
  MaxTime = 3
  ClockGoesBack = TRUE
  GcLists <- Nothing
  Restarts = FALSE
  Retain = 1
  DeleteAfter = 2
  Dash = 99
  TicksPerSecond = 2
  Radix = 2
SPECIFICATION Spec
INVARIANTS SavedIsLoaded ReloadedPlansAreClose TornPoliciesResolve TornPlansAreDue
