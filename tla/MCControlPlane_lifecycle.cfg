\* Storage faults and restarts at any point; two workspaces, one snapshot, two
\* quotas, two policies.
CONSTANTS
  WorkspaceIds = {w1, w2}
  SnapshotIds = {s1}
  Limits = {l1, l2}
  NoQuota = NoQuota
  Contents = {c0, c1}
  Pristine = c0
  Layout <- OneLink
  HostResolves <- AllResolve
  GuestLeaves = {"dangling"}
  Faults = TRUE
  DefaultLimits = l1
  PolicyIds = {deny, open}
  DefaultPolicy = deny
  NoSnapshot = NoSnapshot
  MaxTime = 0
  ClockGoesBack = FALSE
  GcLists <- ShortLists
  Restarts = TRUE
SPECIFICATION Spec
INVARIANTS TypeOK ParentsLive MetadataBacked QuotaAgrees PoliciesResolve
PROPERTIES
  DestroyedOnlyWhenReleased
  ImagesAreFrozen
  RootsAreLeftAlone
  CreatedRootsAreEmpty
  ImplementsLifecycle
  PolicyChangesAreExplicit
SYMMETRY Symmetry
