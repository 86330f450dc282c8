--------------------------------- MODULE Gc ---------------------------------
(***************************************************************************)
(* gc.rs: plan_gc, a function of the metadata m and of the time. It only   *)
(* reads; the list it returns is the caller's.                             *)
(***************************************************************************)
EXTENDS Maps, Integers, FiniteSets, Sequences

CONSTANTS
  Retain,      \* GcPolicy.retain_snapshots_per_workspace
  DeleteAfter  \* GcPolicy.delete_deleted_workspaces_after

ASSUME GcAssumption == Retain \in Nat /\ DeleteAfter \in Nat

\* duration_since fails for a time in the future: its age is zero.
Age(now, then) == IF then <= now THEN now - then ELSE 0

\* Mutated: every soft-deleted workspace.
ExpiredAtOnce(m, now) ==
  {w \in DOMAIN m.workspaces : m.workspaces[w].state = "Deleted"}

Expired(m, now) ==
  {w \in DOMAIN m.workspaces :
     /\ m.workspaces[w].state = "Deleted"
     /\ Age(now, m.workspaces[w].accessed) >= DeleteAfter}

\* The snapshots some workspace is a branch of, soft-deleted or not.
Protected(m) == {m.workspaces[w].parent : w \in DOMAIN m.workspaces}

\* Mutated: oldest first, the Reverse left out.
Older(m, s, t) ==
  \/ m.snapshots[s].created < m.snapshots[t].created
  \/ m.snapshots[s].created = m.snapshots[t].created /\ s < t

\* Newest first; the sort is stable, so by id when the times are equal.
Newer(m, s, t) ==
  \/ m.snapshots[s].created > m.snapshots[t].created
  \/ m.snapshots[s].created = m.snapshots[t].created /\ s < t

\* Those past the first Retain of their workspace.
Surplus(m) ==
  {s \in DOMAIN m.snapshots :
     Cardinality({t \in DOMAIN m.snapshots :
        /\ m.snapshots[t].workspace = m.snapshots[s].workspace
        /\ Newer(m, t, s)}) >= Retain}

\* Grouped by the workspace the snapshots were taken of.
PlannedBefore(m, s, t) ==
  \/ m.snapshots[s].workspace < m.snapshots[t].workspace
  \/ m.snapshots[s].workspace = m.snapshots[t].workspace /\ Newer(m, s, t)

\* The elements of S, each once, in the order of the pairs in before.
InOrder(S, before) ==
  CHOOSE seq \in [1..Cardinality(S) -> S] :
    \A i, j \in 1..Cardinality(S) : i < j => <<seq[i], seq[j]>> \in before

\* A BTreeMap is iterated in the order of its keys.
WorkspacesInOrder(m) ==
  {p \in (DOMAIN m.workspaces) \X (DOMAIN m.workspaces) : p[1] < p[2]}
SnapshotsInOrder(m) ==
  {p \in (DOMAIN m.snapshots) \X (DOMAIN m.snapshots) : PlannedBefore(m, p[1], p[2])}

Actions(kind, ids) == [i \in DOMAIN ids |-> [kind |-> kind, id |-> ids[i]]]

DeleteWorkspaces(m, now) ==
  Actions("DeleteWorkspace", InOrder(Expired(m, now), WorkspacesInOrder(m)))
DeleteSnapshots(m, ids) ==
  Actions("DeleteSnapshot", InOrder(ids, SnapshotsInOrder(m)))

\* Mutated: the parents of branches are not protected.
PlanGcUnprotected(m, now) ==
  DeleteWorkspaces(m, now) \o DeleteSnapshots(m, Surplus(m))

\* Mutated: one action at a time.
PlanGcBatched(m, now) ==
  LET actions == DeleteWorkspaces(m, now) \o DeleteSnapshots(m, Surplus(m) \ Protected(m))
  IN  SubSeq(actions, 1, IF actions = <<>> THEN 0 ELSE 1)

PlanGc(m, now) ==
  DeleteWorkspaces(m, now) \o DeleteSnapshots(m, Surplus(m) \ Protected(m))
=============================================================================
