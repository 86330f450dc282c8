-------------------------- MODULE InMemoryStorage ---------------------------
(***************************************************************************)
(* The in-memory backend of storage.rs, which the tests of the control     *)
(* plane run on, beside the btrfs backend it stands in for. It knows ids   *)
(* and nothing else; its calls are written as those of Storage are.        *)
(***************************************************************************)
EXTENDS ControlPlane

-----------------------------------------------------------------------------
(* impl StorageBackend for InMemoryStorage, on m = the ids it has.         *)

MemoryCreate(m, w) ==
  IF w \in m.workspaces THEN {Err(m)}
  ELSE {Ok([m EXCEPT !.workspaces = @ \cup {w}])}

MemoryClone(m, s, w) == IF s \notin m.snapshots THEN {Err(m)} ELSE MemoryCreate(m, w)

MemorySnapshot(m, w, s) ==
  IF w \notin m.workspaces \/ s \in m.snapshots THEN {Err(m)}
  ELSE {Ok([m EXCEPT !.snapshots = @ \cup {s}])}

MemoryDeleteWorkspace(m, w) ==
  IF w \notin m.workspaces THEN {Err(m)}
  ELSE {Ok([m EXCEPT !.workspaces = @ \ {w}])}

\* Mutated: what is there is looked up and not removed.
MemoryDeleteSnapshotFound(m, s) == IF s \notin m.snapshots THEN {Err(m)} ELSE {Ok(m)}

MemoryDeleteSnapshot(m, s) ==
  IF s \notin m.snapshots THEN {Err(m)}
  ELSE {Ok([m EXCEPT !.snapshots = @ \ {s}])}

MemorySetQuota(m, w) == IF w \notin m.workspaces THEN {Err(m)} ELSE {Ok(m)}

-----------------------------------------------------------------------------
(* Properties.                                                             *)

\* What the in-memory backend would have in the place of the disk d.
Ids(d) == [workspaces |-> DOMAIN d.roots, snapshots |-> DOMAIN d.snaps]

\* The calls of both backends have the same result and leave the same ids.
Agree(btrfs, memory) == {[ok |-> o.ok, disk |-> Ids(o.disk)] : o \in btrfs} = memory

\* As long as no command fails and the process does not restart, the storage
\* calls of every operation the control plane lets through turn out on btrfs as
\* they do in the tests: with the same result, and the same ids afterwards.
BackendsAgree ==
  LET m == Ids(disk)
  IN  /\ \A w \in WorkspaceIds \ DOMAIN workspaces :
           /\ Agree(Then(BtrfsCreate(disk, w),
                         LAMBDA d : BtrfsSetQuota(d, w, DefaultLimits)),
                    Then(MemoryCreate(m, w), LAMBDA n : MemorySetQuota(n, w)))
           /\ \A s \in DOMAIN snapshots :
                Agree(Then(BtrfsClone(disk, s, w),
                           LAMBDA d : BtrfsSetQuota(d, w, DefaultLimits)),
                      Then(MemoryClone(m, s, w), LAMBDA n : MemorySetQuota(n, w)))
      /\ \A w \in DOMAIN workspaces :
           /\ Ready(w) =>
                /\ \A s \in SnapshotIds \ DOMAIN snapshots :
                     Agree(BtrfsSnapshot(disk, w, s), MemorySnapshot(m, w, s))
                /\ \A limits \in Limits :
                     Agree(BtrfsSetQuota(disk, w, limits), MemorySetQuota(m, w))
           /\ Deleted(w) =>
                Agree(BtrfsDeleteWorkspace(disk, w), MemoryDeleteWorkspace(m, w))
      /\ \A s \in DOMAIN snapshots :
           SnapshotPurgeable(s) =>
             Agree(BtrfsDeleteSnapshot(disk, s), MemoryDeleteSnapshot(m, s))
=============================================================================
