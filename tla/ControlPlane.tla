---------------------------- MODULE ControlPlane ----------------------------
(***************************************************************************)
(* control.rs: the control plane, its in-memory metadata and the storage   *)
(* it drives. Every operation takes &mut self, so it runs alone; the one   *)
(* that is a loop, execute_gc_actions, is a step per iteration, with every *)
(* other operation shut out until it returns.                              *)
(*                                                                         *)
(* An error return that changes nothing is a stuttering step and needs no  *)
(* action; one that leaves something behind is a disjunct of its action.   *)
(***************************************************************************)
EXTENDS Storage

CONSTANTS
  DefaultLimits,   \* ResourceLimits::default()
  PolicyIds, DefaultPolicy, \* network policies and ControlPlane.default_policy
  NoSnapshot,      \* parent_snapshot: None
  MaxTime,         \* bound of the clock
  ClockGoesBack,   \* whether the wall clock may be set back
  GcLists,         \* the action lists execute_gc_actions is called with
  Restarts         \* whether the process may restart

PolicyKinds == {"DenyAll", "AllowEgress"}
Times == 0..MaxTime

Workspace == [parent   : SnapshotIds \cup {NoSnapshot},
              limits   : Limits,
              policy   : PolicyIds,
              state    : {"Ready", "Deleted"},
              accessed : Times]
Snapshot == [workspace : WorkspaceIds, created : Times]

\* enum GcAction
GcAction == [kind : {"DeleteWorkspace"}, id : WorkspaceIds]
              \cup [kind : {"DeleteSnapshot"}, id : SnapshotIds]

ASSUME ControlPlaneAssumption ==
  /\ DefaultLimits \in Limits
  /\ DefaultPolicy \in PolicyIds
  /\ NoSnapshot \notin SnapshotIds
  /\ MaxTime \in Nat
  /\ ClockGoesBack \in BOOLEAN
  /\ GcLists \subseteq Seq(GcAction)
  /\ Restarts \in BOOLEAN

VARIABLES
  workspaces,  \* InMemoryMetadata.workspaces
  snapshots,   \* InMemoryMetadata.snapshots
  policies,    \* InMemoryMetadata.policies: the kind of each policy id
  disk,        \* what the storage backend has under the state root
  clock,       \* SystemTime::now()
  queue        \* what execute_gc_actions still has to do; <<>> when not running

\* ControlPlane.metadata, as its readers get it.
Metadata == [workspaces |-> workspaces, snapshots |-> snapshots, policies |-> policies]
vars == <<workspaces, snapshots, policies, disk, clock, queue>>

\* ControlPlane::new over an empty state root.
NewPolicies == Put(EmptyMap, DefaultPolicy, "DenyAll")

Init ==
  /\ workspaces = EmptyMap
  /\ snapshots = EmptyMap
  /\ policies = NewPolicies
  /\ disk = [roots |-> EmptyMap, snaps |-> EmptyMap]
  /\ clock = 0
  /\ queue = <<>>

\* No call is in progress.
Idle == queue = <<>>

\* Mutated: the state is not looked at.
ReadyOrDeleted(w) == w \in DOMAIN workspaces

\* fn ready_workspace
Ready(w) == w \in DOMAIN workspaces /\ workspaces[w].state = "Ready"

\* Mutated: a workspace without a record will do.
DeletedOrUnknown(w) == w \in DOMAIN workspaces => workspaces[w].state = "Deleted"

\* What purge_workspace demands before it touches storage.
Deleted(w) == w \in DOMAIN workspaces /\ workspaces[w].state = "Deleted"

\* Mutated: soft-deleted branches do not count.
UsedByReadyBranch(s) == \E w \in DOMAIN workspaces : workspaces[w].parent = s /\ Ready(w)

\* Some workspace in the metadata, soft-deleted or not, is a branch of s.
UsedByBranch(s) == \E w \in DOMAIN workspaces : workspaces[w].parent = s

-----------------------------------------------------------------------------
(* Creating: storage first, then the quota, then the metadata. An error    *)
(* leaves whatever storage did without a record of it.                     *)

\* Mutated: without limits.
NewUnlimitedWorkspace(parent) ==
  [parent |-> parent, limits |-> NoQuota, policy |-> DefaultPolicy,
   state |-> "Ready", accessed |-> clock]

NewWorkspace(parent) ==
  [parent |-> parent, limits |-> DefaultLimits, policy |-> DefaultPolicy,
   state |-> "Ready", accessed |-> clock]

\* set_quota and, when all went well, the insertion of the new workspace.
Admit(w, parent, storage) ==
  \E o \in Then(storage, LAMBDA d : BtrfsSetQuota(d, w, DefaultLimits)) :
    /\ disk' = o.disk
    /\ workspaces' = IF o.ok THEN Put(workspaces, w, NewWorkspace(parent))
                             ELSE workspaces

\* Mutated: the default policy is put back.
CreateWorkspaceWithPolicy(w) ==
  /\ Idle
  /\ w \notin DOMAIN workspaces
  /\ Admit(w, NoSnapshot, BtrfsCreate(disk, w))
  /\ policies' = Put(policies, DefaultPolicy, "DenyAll")
  /\ UNCHANGED <<snapshots, clock, queue>>

CreateWorkspace(w) ==
  /\ Idle
  /\ w \notin DOMAIN workspaces
  /\ Admit(w, NoSnapshot, BtrfsCreate(disk, w))
  /\ UNCHANGED <<snapshots, policies, clock, queue>>

BranchWorkspace(s, w) ==
  /\ Idle
  /\ w \notin DOMAIN workspaces
  /\ s \in DOMAIN snapshots
  /\ Admit(w, s, BtrfsClone(disk, s, w))
  /\ UNCHANGED <<snapshots, policies, clock, queue>>

SnapshotWorkspace(w, s) ==
  /\ Idle
  /\ Ready(w)
  /\ s \notin DOMAIN snapshots
  /\ \E o \in BtrfsSnapshot(disk, w, s) :
       /\ disk' = o.disk
       /\ snapshots' = IF o.ok
                       THEN Put(snapshots, s, [workspace |-> w, created |-> clock])
                       ELSE snapshots
  /\ UNCHANGED <<workspaces, policies, clock, queue>>

-----------------------------------------------------------------------------
(* Deleting: soft, then purged. Purging removes the subvolume first and    *)
(* the record only when that succeeded; `ok' is the result of the call.    *)

DeleteWorkspace(w) ==
  /\ Idle
  /\ Ready(w)
  /\ workspaces' = [workspaces EXCEPT ![w].state = "Deleted"]
  /\ UNCHANGED <<snapshots, policies, disk, clock, queue>>

PurgeWorkspace(w, ok) ==
  \/ /\ ~Deleted(w)
     /\ ~ok
     /\ UNCHANGED <<workspaces, snapshots, disk>>
  \/ /\ Deleted(w)
     /\ \E o \in BtrfsDeleteWorkspace(disk, w) :
          /\ ok = o.ok
          /\ disk' = o.disk
          /\ workspaces' = IF o.ok THEN Drop(workspaces, w) ELSE workspaces
     /\ UNCHANGED snapshots

\* What purge_snapshot demands before it touches storage.
SnapshotPurgeable(s) == ~UsedByBranch(s) /\ s \in DOMAIN snapshots

PurgeSnapshot(s, ok) ==
  \/ /\ ~SnapshotPurgeable(s)
     /\ ~ok
     /\ UNCHANGED <<workspaces, snapshots, disk>>
  \/ /\ SnapshotPurgeable(s)
     /\ \E o \in BtrfsDeleteSnapshot(disk, s) :
          /\ ok = o.ok
          /\ disk' = o.disk
          /\ snapshots' = IF o.ok THEN Drop(snapshots, s) ELSE snapshots
     /\ UNCHANGED workspaces

Purge(action, ok) ==
  \/ action.kind = "DeleteWorkspace" /\ PurgeWorkspace(action.id, ok)
  \/ action.kind = "DeleteSnapshot" /\ PurgeSnapshot(action.id, ok)

\* Mutated: the policy of a purged workspace goes with it.
PurgeOneWithPolicy(action) ==
  /\ Idle
  /\ \E ok \in BOOLEAN :
       /\ Purge(action, ok)
       /\ policies' = IF ok /\ action.kind = "DeleteWorkspace"
                      THEN Drop(policies, workspaces[action.id].policy)
                      ELSE policies
  /\ UNCHANGED <<clock, queue>>

\* purge_workspace or purge_snapshot called by itself.
PurgeOne(action) ==
  /\ Idle
  /\ \E ok \in BOOLEAN : Purge(action, ok)
  /\ UNCHANGED <<policies, clock, queue>>

ExecuteGcActions(actions) ==
  /\ Idle
  /\ queue' = actions
  /\ UNCHANGED <<workspaces, snapshots, policies, disk, clock>>

\* One iteration: `?' abandons the rest of the list at the first error.
GcStep ==
  /\ ~Idle
  /\ \E ok \in BOOLEAN :
       /\ Purge(Head(queue), ok)
       /\ queue' = IF ok THEN Tail(queue) ELSE <<>>
  /\ UNCHANGED <<policies, clock>>

-----------------------------------------------------------------------------
(* Settings and sessions.                                                  *)

\* The quota first, the metadata only when it could be set.
SetLimits(w, limits) ==
  /\ Idle
  /\ Ready(w)
  /\ \E o \in BtrfsSetQuota(disk, w, limits) :
       /\ disk' = o.disk
       /\ workspaces' = IF o.ok THEN [workspaces EXCEPT ![w].limits = limits]
                                ELSE workspaces
  /\ UNCHANGED <<snapshots, policies, clock, queue>>

\* insert_policy replaces a policy of that id for every workspace that has it.
SetNetworkPolicy(w, p, kind) ==
  /\ Idle
  /\ Ready(w)
  /\ policies' = Put(policies, p, kind)
  /\ workspaces' = [workspaces EXCEPT ![w].policy = p]
  /\ UNCHANGED <<snapshots, disk, clock, queue>>

\* What a container run on the root of w can leave behind: anything in its
\* files, or nothing (it did not start, or changed nothing).
RunSession(w) ==
  \/ UNCHANGED disk
  \/ /\ w \in DOMAIN disk.roots
     /\ \E c \in Contents, l \in [Entries -> GuestLeaves],
           n \in SUBSET disk.roots[w].nested :
          disk' = [disk EXCEPT !.roots[w].data = c, !.roots[w].layout = l,
                               !.roots[w].nested = n]

OpenSession(w) ==
  /\ Idle
  /\ Ready(w)
  /\ workspaces[w].policy \in DOMAIN policies
  /\ workspaces' = [workspaces EXCEPT ![w].accessed = clock]
  /\ RunSession(w)
  /\ UNCHANGED <<snapshots, policies, clock, queue>>

-----------------------------------------------------------------------------
(* The environment.                                                        *)

\* SystemTime is the wall clock, not a monotonic one.
Tick ==
  /\ clock' \in {t \in Times : t = clock + 1 \/ (ClockGoesBack /\ t < clock)}
  /\ UNCHANGED <<workspaces, snapshots, policies, disk, queue>>

\* The process dies, at any point of a list, and starts again with
\* ControlPlane::new: empty metadata over the disk as it was left.
Restart ==
  /\ Restarts
  /\ workspaces' = EmptyMap
  /\ snapshots' = EmptyMap
  /\ policies' = NewPolicies
  /\ queue' = <<>>
  /\ UNCHANGED <<disk, clock>>

Operation ==
  \/ \E w \in WorkspaceIds :
       \/ CreateWorkspace(w)
       \/ DeleteWorkspace(w)
       \/ OpenSession(w)
       \/ \E s \in SnapshotIds : SnapshotWorkspace(w, s) \/ BranchWorkspace(s, w)
       \/ \E limits \in Limits : SetLimits(w, limits)
       \/ \E p \in PolicyIds, kind \in PolicyKinds : SetNetworkPolicy(w, p, kind)
  \/ \E action \in GcAction : PurgeOne(action)

Next ==
  \/ Operation
  \/ \E actions \in GcLists : ExecuteGcActions(actions)
  \/ GcStep
  \/ Tick
  \/ Restart

Spec == Init /\ [][Next]_vars

-----------------------------------------------------------------------------
(* Invariants.                                                             *)

\* The types of the variables of control.rs:13 and storage.rs:112.
TypeOK ==
  /\ IsMap(workspaces, WorkspaceIds, Workspace)
  /\ IsMap(snapshots, SnapshotIds, Snapshot)
  /\ IsMap(policies, PolicyIds, PolicyKinds)
  /\ IsDisk(disk)
  /\ clock \in Times
  /\ queue \in Seq(GcAction)

\* The snapshot a branch was made from is still there, whatever was purged, by
\* hand or by a list of actions planned long before (control.rs:225).
ParentsLive ==
  \A w \in DOMAIN workspaces :
    workspaces[w].parent # NoSnapshot => workspaces[w].parent \in DOMAIN snapshots

\* open_session never meets a workspace whose network policy is missing
\* (control.rs:296): the error it has for that case is unreachable.
PoliciesResolve ==
  \A w \in DOMAIN workspaces : workspaces[w].policy \in DOMAIN policies

\* No record without its subvolume: an operation that fails half-way never
\* leaves a workspace or snapshot in the metadata that storage does not have.
MetadataBacked ==
  /\ DOMAIN workspaces \subseteq DOMAIN disk.roots
  /\ DOMAIN snapshots \subseteq DOMAIN disk.snaps

\* The disk limit the metadata reports is the one the file system enforces,
\* also after a quota command failed (control.rs:123,185,260).
QuotaAgrees ==
  \A w \in DOMAIN workspaces \cap DOMAIN disk.roots :
    disk.roots[w].quota = workspaces[w].limits

\* Without failures and restarts storage holds exactly what the metadata
\* records, and every soft-deleted workspace can be purged: nothing leaks.
NothingLeaks ==
  /\ DOMAIN disk.roots = DOMAIN workspaces
  /\ DOMAIN disk.snaps = DOMAIN snapshots
  /\ \A w \in DOMAIN disk.roots : disk.roots[w].nested = {}

-----------------------------------------------------------------------------
(* Action properties.                                                      *)

\* The files of a workspace are destroyed only after it was soft-deleted,
\* those of a snapshot only when no workspace is a branch of it; in
\* particular nothing the metadata has no record of is ever destroyed.
DestroyedOnlyWhenReleased ==
  [][/\ \A w \in DOMAIN disk.roots \ DOMAIN disk'.roots : Deleted(w)
     /\ \A s \in DOMAIN disk.snaps \ DOMAIN disk'.snaps : SnapshotPurgeable(s)]_vars

\* A snapshot never changes once taken, not even when a restart forgot it and
\* its id is taken again: the record is lost, the image is not overwritten.
ImagesAreFrozen ==
  [][\A s \in DOMAIN disk.snaps \cap DOMAIN disk'.snaps :
       disk'.snaps[s] = disk.snaps[s]]_vars

SameFiles(r, t) ==
  t.data = r.data /\ t.layout = r.layout /\ t.nested = r.nested

\* Entries may have been made where there were none, in the way Created does.
Completed(layout, after) ==
  \A e \in Entries :
    after[e] # layout[e] => layout[e] = "absent" /\ after[e] = Created(e)

\* The root t is r with a copy of the snapshot s inside and its layout completed.
ClonedInto(r, t, s) ==
  /\ t.data = r.data
  /\ t.nested = r.nested \cup {s}
  /\ Completed(r.layout, t.layout)

\* What is in a root that is there changes in a session on it and in no other
\* step but one: a branch to an id that is free, onto the root an earlier error
\* or restart left behind, which it keeps and clones the snapshot into
\* (storage.rs:201). No create, retry, purge or quota call, and no call for
\* another workspace, touches a file of it.
RootsAreLeftAlone ==
  [][\A w \in DOMAIN disk.roots \cap DOMAIN disk'.roots :
       \/ SameFiles(disk.roots[w], disk'.roots[w])
       \/ OpenSession(w)
       \/ \E s \in DOMAIN snapshots :
            /\ BranchWorkspace(s, w)
            /\ ClonedInto(disk.roots[w], disk'.roots[w], s)]_vars

\* A workspace made by create_workspace starts with an empty root, also when
\* its id was used before and left a root behind that the metadata forgot.
CreatedRootsAreEmpty ==
  [][\A w \in DOMAIN workspaces' \ DOMAIN workspaces :
       workspaces'[w].parent = NoSnapshot => disk'.roots[w].data = Pristine]_vars

\* A branch starts with the files of the snapshot it was made from.
BranchesCopyTheirSnapshot ==
  [][\A w \in DOMAIN workspaces' \ DOMAIN workspaces :
       workspaces'[w].parent # NoSnapshot =>
         disk'.roots[w].data = disk.snaps[workspaces'[w].parent].data]_vars

Kind(w) == policies[workspaces[w].policy]

\* Policies are shared by id: the policy in force for a workspace changes only
\* by a call that sets, for it or for another ready workspace, the policy id
\* it then has (control.rs:276).
PolicyChangesAreExplicit ==
  [][\A w \in DOMAIN workspaces \cap DOMAIN workspaces' :
       Kind(w)' # Kind(w) =>
         \E v \in DOMAIN workspaces :
           /\ Ready(v)
           /\ workspaces'[v].policy = workspaces'[w].policy
           /\ policies' = Put(policies, workspaces'[v].policy, Kind(w)')]_vars

-----------------------------------------------------------------------------
(* The control plane implements the abstract lifecycle.                    *)

StateOf(w) == IF w \in DOMAIN workspaces THEN workspaces[w].state ELSE "Absent"
ParentOf(w) == IF w \in DOMAIN workspaces THEN workspaces[w].parent ELSE NoSnapshot

Abstract == INSTANCE Lifecycle WITH
  state  <- [w \in WorkspaceIds |-> StateOf(w)],
  parent <- [w \in WorkspaceIds |-> ParentOf(w)],
  live   <- DOMAIN snapshots

\* Every behaviour of the control plane is one the lifecycle allows: no
\* operation skips the soft delete or releases a snapshot in use.
ImplementsLifecycle == Abstract!Spec
=============================================================================
