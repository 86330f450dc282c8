----------------------------- MODULE Lifecycle ------------------------------
(***************************************************************************)
(* What the control plane promises about workspaces and snapshots, with    *)
(* storage, errors and the order of the calls inside an operation left     *)
(* out: a workspace is created or branched, soft-deleted, and only then    *)
(* purged; a snapshot is taken of a ready workspace and lives as long as   *)
(* any workspace, soft-deleted or not, is a branch of it. Only forgetting  *)
(* everything, when the process restarts, steps outside of these rules.    *)
(***************************************************************************)
CONSTANTS WorkspaceIds, SnapshotIds, NoSnapshot

VARIABLES
  state,   \* of each workspace: "Absent", "Ready" or "Deleted"
  parent,  \* the snapshot it is a branch of, if any
  live     \* the snapshots there are

vars == <<state, parent, live>>

TypeOK ==
  /\ state \in [WorkspaceIds -> {"Absent", "Ready", "Deleted"}]
  /\ parent \in [WorkspaceIds -> SnapshotIds \cup {NoSnapshot}]
  /\ live \subseteq SnapshotIds

Init ==
  /\ state = [w \in WorkspaceIds |-> "Absent"]
  /\ parent = [w \in WorkspaceIds |-> NoSnapshot]
  /\ live = {}

Create(w) ==
  /\ state[w] = "Absent"
  /\ state' = [state EXCEPT ![w] = "Ready"]
  /\ UNCHANGED <<parent, live>>

Branch(s, w) ==
  /\ state[w] = "Absent"
  /\ s \in live
  /\ state' = [state EXCEPT ![w] = "Ready"]
  /\ parent' = [parent EXCEPT ![w] = s]
  /\ UNCHANGED live

Take(w, s) ==
  /\ state[w] = "Ready"
  /\ s \notin live
  /\ live' = live \cup {s}
  /\ UNCHANGED <<state, parent>>

SoftDelete(w) ==
  /\ state[w] = "Ready"
  /\ state' = [state EXCEPT ![w] = "Deleted"]
  /\ UNCHANGED <<parent, live>>

Purge(w) ==
  /\ state[w] = "Deleted"
  /\ state' = [state EXCEPT ![w] = "Absent"]
  /\ parent' = [parent EXCEPT ![w] = NoSnapshot]
  /\ UNCHANGED live

Release(s) ==
  /\ s \in live
  /\ \A w \in WorkspaceIds : parent[w] # s
  /\ live' = live \ {s}
  /\ UNCHANGED <<state, parent>>

Forget ==
  /\ state' = [w \in WorkspaceIds |-> "Absent"]
  /\ parent' = [w \in WorkspaceIds |-> NoSnapshot]
  /\ live' = {}

Next ==
  \/ \E w \in WorkspaceIds :
       \/ Create(w) \/ SoftDelete(w) \/ Purge(w)
       \/ \E s \in SnapshotIds : Branch(s, w) \/ Take(w, s)
  \/ \E s \in SnapshotIds : Release(s)
  \/ Forget

Spec == Init /\ [][Next]_vars
=============================================================================
