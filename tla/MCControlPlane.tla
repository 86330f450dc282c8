--------------------------- MODULE MCControlPlane ---------------------------
(* The instances of ControlPlane that TLC checks, with either backend.     *)
EXTENDS InMemoryStorage, TLC

\* Workspaces are interchangeable.
Symmetry == Permutations(WorkspaceIds)

\* The links into the guest profile that every root gets.
NoLinks == <<>>
OneLink == <<"bin">>
NoneResolve == {}
AllResolve == {"bin"}

Anything == EntryStates
NoDangling == {"absent", "present"}

Action(k, i) == [kind |-> k, id |-> i]

\* Lists in which the second action depends on the first, or is cut off by it.
ShortLists ==
  {<<Action("DeleteWorkspace", w), Action("DeleteSnapshot", s)>>
     : w \in WorkspaceIds, s \in SnapshotIds}
NoLists == {}
=============================================================================
