------------------------------- MODULE MCDaemon ------------------------------
(* The instances of Daemon that TLC checks.                                  *)
EXTENDS Daemon

NoLinks == <<>>
Nothing == {}

PurgeLists ==
  {<<[kind |-> "DeleteWorkspace", id |-> w], [kind |-> "DeleteSnapshot", id |-> s]>>
     : w \in WorkspaceIds, s \in SnapshotIds}
=============================================================================
