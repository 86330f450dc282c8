----------------------------- MODULE MCSshServer -----------------------------
(* The instances of SshServer that TLC checks.                               *)
EXTENDS SshServer
=============================================================================
