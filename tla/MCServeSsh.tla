----------------------------- MODULE MCServeSsh ------------------------------
(* The instance of ServeSsh that TLC checks: the command line of README.md:26. *)
EXTENDS ServeSsh

CONSTANTS agentKey, otherKey, agentAtExample

\* The line of README.md:26, and the one that does let its owner in.
WithComment == [key |-> agentKey, comment |-> agentAtExample]
WithoutComment == [key |-> agentKey, comment |-> NoComment]
=============================================================================
