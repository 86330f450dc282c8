------------------------------- MODULE MCUsage ------------------------------
(* The instance of Usage that TLC checks: a directory with a file in it.    *)
EXTENDS Usage

Tree == [d |-> "root", f |-> "d"]
Ancestors == [root |-> {}, d |-> {"root"}, f |-> {"root", "d"}]
=============================================================================
