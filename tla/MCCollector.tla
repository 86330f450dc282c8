----------------------------- MODULE MCCollector -----------------------------
(* The instances of Collector that TLC checks. *)
EXTENDS Collector

NoLinks == <<>>
NoneResolve == {}
Nothing == {}
NoLists == {}
=============================================================================
