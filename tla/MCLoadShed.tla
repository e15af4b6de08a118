------------------------------ MODULE MCLoadShed ------------------------------
(***************************************************************************)
(* A heat pump on L3 and a kettle of unknown phase, driven by load         *)
(* management, and a spa on L3 that the surplus controller runs.           *)
(***************************************************************************)
EXTENDS LoadShed

CONSTANTS pump, kettle, spa

MCSits == [l \in Loads |-> IF l = kettle THEN {} ELSE {"L3"}]
MCPriority == [l \in Loads |-> CASE l = pump -> 7 [] l = spa -> 6 [] l = kettle -> 3]
===============================================================================
