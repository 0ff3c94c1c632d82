--------------------------- MODULE MCGridDynamics ---------------------------
(* The instance of GridDynamics that TLC checks.                           *)
EXTENDS GridDynamics, Functions

MCP0     == [u \in Unit |-> 1]
MCSupply == [p \in [Unit -> Power] |-> SumFunction(p)]
MCLoad   == [k \in Rounds |-> -2]
=============================================================================
