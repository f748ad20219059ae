-------------------------------- MODULE MCMcp -------------------------------
(* An instance of McpConnections for TLC. *)
EXTENDS McpConnections

CONSTANTS s1, p1, p2, c1, c2, c3

OneServer == {s1}
OneCaller == {p1}
TwoCallers == {p1, p2}
TwoConns == {c1, c2}
ThreeConns == {c1, c2, c3}
=============================================================================
