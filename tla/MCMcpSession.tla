----------------------------- MODULE MCMcpSession ---------------------------
(* An instance of McpSession for TLC. *)
EXTENDS McpSession

CONSTANTS a1, a2

TwoAskers == {a1, a2}
=============================================================================
