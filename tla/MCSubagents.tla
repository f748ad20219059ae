----------------------------- MODULE MCSubagents ----------------------------
(* Subagents with two agents and limits of one and two. *)
EXTENDS Subagents
=============================================================================
