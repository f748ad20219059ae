------------------------------- MODULE MCTurns ------------------------------
(* Instances of FermentTurns for TLC. *)
EXTENDS FermentTurns

CONSTANTS A, B

Two == {A, B}
One == {A}
=============================================================================
