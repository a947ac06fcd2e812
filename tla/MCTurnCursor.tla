----------------------------- MODULE MCTurnCursor -----------------------------
(* Instances of TurnCursor for TLC. *)
EXTENDS TurnCursor

CONSTANT a1
=============================================================================
