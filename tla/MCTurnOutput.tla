---------------------------- MODULE MCTurnOutput ----------------------------
(* Small instances of TurnOutput. *)
EXTENDS TurnOutput
=============================================================================
