------------------------------ MODULE MCBattery ------------------------------
(***************************************************************************)
(* The levels around the thresholds of const.py: 0 is the sag seen while   *)
(* the door is driven, 15 and 20 are low for alkaline cells, 88 and 90 are *)
(* a sharp drop from 100, 97 is the regulated threshold and 98 is above it. *)
(***************************************************************************)
EXTENDS Battery

MCLevel == {0, 15, 20, 88, 90, 97, 98, 100}
=============================================================================
