----------------------------- MODULE MCEntities -----------------------------
(* Values of the constants of Entities for TLC. *)
EXTENDS Entities

MCGated == {"battery", "door_open"}
MCDated == {"last_code_open"}
=============================================================================
