----------------------------- MODULE MCOpenDoor -----------------------------
(***************************************************************************)
(* Three presses are enough for one to hold the lock, one to wait and one  *)
(* to come late; two codes are enough for one to be spent while the other  *)
(* is not.  One crash is enough to lose what was not written.              *)
(***************************************************************************)
EXTENDS OpenDoor

CONSTANTS c1, c2

MCPool == <<c1, c2>>
=============================================================================
