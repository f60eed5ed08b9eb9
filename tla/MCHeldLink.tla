----------------------------- MODULE MCHeldLink -----------------------------
(***************************************************************************)
(* Four calls turn the link on, off, on and off again, or stop it at any   *)
(* point; in HoldHidden a fifth turns it on a third time.  There is a task *)
(* for each time it may be turned on.                                      *)
(***************************************************************************)
EXTENDS HeldLink
=============================================================================
