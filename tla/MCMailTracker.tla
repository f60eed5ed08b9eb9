---------------------------- MODULE MCMailTracker ----------------------------
(***************************************************************************)
(* A window of one instant, inputs at three and callbacks one instant late *)
(* let reports, commands and deadlines fall before, at and after each      *)
(* other's bounds, and after a verdict; MaxPending = 2 makes both lists    *)
(* overflow.                                                               *)
(***************************************************************************)
EXTENDS MailTracker
=============================================================================
