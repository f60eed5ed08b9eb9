---------------------------- MODULE MCMailJournal ----------------------------
(***************************************************************************)
(* A window of two instants and reads one instant long let reports, entries *)
(* and commands fall before, at and after each other's bounds, and a read   *)
(* begin, end or break between them.                                        *)
(***************************************************************************)
EXTENDS MailJournal
=============================================================================
