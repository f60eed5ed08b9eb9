----------------------------- MODULE MCOtpStore -----------------------------
(***************************************************************************)
(* Two codes in the pool and one or two typed in the form, of which one    *)
(* may be there already; three links let a press outlive the one it serves. *)
(***************************************************************************)
EXTENDS OtpStore

CONSTANTS c1, c2, c3

MCInitial == <<c1, c2>>
MCEntries == {{c3}, {c2, c3}}
=============================================================================
