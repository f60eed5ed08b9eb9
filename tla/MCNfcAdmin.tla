----------------------------- MODULE MCNfcAdmin -----------------------------
(***************************************************************************)
(* Two calls of any kinds: a late answer to one may meet a call of any     *)
(* other kind.  Two badges: the one that is revoked and another.           *)
(***************************************************************************)
EXTENDS NfcAdmin
=============================================================================
