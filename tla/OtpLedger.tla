------------------------------ MODULE OtpLedger ------------------------------
(***************************************************************************)
(* What a pool of one-time codes promises (module text of otp_store.py and *)
(* TODO.md, subject 5): a code leaves the pool only because the mailbox    *)
(* has accepted it, and nothing but a crash makes a code that left come    *)
(* back, then a spent one.                                                 *)
(***************************************************************************)
EXTENDS Naturals

CONSTANT Codes

VARIABLES offered, \* the codes the pool may hand out
          usable,  \* the codes the mailbox accepts
          spent,   \* the codes the mailbox has accepted
          crashes  \* how many times Home Assistant was killed

vars == <<offered, usable, spent, crashes>>

Init == offered \subseteq Codes /\ usable \subseteq Codes /\ spent = {} /\ crashes = 0

\* The mailbox opens with a code; it may keep accepting it (a permanent code).
Use(c) ==
    /\ c \in usable
    /\ spent' = spent \cup {c}
    /\ usable' \in {usable, usable \ {c}}
    /\ UNCHANGED <<offered, crashes>>

\* A code leaves the pool.
Retire(c) ==
    /\ c \in offered \cap spent
    /\ offered' = offered \ {c}
    /\ UNCHANGED <<usable, spent, crashes>>

\* A crash forgets retirements that were not written.
Recover(lost) ==
    /\ crashes' = crashes + 1
    /\ offered' = offered \cup lost
    /\ UNCHANGED <<usable, spent>>

Next ==
    \/ \E c \in Codes : Use(c) \/ Retire(c)
    \/ \E lost \in SUBSET spent : Recover(lost)

Spec == Init /\ [][Next]_vars
=============================================================================
