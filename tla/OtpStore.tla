------------------------------ MODULE OtpStore ------------------------------
(***************************************************************************)
(* The pool of one-time codes and those who write it (otp_store.py): each  *)
(* BoksLink has an OtpPool loaded when the entry is set up, and the        *)
(* options flow loads another one to add codes (config_flow.py).  All of   *)
(* them save the whole list to the same Store.                             *)
(*                                                                         *)
(* A link replaced by a reload may still end the press it was serving.     *)
(* How a press is carried out is the subject of OpenDoor.                  *)
(***************************************************************************)
EXTENDS Integers, Sequences, SequencesExt, FiniteSets

CONSTANTS Codes,    \* one-time codes
          NoCode,   \* no press under way
          Initial,  \* what the store holds at the start
          Entries,  \* what a user may type in the form
          MaxLinks  \* bound: links built by set-ups, reloads and restarts

ASSUME OtpStoreAssumption ==
    /\ NoCode \notin Codes
    /\ Initial \in Seq(Codes) /\ IsInjective(Initial)
    /\ \A typed \in Entries : typed \subseteq Codes /\ IsFiniteSet(typed)
    /\ MaxLinks \in Nat \ {0}

VARIABLES
    disk,    \* the Store
    link,    \* the link of the entry
    pools,   \* OtpPool._codes of each link
    press,   \* the code of the press each link serves, or NoCode
    saving,  \* links whose press awaits the write of the store
    form,    \* where the options flow is
    draft,   \* OtpPool._codes of the options flow
    spent,   \* the mailbox: codes it has accepted
    fresh,   \* history: codes the form is adding
    added,   \* history: codes the form has added
    retired  \* history: codes retired by a press, and not typed again since

user == <<fresh, added, retired>>
vars == <<disk, link, pools, press, saving, form, draft, spent, user>>
Links == 1..MaxLinks

TypeOK ==
    /\ disk \in Seq(Codes) /\ draft \in Seq(Codes)
    /\ link \in Links /\ pools \in [Links -> Seq(Codes)]
    /\ press \in [Links -> Codes \cup {NoCode}] /\ saving \subseteq Links
    /\ form \in {"closed", "loaded", "saving", "sensors"}
    /\ spent \subseteq Codes
    /\ fresh \subseteq Codes /\ added \subseteq Codes /\ retired \subseteq Codes

Init ==
    /\ disk = Initial /\ link = 1 /\ pools = [l \in Links |-> Initial]
    /\ press = [l \in Links |-> NoCode] /\ saving = {}
    /\ form = "closed" /\ draft = <<>>
    /\ spent = {} /\ fresh = {} /\ added = {} /\ retired = {}

-----------------------------------------------------------------------------
(* A press. *)

\* peek: the head of the pool.
Peek ==
    /\ press[link] = NoCode /\ pools[link] # <<>>
    /\ press' = [press EXCEPT ![link] = Head(pools[link])]
    /\ UNCHANGED <<disk, link, pools, saving, form, draft, spent, user>>

\* The press fails; the mailbox may have taken the code.
Fails(l) ==
    /\ press[l] # NoCode /\ l \notin saving
    /\ press' = [press EXCEPT ![l] = NoCode]
    /\ spent' \in {spent, spent \cup {press[l]}}
    /\ UNCHANGED <<disk, link, pools, saving, form, draft, user>>

\* async_commit_use: the confirmed code leaves the list wherever it stands.
Commit(l) ==
    /\ press[l] # NoCode /\ press[l] \notin spent /\ l \notin saving
    /\ \E i \in DOMAIN pools[l] :
        /\ pools[l][i] = press[l]
        /\ pools' = [pools EXCEPT ![l] = RemoveAt(@, i)]
    /\ saving' = saving \cup {l} /\ spent' = spent \cup {press[l]}
    /\ UNCHANGED <<disk, link, press, form, draft, user>>

\* The store is written.
CommitSaved(l) ==
    /\ l \in saving
    /\ disk' = pools[l]
    /\ saving' = saving \ {l} /\ press' = [press EXCEPT ![l] = NoCode]
    /\ retired' = retired \cup {press[l]}
    /\ UNCHANGED <<link, pools, form, draft, spent, fresh, added>>

-----------------------------------------------------------------------------
(* The options flow in otp mode. *)

\* The user submits codes: async_load reads the store.
FormLoads ==
    /\ form = "closed"
    /\ form' = "loaded" /\ draft' = disk
    /\ UNCHANGED <<disk, link, pools, press, saving, spent, user>>

\* A mistake: the codes typed replace the pool.
FormReplaces(typed) ==
    /\ form = "loaded" /\ form' = "saving"
    /\ draft' \in SetToSeqs(typed) /\ fresh' = typed
    /\ UNCHANGED <<disk, link, pools, press, saving, spent, added, retired>>

\* A mistake: a code that is already there is added again.
FormRepeats(typed) ==
    /\ form = "loaded" /\ form' = "saving"
    /\ \E all \in SetToSeqs(typed) : draft' = draft \o all
    /\ fresh' = typed
    /\ UNCHANGED <<disk, link, pools, press, saving, spent, added, retired>>

\* async_add: what is not in the pool is appended, and saved if there is any.
FormAdds(typed) ==
    /\ form = "loaded"
    /\ fresh' = typed \ ToSet(draft)
    /\ form' = IF fresh' = {} THEN "sensors" ELSE "saving"
    /\ \E new \in SetToSeqs(fresh') : draft' = draft \o new
    /\ UNCHANGED <<disk, link, pools, press, saving, spent, added, retired>>

\* A line is malformed: nothing is added and the form is shown again.
FormInvalid ==
    /\ form = "loaded" /\ form' = "closed"
    /\ UNCHANGED <<disk, link, pools, press, saving, draft, spent, user>>

\* The store is written: the codes typed are in it, and the last step is shown.
FormSaved ==
    /\ form = "saving" /\ form' = "sensors"
    /\ disk' = draft
    /\ added' = added \cup fresh /\ retired' = retired \ fresh
    /\ UNCHANGED <<link, pools, press, saving, draft, spent, fresh>>

\* The flow ends, or is abandoned.  In otp mode the value stored in the options
\* is always empty: Reload follows if another option has changed, or need not.
FormEnds ==
    /\ form = "sensors" /\ form' = "closed"
    /\ UNCHANGED <<disk, link, pools, press, saving, draft, spent, user>>

-----------------------------------------------------------------------------
(* Set-ups. *)

\* async_setup_entry: a new link loads the store.
SetUp ==
    /\ link < MaxLinks
    /\ link' = link + 1 /\ pools' = [pools EXCEPT ![link + 1] = disk]
    /\ UNCHANGED <<disk, draft, spent, user>>

\* The entry is reloaded, on request or not.
Reload ==
    /\ SetUp
    /\ UNCHANGED <<press, saving, form>>

\* Home Assistant restarts: presses and form are lost.
Restart ==
    /\ SetUp
    /\ press' = [l \in Links |-> NoCode] /\ saving' = {} /\ form' = "closed"

Next ==
    \/ Peek \/ \E l \in Links : Fails(l) \/ Commit(l) \/ CommitSaved(l)
    \/ FormLoads \/ (\E typed \in Entries : FormAdds(typed)) \/ FormInvalid
    \/ FormSaved \/ FormEnds
    \/ Reload \/ Restart

Spec == Init /\ [][Next]_vars

-----------------------------------------------------------------------------
(* Properties. *)

\* However presses, forms, reloads and restarts overlap, a code that was in the
\* pool at the start and that the mailbox has not taken stays in the store and in
\* the pool of each link (async_add: "Ajoute, ne remplace jamais").
Keeps(pool) == ToSet(Initial) \ spent \subseteq ToSet(pool)
PoolIsKept == Keeps(disk) /\ \A l \in Links : Keeps(pools[l])

\* The store never holds a code twice: async_commit_use removes one copy, and the
\* other would be replayed.
NoCodeTwice == IsInjective(disk)

\* The options form, "each code is only removed from the pool once the mailbox has
\* actually used it": a code that has been added stays in the store until then.
AddedAreKept == added \ spent \subseteq ToSet(disk)

\* async_commit_use: "Retire definitivement".  A code whose retirement has been
\* saved does not come back, unless it is typed again.
RetiredStaysOut == retired \cap ToSet(disk) = {}
=============================================================================
