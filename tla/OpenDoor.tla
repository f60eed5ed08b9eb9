------------------------------ MODULE OpenDoor ------------------------------
(***************************************************************************)
(* Opening the door: `BoksLink.async_open_door` and                        *)
(* `_async_open_via_temp_session` (coordinator.py), with the codes they    *)
(* spend (`OtpPool`, otp_store.py), the held link they may use and the     *)
(* mailbox that answers.                                                   *)
(*                                                                         *)
(* A press is one call.  It is a coroutine, so it is cut at its awaits:    *)
(* the lock, each BLE operation, the answer, the write of the store.       *)
(* Between two of them other presses, the session that holds the link, the *)
(* mailbox and a crash of Home Assistant take steps.                       *)
(***************************************************************************)
EXTENDS Integers, Sequences, SequencesExt, FiniteSets

CONSTANTS Presses,     \* calls of async_open_door
          Codes,       \* one-time codes, and the permanent one
          OneTime,     \* an OtpPool is used; otherwise Permanent is reused
          Permanent,   \* BoksLink.open_code
          InitialPool, \* the pool as the store holds it at the start
          NoPress,     \* no holder of the lock, no answer
          MaxCrashes   \* bound: crashes of Home Assistant

\* async_add ignores a code the pool already has.
ASSUME OpenDoorAssumption ==
    /\ OneTime \in BOOLEAN /\ Permanent \in Codes
    /\ InitialPool \in Seq(Codes)
    /\ \A i, j \in DOMAIN InitialPool : InitialPool[i] = InitialPool[j] => i = j
    /\ NoPress \notin Presses
    /\ MaxCrashes \in Nat

VARIABLES
    pool,     \* OtpPool._codes
    disk,     \* what the Store holds
    usable,   \* the mailbox: codes it accepts
    held,     \* BoksLink._client: "down", "up", or "sub" once notifications are on
    owner,    \* holder of BoksLink._open_lock
    queue,    \* its waiters, in order
    future,   \* BoksLink._open_result: "none", "pending", "yes" or "no"
    air,      \* answers sent by the mailbox and not received yet
    pc,       \* where each press is
    code,     \* the code each press read before the lock
    failing,  \* presses whose temporary session is closed by an exception
    outcome,  \* what each press reported
    crashes,  \* crashes so far
    opened,   \* history: presses whose command opened the door
    confirmed,\* history: presses that were given VALID_OPEN_CODE
    answerer, \* history: the press whose answer is in the future
    stolen,   \* history: presses decided by the answer to another one
    deaf,     \* history: presses whose command was received without notifications
    stale     \* history: presses that sent a code no longer in the pool

store == <<pool, disk>>
link == <<held, air>>
lock == <<owner, queue>>
history == <<opened, confirmed, answerer, stolen, deaf, stale>>
vars == <<store, usable, link, lock, future, pc, code, failing, outcome, crashes, history>>

HeldPC == {"writing", "written", "waiting"}
TempPC == {"connecting", "subscribing", "tempWriting", "tempWritten", "tempWaiting", "closing"}
LockedPC == HeldPC \cup TempPC
PC == {"idle", "queued", "saving", "done"} \cup LockedPC
Outcome == {"none", "opened", "refused", "failed", "lost"}

\* The temporary session has the mailbox's only connection.
TempConnected == \E p \in Presses : pc[p] \in TempPC \ {"connecting"}

TypeOK ==
    /\ pool \in Seq(Codes) /\ disk \in Seq(Codes) /\ usable \subseteq Codes
    /\ held \in {"down", "up", "sub"}
    /\ owner \in Presses \cup {NoPress} /\ queue \in Seq(Presses)
    /\ future \in {"none", "pending", "yes", "no"}
    /\ air \in Seq([press : Presses, valid : BOOLEAN])
    /\ pc \in [Presses -> PC] /\ code \in [Presses -> Codes]
    /\ failing \subseteq Presses /\ outcome \in [Presses -> Outcome]
    /\ crashes \in 0..MaxCrashes
    /\ opened \subseteq Presses /\ confirmed \subseteq Presses
    /\ answerer \in Presses \cup {NoPress}
    /\ stolen \subseteq Presses /\ deaf \subseteq Presses /\ stale \subseteq Presses

\* The mailbox accepts any of the codes, or not: the user may have mistyped one.
Init ==
    /\ pool = InitialPool /\ disk = InitialPool
    /\ usable \in SUBSET Codes
    /\ held = "down" /\ air = <<>>
    /\ owner = NoPress /\ queue = <<>> /\ future = "none"
    /\ pc = [p \in Presses |-> "idle"] /\ code = [p \in Presses |-> Permanent]
    /\ failing = {} /\ outcome = [p \in Presses |-> "none"]
    /\ crashes = 0
    /\ opened = {} /\ confirmed = {} /\ answerer = NoPress
    /\ stolen = {} /\ deaf = {} /\ stale = {}

Goto(p, label) == pc' = [pc EXCEPT ![p] = label]

\* The press ends and reports.
Report(p, result) ==
    /\ Goto(p, "done")
    /\ outcome' = [outcome EXCEPT ![p] = result]

-----------------------------------------------------------------------------
(* Taking the lock. *)

\* The body of `async with self._open_lock` up to its first await: a new
\* future, then the held link if it is connected, a temporary session if not.
Begin(p) ==
    /\ owner' = p /\ future' = "pending" /\ answerer' = NoPress
    /\ Goto(p, IF held # "down" THEN "writing" ELSE "connecting")

\* async_open_door: the code is read before the lock is requested, and asking
\* for a free lock does not yield.
Press(p) ==
    /\ pc[p] = "idle"
    /\ IF OneTime /\ pool = <<>>
       THEN Report(p, "failed") /\ UNCHANGED <<code, lock, future, answerer>>
       ELSE /\ code' = [code EXCEPT ![p] = IF OneTime THEN Head(pool) ELSE Permanent]
            /\ IF owner = NoPress /\ queue = <<>>
               THEN Begin(p) /\ UNCHANGED queue
               ELSE /\ queue' = Append(queue, p) /\ Goto(p, "queued")
                    /\ UNCHANGED <<owner, future, answerer>>
            /\ UNCHANGED outcome
    /\ UNCHANGED <<store, usable, link, failing, crashes, opened, confirmed,
                   stolen, deaf, stale>>

\* The released lock goes to its first waiter.
Acquire ==
    /\ owner = NoPress /\ queue # <<>>
    /\ Begin(Head(queue)) /\ queue' = Tail(queue)
    /\ UNCHANGED <<store, usable, link, code, failing, outcome, crashes, opened,
                   confirmed, stolen, deaf, stale>>

-----------------------------------------------------------------------------
(* Leaving the lock. *)

\* A mistake: a code leaves the pool once it has been tried.
FailSpends(p) ==
    /\ owner' = NoPress /\ future' = "none" /\ answerer' = NoPress
    /\ Report(p, "failed")
    /\ pool' = SelectSeq(pool, LAMBDA c : c # code[p])
    /\ UNCHANGED <<disk, stolen>>

\* An exception leaves the lock: the future is dropped and the press fails.
Fail(p) ==
    /\ owner' = NoPress /\ future' = "none" /\ answerer' = NoPress
    /\ Report(p, "failed")
    /\ UNCHANGED <<store, stolen>>

\* async_commit_use up to the write of the store: the code leaves the pool
\* wherever it stands, and nothing is written if it has already left.
Commit(p) ==
    IF OneTime /\ code[p] \in ToSet(pool)
    THEN /\ \E i \in DOMAIN pool : pool[i] = code[p] /\ pool' = RemoveAt(pool, i)
         /\ Goto(p, "saving") /\ UNCHANGED outcome
    ELSE Report(p, "opened") /\ UNCHANGED pool

\* The answer is there: the lock is released, and what follows up to the write
\* of the store is the same step.
Resume(p) ==
    /\ owner' = NoPress /\ future' = "none" /\ answerer' = NoPress
    /\ stolen' = IF answerer = p THEN stolen ELSE stolen \cup {p}
    /\ IF future = "yes" THEN Commit(p) ELSE Report(p, "refused") /\ UNCHANGED pool
    /\ UNCHANGED disk

\* A mistake: the press reports before the store is written.
SaveSkipped(p) ==
    /\ pc[p] = "saving"
    /\ Report(p, "opened")
    /\ UNCHANGED <<store, usable, link, lock, future, code, failing, crashes, history>>

\* The store is written from the list as it is now, then the press reports.
Save(p) ==
    /\ pc[p] = "saving"
    /\ disk' = pool
    /\ Report(p, "opened")
    /\ UNCHANGED <<pool, usable, link, lock, future, code, failing, crashes, history>>

-----------------------------------------------------------------------------
(* The mailbox. *)

\* It receives the command of p, opens if the code is one it accepts, which
\* spends a one-time code, and answers if notifications are on.
Receive(p, listening) ==
    LET valid == code[p] \in usable IN
    /\ opened' = IF valid THEN opened \cup {p} ELSE opened
    /\ usable' = IF valid /\ OneTime THEN usable \ {code[p]} ELSE usable
    /\ air' = IF listening THEN Append(air, [press |-> p, valid |-> valid]) ELSE air
    /\ deaf' = IF listening THEN deaf ELSE deaf \cup {p}
    /\ stale' = IF OneTime /\ code[p] \notin ToSet(pool) THEN stale \cup {p} ELSE stale

\* _on_app_notify: an answer settles the pending future, whoever it is for.
Deliver ==
    /\ air # <<>> /\ air' = Tail(air)
    /\ IF future = "pending"
       THEN /\ future' = IF Head(air).valid THEN "yes" ELSE "no"
            /\ answerer' = Head(air).press
            /\ confirmed' = IF Head(air).valid THEN confirmed \cup {owner} ELSE confirmed
       ELSE UNCHANGED <<future, answerer, confirmed>>
    /\ UNCHANGED <<store, usable, held, lock, pc, code, failing, outcome, crashes,
                   opened, stolen, deaf, stale>>

-----------------------------------------------------------------------------
(* A press on the held link. *)

\* The command reaches the mailbox before the write is acknowledged.
HeldReceive(p) ==
    /\ pc[p] = "writing" /\ held # "down"
    /\ Receive(p, held = "sub")
    /\ Goto(p, "written")
    /\ UNCHANGED <<store, held, lock, future, code, failing, outcome, crashes,
                   confirmed, answerer, stolen>>

\* The write is acknowledged.
HeldWritten(p) ==
    /\ pc[p] = "written" /\ held # "down"
    /\ Goto(p, "waiting")
    /\ UNCHANGED <<store, usable, link, lock, future, code, failing, outcome,
                   crashes, history>>

\* A mistake: nothing bounds the wait for the answer.
HeldFailsNoTimeout(p) ==
    /\ pc[p] \in {"writing", "written"}
    /\ Fail(p)
    /\ UNCHANGED <<usable, link, queue, code, failing, crashes, opened,
                   confirmed, deaf, stale>>

\* The write fails, whether the mailbox has received it or not, or no answer
\* comes within OPEN_TIMEOUT: BoksOpenError.
HeldFails(p) ==
    /\ \/ pc[p] \in {"writing", "written"}
       \/ pc[p] = "waiting" /\ future = "pending"
    /\ Fail(p)
    /\ UNCHANGED <<usable, link, queue, code, failing, crashes, opened,
                   confirmed, deaf, stale>>

\* A mistake: the write that was acknowledged is taken for an opening.
HeldAcknowledged(p) ==
    /\ pc[p] = "waiting"
    /\ owner' = NoPress /\ future' = "none" /\ answerer' = NoPress
    /\ Commit(p)
    /\ UNCHANGED <<disk, usable, link, queue, code, failing, crashes, opened,
                   confirmed, stolen, deaf, stale>>

\* The future is settled.
HeldAnswered(p) ==
    /\ pc[p] = "waiting" /\ future \in {"yes", "no"}
    /\ Resume(p)
    /\ UNCHANGED <<usable, link, queue, code, failing, crashes, opened,
                   confirmed, deaf, stale>>

-----------------------------------------------------------------------------
(* A press that opens a temporary session. *)

\* The device is out of range, or establish_connection fails.
ConnectFails(p) ==
    /\ pc[p] = "connecting"
    /\ Fail(p)
    /\ UNCHANGED <<usable, link, queue, code, failing, crashes, opened,
                   confirmed, deaf, stale>>

\* establish_connection, then start_notify, each an await.
Connect(p) ==
    /\ pc[p] = "connecting" /\ held = "down"
    /\ Goto(p, "subscribing")
    /\ UNCHANGED <<store, usable, link, lock, future, code, failing, outcome,
                   crashes, history>>

\* start_notify is over.
Subscribe(p) ==
    /\ pc[p] = "subscribing"
    /\ Goto(p, "tempWriting")
    /\ UNCHANGED <<store, usable, link, lock, future, code, failing, outcome,
                   crashes, history>>

\* The command reaches the mailbox, which can answer.
TempReceive(p) ==
    /\ pc[p] = "tempWriting"
    /\ Receive(p, TRUE)
    /\ Goto(p, "tempWritten")
    /\ UNCHANGED <<store, held, lock, future, code, failing, outcome, crashes,
                   confirmed, answerer, stolen>>

\* The write is acknowledged: the shielded wait begins.
TempWritten(p) ==
    /\ pc[p] = "tempWritten"
    /\ Goto(p, "tempWaiting")
    /\ UNCHANGED <<store, usable, link, lock, future, code, failing, outcome,
                   crashes, history>>

\* The shielded wait is over: the connection is closed before the answer is used.
TempAnswered(p) ==
    /\ pc[p] = "tempWaiting" /\ future \in {"yes", "no"}
    /\ Goto(p, "closing")
    /\ UNCHANGED <<store, usable, link, lock, future, code, failing, outcome,
                   crashes, history>>

\* An operation fails, or the shielded wait times out; the future stays.
TempFails(p) ==
    /\ \/ pc[p] \in {"subscribing", "tempWriting", "tempWritten"}
       \/ pc[p] = "tempWaiting" /\ future = "pending"
    /\ failing' = failing \cup {p}
    /\ Goto(p, "closing")
    /\ UNCHANGED <<store, usable, link, lock, future, code, outcome, crashes, history>>

\* clear_cache and disconnect are over: the answer is used, unless an exception
\* closed the session.
Close(p) ==
    /\ pc[p] = "closing" /\ air' = <<>>
    /\ failing' = failing \ {p}
    /\ IF p \in failing THEN Fail(p) ELSE Resume(p)
    /\ UNCHANGED <<usable, held, queue, code, crashes, opened, confirmed, deaf, stale>>

\* disconnect raises what the finally does not catch (a TimeoutError).
CloseRaises(p) ==
    /\ pc[p] = "closing" /\ air' = <<>>
    /\ failing' = failing \ {p}
    /\ Fail(p)
    /\ UNCHANGED <<usable, held, queue, code, crashes, opened, confirmed, deaf, stale>>

-----------------------------------------------------------------------------
(* The session that holds the link, and crashes. *)

\* _async_session sets _client once connected, then reads the static
\* characteristics before it subscribes.
HeldConnect ==
    /\ held = "down" /\ ~TempConnected
    /\ held' = "up"
    /\ UNCHANGED <<store, usable, air, lock, future, pc, code, failing, outcome,
                   crashes, history>>

HeldSubscribe ==
    /\ held = "up"
    /\ held' = "sub"
    /\ UNCHANGED <<store, usable, air, lock, future, pc, code, failing, outcome,
                   crashes, history>>

\* The link is lost or released, with the answers under way.
HeldDrop ==
    /\ held # "down"
    /\ held' = "down" /\ air' = <<>>
    /\ UNCHANGED <<store, usable, lock, future, pc, code, failing, outcome,
                   crashes, history>>

\* Home Assistant stops without notice: presses under way are lost, and the
\* pool is loaded from the store again.
Crash ==
    /\ crashes < MaxCrashes
    /\ crashes' = crashes + 1
    /\ pool' = disk
    /\ held' = "down" /\ air' = <<>>
    /\ owner' = NoPress /\ queue' = <<>> /\ future' = "none" /\ answerer' = NoPress
    /\ failing' = {}
    /\ pc' = [p \in Presses |-> IF pc[p] = "idle" THEN "idle" ELSE "done"]
    /\ outcome' = [p \in Presses |-> IF pc[p] \in {"idle", "done"}
                                     THEN outcome[p] ELSE "lost"]
    /\ UNCHANGED <<disk, usable, code, opened, confirmed, stolen, deaf, stale>>

Step(p) ==
    \/ HeldReceive(p) \/ HeldWritten(p) \/ HeldFails(p) \/ HeldAnswered(p)
    \/ ConnectFails(p) \/ Connect(p) \/ Subscribe(p) \/ TempReceive(p)
    \/ TempWritten(p) \/ TempAnswered(p) \/ TempFails(p)
    \/ Close(p) \/ CloseRaises(p) \/ Save(p)

Next ==
    \/ \E p \in Presses : Press(p) \/ Step(p)
    \/ Acquire \/ Deliver
    \/ HeldConnect \/ HeldSubscribe \/ HeldDrop
    \/ Crash

\* Every BLE operation and every wait ends, by an answer, an error or its
\* timeout, a write of the store ends, and a free lock is handed over.
Fairness == /\ \A p \in Presses : WF_vars(Step(p))
            /\ WF_vars(Acquire)

Spec == Init /\ [][Next]_vars
FairSpec == Spec /\ Fairness

-----------------------------------------------------------------------------
(* Properties. *)

Spent == Codes \ usable

\* The pending answer belongs to the one press inside the lock: no press uses a
\* future another one created, however calls, failures and crashes interleave.
OneFuture ==
    /\ \A p \in Presses : pc[p] \in LockedPC <=> owner = p
    /\ future = "none" <=> owner = NoPress

\* Presses report an opening at most as often as the mailbox has opened: an
\* answer, even one meant for another press, is never counted twice.
SuccessIsEarned ==
    Cardinality({p \in Presses : outcome[p] = "opened" \/ pc[p] = "saving"})
        <= Cardinality(opened)

\* No failure wastes a code: a one-time code the mailbox still accepts is in the
\* pool and in the store, whatever was lost ("one wasted press rather than one
\* wasted code", TODO.md subject 5).
UnspentIsKept ==
    OneTime => \A c \in ToSet(InitialPool) \cap usable :
                   c \in ToSet(pool) /\ c \in ToSet(disk)

\* A press that reports an opening has its one-time code out of the pool and out
\* of the store: no crash brings it back (async_commit_use awaits the write).
RetiredIsDurable ==
    OneTime => \A p \in Presses :
        outcome[p] = "opened" => code[p] \notin ToSet(pool) \cup ToSet(disk)

\* The promise of the pool: see OtpLedger.
Ledger == INSTANCE OtpLedger WITH
    offered <- ToSet(pool),
    spent <- {code[p] : p \in opened}
KeepsLedger == Ledger!Spec

\* Every press ends, and so does every press waiting for the lock.
PressEnds == \A p \in Presses : pc[p] # "idle" ~> pc[p] = "done"

\* The docstring of _async_open_via_temp_session: the notifications are on
\* before the command is written, without which the answer never comes back.
NeverDeaf == deaf = {}

\* The comment of _open_lock: opening commands do not steal each other's answer.
AnswersAreOwn == stolen = {}

\* TODO.md subject 5: a confirmation lost after the mailbox has accepted a code
\* costs one wasted press.
OneWastedPress ==
    \A p \in opened :
        Cardinality({q \in Presses : outcome[q] = "refused" /\ code[q] = code[p]}) <= 1

\* The docstring of async_open_door: BoksOpenError is raised if the code is
\* refused or the mailbox does not answer.
ConfirmedIsReported == \A p \in confirmed : outcome[p] # "failed"

\* The docstring of otp_store.py: a code is replayed only if its confirmation
\* was lost, so no code that has been retired is ever sent.
RetiredIsNotSent == stale = {}
=============================================================================
