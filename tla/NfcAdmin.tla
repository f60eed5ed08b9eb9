------------------------------ MODULE NfcAdmin ------------------------------
(***************************************************************************)
(* Badges and VIGIK: `async_register_nfc_tag`, `async_unregister_nfc_tag`, *)
(* `async_set_vigik` (coordinator.py), the session they run in and the     *)
(* future `_on_app_notify` settles with the answers of the mailbox; and    *)
(* `async_reboot`, which does not take their lock.                         *)
(*                                                                         *)
(* An operation is one call, cut at its awaits.  The mailbox scans for a   *)
(* badge on its own: nothing tells it that the operation has given up.     *)
(***************************************************************************)
EXTENDS Integers, Sequences, FiniteSets

CONSTANTS Ops,    \* calls
          First,  \* the first command a call may send: "scan" enrols, "unregister"
                  \* revokes, "on" and "off" set VIGIK
          Badges, \* UIDs
          Target, \* the UID that is revoked
          NoOp    \* no holder of the lock

ASSUME NfcAdminAssumption ==
    /\ First \subseteq {"scan", "unregister", "on", "off"}
    /\ Target \in Badges /\ NoOp \notin Ops

VARIABLES
    keyOk,    \* the mailbox accepts the Config Key
    tags,     \* the mailbox: registered badges
    vigik,    \* the mailbox: whether VIGIK is on
    scanning, \* the mailbox waits for a badge
    held,     \* BoksLink._client: "down", "up", or "sub" once notifications are on
    air,      \* answers sent by the mailbox and not received yet
    owner,    \* holder of BoksLink._admin_lock
    answer,   \* BoksLink._nfc_result: None, Pending, or the answer it was given
    pc,       \* where each call is
    command,  \* the command each call sends
    temp,     \* calls in a temporary session
    lost,     \* calls that hold the client of a held link that has been cut
    badge,    \* the UID each call has been given
    result,   \* what each call of a temporary session reports once it is closed
    outcome,  \* what each call reported
    shown,    \* BoksVigikSwitch._attr_is_on
    reboot,   \* async_reboot: "ready", "session", or "debounced" for 60 s
    seen      \* history: badges presented since each call sent SCAN_START

box == <<keyOk, tags, vigik, scanning>>
link == <<held, air>>
calls == <<pc, command, temp, lost, badge, result, outcome>>
vars == <<box, link, owner, answer, calls, shown, reboot, seen>>

Result == {"none", "registered", "already", "revoked", "set", "failed"}
Answer == [kind : {"found", "exists", "scanTimeout", "registered", "already",
                   "unregistered", "unauthorized"}, uid : Badges]
None == [kind |-> "none"]
Pending == [kind |-> "pending"]
Command == {"none", "scan", "register", "unregister", "on", "off"}
WritePC == {"writing", "written", "waiting"}
LockedPC == {"connecting", "subscribing", "closing"} \cup WritePC
PC == {"idle", "queued", "done"} \cup LockedPC

TypeOK ==
    /\ keyOk \in BOOLEAN /\ vigik \in BOOLEAN /\ scanning \in BOOLEAN
    /\ tags \subseteq Badges
    /\ held \in {"down", "up", "sub"} /\ air \in Seq(Answer)
    /\ owner \in Ops \cup {NoOp} /\ answer \in Answer \cup {None, Pending}
    /\ pc \in [Ops -> PC] /\ command \in [Ops -> Command]
    /\ temp \subseteq Ops /\ lost \subseteq Ops
    /\ badge \in [Ops -> Badges]
    /\ result \in [Ops -> Result] /\ outcome \in [Ops -> Result]
    /\ shown \in BOOLEAN /\ reboot \in {"ready", "session", "debounced"}
    /\ seen \in [Ops -> SUBSET Badges]

Init ==
    /\ keyOk \in BOOLEAN /\ tags \in SUBSET Badges
    /\ vigik = FALSE /\ shown = FALSE /\ scanning = FALSE
    /\ held = "down" /\ air = <<>>
    /\ owner = NoOp /\ answer = None
    /\ pc = [o \in Ops |-> "idle"] /\ command = [o \in Ops |-> "none"]
    /\ temp = {} /\ lost = {}
    /\ badge = [o \in Ops |-> Target]
    /\ result = [o \in Ops |-> "none"] /\ outcome = [o \in Ops |-> "none"]
    /\ reboot = "ready" /\ seen = [o \in Ops |-> {}]

Goto(o, label) == pc' = [pc EXCEPT ![o] = label]

\* The mailbox's one connection is taken by a temporary session.
TempConnected == \E o \in temp \ lost : pc[o] \notin {"connecting", "done"}
Listening == held = "sub" \/ \E o \in temp \ lost : pc[o] \in WritePC \cup {"closing"}

-----------------------------------------------------------------------------
(* The lock and the session: _async_admin_session. *)

\* The call is made, and asks for the lock.
Call(o) ==
    /\ pc[o] = "idle"
    /\ \E first \in First : command' = [command EXCEPT ![o] = first]
    /\ Goto(o, "queued")
    /\ UNCHANGED <<box, link, owner, answer, temp, lost, badge, result, outcome,
                   shown, reboot, seen>>

\* The held link is used if it is connected: _async_admin_write puts a future in
\* place before it writes.
Enter(o) ==
    /\ owner' = o
    /\ IF held # "down"
       THEN Goto(o, "writing") /\ answer' = Pending /\ UNCHANGED temp
       ELSE Goto(o, "connecting") /\ temp' = temp \cup {o} /\ UNCHANGED answer
    /\ UNCHANGED <<box, link, command, lost, badge, result, outcome, shown, reboot, seen>>

\* The lock is free.
Acquire(o) == pc[o] = "queued" /\ owner = NoOp /\ Enter(o)

\* The lock is left and the call reports; the switch follows what is not an error.
Leave(o, report) ==
    /\ owner' = NoOp /\ answer' = None
    /\ Goto(o, "done") /\ outcome' = [outcome EXCEPT ![o] = report]
    /\ temp' = temp \ {o}
    /\ shown' = IF report = "set" THEN command[o] = "on" ELSE shown

\* The body is over: a temporary session is closed first.
Finish(o, report) ==
    IF o \in temp
    THEN /\ result' = [result EXCEPT ![o] = report] /\ Goto(o, "closing")
         /\ UNCHANGED <<owner, answer, outcome, temp, shown>>
    ELSE Leave(o, report) /\ UNCHANGED result

\* Out of range, or establish_connection fails.
ConnectFails(o) ==
    /\ pc[o] = "connecting"
    /\ Leave(o, "failed")
    /\ UNCHANGED <<box, link, command, lost, badge, result, reboot, seen>>

\* establish_connection is over.
Connect(o) ==
    /\ pc[o] = "connecting" /\ held = "down"
    /\ Goto(o, "subscribing")
    /\ UNCHANGED <<box, link, owner, answer, command, temp, lost, badge, result, outcome,
                   shown, reboot, seen>>

\* start_notify, then the first write of the body.
Subscribe(o) ==
    /\ pc[o] = "subscribing" /\ o \notin lost
    /\ Goto(o, "writing") /\ answer' = Pending
    /\ UNCHANGED <<box, link, owner, command, temp, lost, badge, result, outcome,
                   shown, reboot, seen>>

\* disconnect is over, or raises what the finally does not catch.
Close(o) ==
    /\ pc[o] = "closing"
    /\ air' = IF o \in lost THEN air ELSE <<>>
    /\ \E report \in {result[o], "failed"} : Leave(o, report)
    /\ UNCHANGED <<box, held, command, lost, badge, result, reboot, seen>>

-----------------------------------------------------------------------------
(* A command: _async_admin_write, and the mailbox (external). *)

Push(kind, uid) ==
    air' = IF Listening THEN Append(air, [kind |-> kind, uid |-> uid]) ELSE air

\* The mailbox carries out the command of o; VIGIK has no answer but a refusal.
Obey(o) ==
    CASE ~keyOk -> Push("unauthorized", Target) /\ UNCHANGED <<tags, vigik, scanning>>
      [] keyOk /\ command[o] = "scan" ->
            scanning' = TRUE /\ UNCHANGED <<tags, vigik, air>>
      [] keyOk /\ command[o] = "register" ->
            /\ tags' = tags \cup {badge[o]}
            /\ Push(IF badge[o] \in tags THEN "already" ELSE "registered", badge[o])
            /\ UNCHANGED <<vigik, scanning>>
      [] keyOk /\ command[o] = "unregister" ->
            /\ tags' = tags \ {Target}
            /\ Push("unregistered", Target) /\ UNCHANGED <<vigik, scanning>>
      [] OTHER -> vigik' = (command[o] = "on") /\ UNCHANGED <<tags, scanning, air>>

\* The command reaches the mailbox.
Write(o) ==
    /\ pc[o] = "writing" /\ o \notin lost
    /\ Obey(o)
    /\ Goto(o, "written")
    /\ UNCHANGED <<keyOk, held, owner, answer, command, temp, lost, badge, result, outcome,
                   shown, reboot, seen>>

\* The write is acknowledged.
Written(o) ==
    /\ pc[o] = "written" /\ o \notin lost
    /\ Goto(o, "waiting")
    /\ UNCHANGED <<box, link, owner, answer, command, temp, lost, badge, result, outcome,
                   shown, reboot, seen>>

\* An operation of the link fails, the command received or not.
LinkFails(o) ==
    /\ pc[o] \in {"subscribing", "writing", "written"}
    /\ Finish(o, "failed")
    /\ UNCHANGED <<box, link, command, lost, badge, reboot, seen>>

\* A call waits for an answer, or for the acknowledgement of its write: either may
\* end with a TimeoutError.
InTime(o) ==
    \/ pc[o] = "waiting" /\ answer = Pending
    \/ pc[o] \in {"writing", "written"}

\* A mistake: only VIGIK bounds the wait for its answer.
TimeoutOfVigik(o) ==
    /\ InTime(o) /\ command[o] \in {"on", "off"}
    /\ Finish(o, "set")
    /\ UNCHANGED <<box, link, command, lost, badge, reboot, seen>>

\* A mistake: silence is taken for success, as it is for VIGIK.
TimeoutIsSuccess(o) ==
    /\ InTime(o)
    /\ Finish(o, IF command[o] = "unregister" THEN "revoked" ELSE "set")
    /\ UNCHANGED <<box, link, command, lost, badge, reboot, seen>>

\* NFC_SCAN_TIMEOUT or ADMIN_ACK_TIMEOUT: silence is a failure, but for VIGIK.
Timeout(o) ==
    /\ InTime(o)
    /\ Finish(o, IF command[o] \in {"on", "off"} THEN "set" ELSE "failed")
    /\ UNCHANGED <<box, link, command, lost, badge, reboot, seen>>

Settled == answer \in Answer
Answered(o) == pc[o] = "waiting" /\ Settled

\* The scan has found a badge: it is registered, under a new future.
Found(o) ==
    /\ Answered(o) /\ command[o] = "scan" /\ answer.kind = "found"
    /\ command' = [command EXCEPT ![o] = "register"]
    /\ badge' = [badge EXCEPT ![o] = answer.uid]
    /\ answer' = Pending /\ Goto(o, "writing")
    /\ UNCHANGED <<box, link, owner, temp, lost, result, outcome, shown, reboot, seen>>

\* A mistake: only a refused key fails an enrolment, as for VIGIK.
VerdictAny(o) ==
    CASE answer.kind = "unauthorized" -> "failed"
      [] command[o] \in {"scan", "register"} -> "registered"
      [] command[o] = "unregister" -> "revoked"
      [] OTHER -> "set"

\* What the body makes of its last answer.
Verdict(o) ==
    CASE command[o] = "register" /\ answer.kind \in {"registered", "already"}
            -> answer.kind
      [] command[o] = "unregister" /\ answer.kind = "unregistered" -> "revoked"
      [] command[o] \in {"on", "off"} /\ answer.kind # "unauthorized" -> "set"
      [] OTHER -> "failed"

Conclude(o) ==
    /\ Answered(o)
    /\ ~(command[o] = "scan" /\ answer.kind = "found")
    /\ Finish(o, Verdict(o))
    /\ UNCHANGED <<box, link, command, lost, badge, reboot, seen>>

-----------------------------------------------------------------------------
(* Answers, the scan, the held link. *)

\* _on_app_notify: any answer of these settles the future in place.
Deliver ==
    /\ air # <<>> /\ air' = Tail(air)
    /\ answer' = IF answer = Pending THEN Head(air) ELSE answer
    /\ UNCHANGED <<box, held, owner, calls, shown, reboot, seen>>

\* A badge is presented while the mailbox scans.
Present(uid) ==
    /\ scanning /\ scanning' = FALSE
    /\ Push(IF uid \in tags THEN "exists" ELSE "found", uid)
    /\ seen' = [o \in Ops |-> IF pc[o] \in WritePC THEN seen[o] \cup {uid} ELSE seen[o]]
    /\ UNCHANGED <<keyOk, tags, vigik, held, owner, answer, calls, shown, reboot>>

ScanEnds ==
    /\ scanning /\ scanning' = FALSE
    /\ Push("scanTimeout", Target)
    /\ UNCHANGED <<keyOk, tags, vigik, held, owner, answer, calls, shown, reboot, seen>>

HeldMoves ==
    /\ \/ held = "down" /\ ~TempConnected /\ held' = "up" /\ UNCHANGED air
       \/ held = "up" /\ held' = "sub" /\ UNCHANGED air
       \/ held # "down" /\ held' = "down" /\ air' = <<>>
    /\ lost' = IF held' = "down"
               THEN lost \cup {o \in Ops \ temp : pc[o] \in WritePC} ELSE lost
    /\ UNCHANGED <<box, owner, answer, pc, command, temp, badge, result, outcome, shown, reboot, seen>>

\* async_reboot: nothing is sent within REBOOT_DEBOUNCE of the last attempt, and the
\* debounce starts before the connection.
Reboot ==
    /\ reboot = "ready" /\ reboot' = "session"
    /\ UNCHANGED <<box, link, owner, answer, calls, shown, seen>>

\* REBOOT_FRAME reaches the mailbox, over the held link or a session of its own:
\* it restarts, and whatever it was doing for others is cut.
Restarts ==
    /\ reboot = "session" /\ (held # "down" \/ ~TempConnected)
    /\ reboot' = "debounced"
    /\ scanning' = FALSE /\ held' = "down" /\ air' = <<>>
    /\ lost' = lost \cup {o \in Ops : pc[o] \in LockedPC \ {"connecting"}}
    /\ UNCHANGED <<keyOk, tags, vigik, owner, answer, pc, command, temp, badge, result,
                   outcome, shown, seen>>

\* It is out of reach, or the debounce is over.
RebootEnds ==
    /\ \/ reboot = "session" /\ reboot' = "debounced"
       \/ reboot = "debounced" /\ reboot' = "ready"
    /\ UNCHANGED <<box, link, owner, answer, calls, shown, seen>>

Step(o) ==
    \/ Acquire(o) \/ ConnectFails(o) \/ Connect(o) \/ Subscribe(o)
    \/ Write(o) \/ Written(o) \/ LinkFails(o) \/ Timeout(o)
    \/ Found(o) \/ Conclude(o) \/ Close(o)

Next ==
    \/ \E o \in Ops : Call(o) \/ Step(o)
    \/ \E uid \in Badges : Present(uid)
    \/ ScanEnds \/ Deliver \/ HeldMoves
    \/ Reboot \/ Restarts \/ RebootEnds

Spec == Init /\ [][Next]_vars

\* Each await ends, by an answer, an error or its timeout, and the lock, which is
\* fair (asyncio.Lock), goes to each call that waits for it.
Fairness == \A o \in Ops : WF_vars(Step(o)) /\ SF_vars(Acquire(o))
FairSpec == Spec /\ Fairness

-----------------------------------------------------------------------------
(* Properties. *)

\* One operation at a time, the one whose future is in place (_admin_lock).
OneOperation ==
    /\ \A o \in Ops : pc[o] \in LockedPC <=> owner = o
    /\ answer # None => owner # NoOp

\* A badge is reported as enrolled only while the mailbox accepts it, though the
\* answer may have been meant for another call: writes are acknowledged, answers
\* come in order, and each operation has its lock until it reports.
EnrolledIsIn ==
    [][ \A o \in Ops : /\ outcome'[o] \in {"registered", "already"}
                       /\ outcome[o] = "none"
                       => badge[o] \in tags' ]_vars

\* A badge is reported as revoked only when the mailbox no longer accepts it,
\* whichever late answer the report comes from.
RevokedIsGone ==
    [][ \A o \in Ops : outcome'[o] = "revoked" /\ outcome[o] = "none"
                       => Target \notin tags' ]_vars

\* Every call ends.
EveryCallEnds == \A o \in Ops : pc[o] # "idle" ~> pc[o] = "done"

\* The docstring of BoksVigikSwitch: a refused command does not move the switch.
RefusedIsNotShown == ~keyOk => ~shown

\* The docstring of async_register_nfc_tag: SCAN_START, then a badge is presented,
\* then it is registered.
PresentedThenRegistered ==
    \A o \in Ops : outcome[o] = "registered" => badge[o] \in seen[o]
=============================================================================
