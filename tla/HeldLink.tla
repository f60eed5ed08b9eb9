------------------------------ MODULE HeldLink ------------------------------
(***************************************************************************)
(* The link to the mailbox: the "Connexion maintenue" switch               *)
(* (switch.py, `BoksLink.async_set_hold`), the task that holds the link    *)
(* (`_async_run`, `_async_session`), the one that refreshes the state while *)
(* it is not held (`_async_refresh_loop`, `_async_refresh_once`) and the    *)
(* end of it all (`async_stop`).                                           *)
(*                                                                         *)
(* Everything runs on one event loop: a coroutine is cut at its awaits,    *)
(* and a cancellation is raised in a task at the await it stands at, when   *)
(* the task runs again.  The mailbox has one connection.                   *)
(***************************************************************************)
EXTENDS Integers, FiniteSets

CONSTANTS Calls,       \* calls of async_set_hold and async_stop
          Runners,     \* tasks that hold the link, one per async_set_hold(True)
          None,        \* no task, no client
          Refresh,     \* the client of a refreshing session
          Refreshing   \* refresh_interval > 0

ASSUME HeldLinkAssumption ==
    /\ None \notin Runners /\ Refresh \notin Runners /\ None # Refresh
    /\ Refreshing \in BOOLEAN

VARIABLES
    hold,      \* BoksLink._hold
    stop,      \* BoksLink._stop is set
    stopped,   \* BoksLink._stop_refresh is set: async_stop has been called
    runner,    \* BoksLink._runner
    pc,        \* where each task that holds the link is
    cancelled, \* tasks to cancel when they run again
    dying,     \* tasks a CancelledError is going through
    client,    \* BoksLink._client, named after its task
    taken,     \* the client each task or call took out of _client to disconnect it
    connected, \* BoksState.connected
    up,        \* the client the mailbox is connected to
    closing,   \* whether its disconnection has been asked for
    call,      \* where each call is
    awaited,   \* the task each call awaits the end of
    serial,    \* calls have been made one after the other so far
    refresh    \* where the task that refreshes is

tasks == <<runner, pc, cancelled, dying>>
radio == <<client, connected, up, closing>>
flags == <<hold, stop, stopped>>
callers == <<call, awaited, serial>>
vars == <<flags, tasks, radio, taken, callers, refresh>>

RunnerPC == {"unborn", "ready", "connecting", "session", "clearing",
             "disconnecting", "sleeping", "ended"}
CallPC == {"idle", "refresh", "runner", "disconnecting", "done"}
RefreshPC == {"waiting", "connecting", "reading", "clearing", "disconnecting", "ended"}

TypeOK ==
    /\ hold \in BOOLEAN /\ stop \in BOOLEAN /\ stopped \in BOOLEAN
    /\ runner \in Runners \cup {None}
    /\ pc \in [Runners -> RunnerPC]
    /\ cancelled \subseteq Runners \cup {Refresh}
    /\ dying \subseteq Runners \cup {Refresh}
    /\ client \in Runners \cup {None}
    /\ taken \in [Runners \cup Calls -> Runners \cup {None}]
    /\ connected \in BOOLEAN
    /\ up \in Runners \cup {Refresh, None} /\ closing \in BOOLEAN
    /\ call \in [Calls -> CallPC]
    /\ awaited \in [Calls -> Runners \cup {None}]
    /\ serial \in BOOLEAN
    /\ refresh \in RefreshPC

\* async_start: no link is held, and the state is refreshed if it is asked for.
Init ==
    /\ hold = FALSE /\ stop = FALSE /\ stopped = FALSE
    /\ runner = None /\ pc = [r \in Runners |-> "unborn"]
    /\ cancelled = {} /\ dying = {}
    /\ client = None /\ taken = [x \in Runners \cup Calls |-> None]
    /\ connected = FALSE /\ up = None /\ closing = FALSE
    /\ call = [c \in Calls |-> "idle"] /\ awaited = [c \in Calls |-> None]
    /\ serial = TRUE
    /\ refresh = IF Refreshing THEN "waiting" ELSE "ended"

Alive(r) == pc[r] \notin {"unborn", "ended"}
Served(r) == Alive(r) /\ r \notin cancelled \cup dying
Goto(r, label) == pc' = [pc EXCEPT ![r] = label]
Return(c, label) == call' = [call EXCEPT ![c] = label]
InProgress(c) == call[c] \notin {"idle", "done"}
Settled == \A c \in Calls : ~InProgress(c)

\* A call is made, whether another is under way or not.
MayCall(c) == call[c] = "idle" /\ serial' = (serial /\ Settled)

-----------------------------------------------------------------------------
(* The connection. *)

\* client.disconnect() is asked for.
AskClose(x) == closing' = (closing \/ up = x)

\* A mistake: the client is created without its callback.
DownUnseen == up' = None /\ closing' = FALSE /\ UNCHANGED connected

\* The connection is down: `_on_disconnected`, which does not look at the client.
Down ==
    /\ up' = None /\ closing' = FALSE
    /\ connected' = FALSE

\* The mailbox leaves, or the disconnection that was asked for takes place.
Drop ==
    /\ up # None
    /\ Down
    /\ UNCHANGED <<flags, tasks, client, taken, callers, refresh>>

\* _async_disconnect up to its await: x takes the client away, whosever it is.
TakeClient(x) ==
    /\ taken' = [taken EXCEPT ![x] = client]
    /\ client' = None
    /\ AskClose(client)

\* _async_disconnect after its await: _set_disconnected.
Disconnected(x) ==
    /\ taken' = [taken EXCEPT ![x] = None]
    /\ connected' = FALSE
    /\ IF up = taken[x] THEN up' = None /\ closing' = FALSE ELSE UNCHANGED <<up, closing>>

-----------------------------------------------------------------------------
(* Calls. *)

\* A mistake: the link is turned on without clearing the event.
TurnOnStopped(c) ==
    /\ MayCall(c) /\ ~hold /\ ~stopped
    /\ hold' = TRUE
    /\ \E r \in Runners : pc[r] = "unborn" /\ runner' = r /\ Goto(r, "ready")
    /\ Return(c, "done")
    /\ UNCHANGED <<stop, stopped, cancelled, dying, radio, taken, awaited, refresh>>

\* async_set_hold(True): a new task, whatever remains of the former one.
TurnOn(c) ==
    /\ MayCall(c) /\ ~hold /\ ~stopped
    /\ hold' = TRUE /\ stop' = FALSE
    /\ \E r \in Runners : pc[r] = "unborn" /\ runner' = r /\ Goto(r, "ready")
    /\ Return(c, "done")
    /\ UNCHANGED <<stopped, cancelled, dying, radio, taken, awaited, refresh>>

\* _async_disconnect in a call.
DisconnectIn(c) ==
    IF client = None
    THEN Return(c, "done") /\ UNCHANGED <<client, taken, closing>>
    ELSE Return(c, "disconnecting") /\ TakeClient(c)

\* A mistake: the task is cancelled, the event that ends any other is not set.
CancelOnly(c) ==
    IF runner = None
    THEN DisconnectIn(c) /\ UNCHANGED <<stop, cancelled, awaited>>
    ELSE /\ cancelled' = IF Alive(runner) THEN cancelled \cup {runner} ELSE cancelled
         /\ awaited' = [awaited EXCEPT ![c] = runner]
         /\ Return(c, "runner")
         /\ UNCHANGED <<stop, client, taken, closing>>

\* A mistake: the event is left to end the task.
StopOnly(c) ==
    /\ stop' = TRUE
    /\ DisconnectIn(c) /\ UNCHANGED <<cancelled, awaited>>

\* _async_cancel_runner up to its await, and what follows when it has none.
CancelRunner(c) ==
    /\ stop' = TRUE
    /\ IF runner = None
       THEN DisconnectIn(c) /\ UNCHANGED <<cancelled, awaited>>
       ELSE /\ cancelled' = IF Alive(runner) THEN cancelled \cup {runner} ELSE cancelled
            /\ awaited' = [awaited EXCEPT ![c] = runner]
            /\ Return(c, "runner")
            /\ UNCHANGED <<client, taken, closing>>

\* async_set_hold(False).
TurnOff(c) ==
    /\ MayCall(c) /\ hold /\ ~stopped
    /\ hold' = FALSE
    /\ CancelRunner(c)
    /\ UNCHANGED <<stopped, runner, pc, dying, connected, up, refresh>>

\* async_stop, up to the end of the task that refreshes.
Stop(c) ==
    /\ MayCall(c) /\ ~stopped
    /\ hold' = FALSE /\ stopped' = TRUE
    /\ IF Refreshing
       THEN /\ cancelled' = IF refresh = "ended" THEN cancelled ELSE cancelled \cup {Refresh}
            /\ Return(c, "refresh") /\ UNCHANGED <<stop, awaited, client, taken, closing>>
       ELSE CancelRunner(c)
    /\ UNCHANGED <<runner, pc, dying, connected, up, refresh>>

\* async_stop goes on to the task that holds the link.
RefreshEnded(c) ==
    /\ call[c] = "refresh" /\ refresh = "ended"
    /\ CancelRunner(c)
    /\ UNCHANGED <<hold, stopped, runner, pc, dying, connected, up, serial, refresh>>

\* A mistake: the end of the task is taken for the end of its connection.
RunnerEndedOnly(c) ==
    /\ call[c] = "runner" /\ pc[awaited[c]] = "ended"
    /\ runner' = None
    /\ awaited' = [awaited EXCEPT ![c] = None]
    /\ Return(c, "done")
    /\ UNCHANGED <<flags, pc, cancelled, dying, radio, taken, serial, refresh>>

\* The awaited task is over: `_runner = None`, whichever task it names by now.
RunnerEnded(c) ==
    /\ call[c] = "runner" /\ pc[awaited[c]] = "ended"
    /\ runner' = None
    /\ awaited' = [awaited EXCEPT ![c] = None]
    /\ DisconnectIn(c)
    /\ UNCHANGED <<flags, pc, cancelled, dying, connected, up, serial, refresh>>

CallDisconnected(c) ==
    /\ call[c] = "disconnecting"
    /\ Disconnected(c)
    /\ Return(c, "done")
    /\ UNCHANGED <<flags, tasks, client, awaited, serial, refresh>>

-----------------------------------------------------------------------------
(* The task that holds the link. *)

\* The `while` of _async_run.
Loop(r) ==
    /\ pc[r] \in {"ready", "sleeping"} /\ r \notin cancelled
    /\ Goto(r, IF stop THEN "ended" ELSE "connecting")
    /\ UNCHANGED <<flags, runner, cancelled, dying, radio, taken, callers, refresh>>

\* A mistake: an attempt that fails is the last one.
GiveUp(r) ==
    /\ dying' = dying \ {r}
    /\ Goto(r, "ended")

\* _async_run after a session: the end, or _set_disconnected and the backoff.
\* A CancelledError goes on instead.
AfterSession(r) ==
    /\ dying' = dying \ {r}
    /\ Goto(r, IF stop \/ r \in dying THEN "ended" ELSE "sleeping")

\* No adapter reaches the mailbox, or establish_connection fails.
ConnectFails(r) ==
    /\ pc[r] = "connecting" /\ r \notin cancelled
    /\ AfterSession(r)
    /\ connected' = (connected /\ stop)
    /\ UNCHANGED <<flags, runner, cancelled, client, up, closing, taken, callers, refresh>>

Connect(r) ==
    /\ pc[r] = "connecting" /\ r \notin cancelled /\ up = None
    /\ up' = r /\ client' = r /\ connected' = TRUE
    /\ Goto(r, "session")
    /\ UNCHANGED <<flags, runner, cancelled, dying, closing, taken, callers, refresh>>

\* The event is set, the connection is lost or an operation fails: `finally`.
SessionEnds(r) ==
    /\ pc[r] = "session" /\ r \notin cancelled
    /\ Goto(r, "clearing")
    /\ UNCHANGED <<flags, runner, cancelled, dying, radio, taken, callers, refresh>>

\* clear_cache is over: _async_disconnect.
Cleared(r) ==
    /\ pc[r] = "clearing" /\ r \notin cancelled
    /\ IF client = None
       THEN /\ AfterSession(r)
            /\ connected' = (connected /\ (stop \/ r \in dying))
            /\ UNCHANGED <<client, taken, closing>>
       ELSE TakeClient(r) /\ Goto(r, "disconnecting") /\ UNCHANGED <<dying, connected>>
    /\ UNCHANGED <<flags, runner, cancelled, up, callers, refresh>>

RunnerDisconnected(r) ==
    /\ pc[r] = "disconnecting" /\ r \notin cancelled
    /\ Disconnected(r)
    /\ AfterSession(r)
    /\ UNCHANGED <<flags, runner, cancelled, client, callers, refresh>>

\* The cancellation is raised.  In a session it goes through `finally`; raised
\* a second time, in `finally`, it skips what remains of it.
Cancelled(r) ==
    /\ Alive(r) /\ r \in cancelled
    /\ cancelled' = cancelled \ {r}
    /\ IF pc[r] = "session"
       THEN Goto(r, "clearing") /\ dying' = dying \cup {r} /\ UNCHANGED taken
       ELSE Goto(r, "ended") /\ dying' = dying \ {r} /\ taken' = [taken EXCEPT ![r] = None]
    /\ UNCHANGED <<flags, runner, radio, callers, refresh>>

-----------------------------------------------------------------------------
(* The task that refreshes. *)

\* The interval is over: a session, unless the link is held.
RefreshWakes ==
    /\ refresh = "waiting" /\ Refresh \notin cancelled /\ ~hold
    /\ refresh' = "connecting"
    /\ UNCHANGED <<flags, tasks, radio, taken, callers>>

RefreshFails ==
    /\ refresh = "connecting" /\ Refresh \notin cancelled
    /\ refresh' = "waiting"
    /\ UNCHANGED <<flags, tasks, radio, taken, callers>>

\* The client is a local of the coroutine, and `connected` is left alone.
RefreshConnects ==
    /\ refresh = "connecting" /\ Refresh \notin cancelled /\ up = None
    /\ up' = Refresh
    /\ refresh' = "reading"
    /\ UNCHANGED <<flags, tasks, client, connected, closing, taken, callers>>

\* The reads are over, or one fails.
RefreshReads ==
    /\ refresh = "reading" /\ Refresh \notin cancelled
    /\ refresh' = "clearing"
    /\ UNCHANGED <<flags, tasks, radio, taken, callers>>

RefreshCleared ==
    /\ refresh = "clearing" /\ Refresh \notin cancelled
    /\ AskClose(Refresh)
    /\ refresh' = "disconnecting"
    /\ UNCHANGED <<flags, tasks, client, connected, up, taken, callers>>

\* _on_disconnected is this session's callback too.
RefreshDisconnected ==
    /\ refresh = "disconnecting" /\ Refresh \notin cancelled
    /\ IF up = Refresh THEN Down ELSE UNCHANGED <<up, closing, connected>>
    /\ dying' = dying \ {Refresh}
    /\ refresh' = IF Refresh \in dying THEN "ended" ELSE "waiting"
    /\ UNCHANGED <<flags, runner, pc, cancelled, client, taken, callers>>

\* As Cancelled: raised while the cache is cleared, it skips the disconnection.
RefreshCancelled ==
    /\ Refresh \in cancelled
    /\ cancelled' = cancelled \ {Refresh}
    /\ IF refresh = "reading"
       THEN refresh' = "clearing" /\ dying' = dying \cup {Refresh}
       ELSE refresh' = "ended" /\ dying' = dying \ {Refresh}
    /\ UNCHANGED <<flags, runner, pc, radio, taken, callers>>

-----------------------------------------------------------------------------
RunnerStep(r) ==
    \/ Loop(r) \/ ConnectFails(r) \/ Connect(r) \/ SessionEnds(r)
    \/ Cleared(r) \/ RunnerDisconnected(r) \/ Cancelled(r)

RefreshStep ==
    \/ RefreshWakes \/ RefreshFails \/ RefreshConnects \/ RefreshReads
    \/ RefreshCleared \/ RefreshDisconnected \/ RefreshCancelled

CallStep(c) == RefreshEnded(c) \/ RunnerEnded(c) \/ CallDisconnected(c)

Next ==
    \/ \E c \in Calls : TurnOn(c) \/ TurnOff(c) \/ Stop(c) \/ CallStep(c)
    \/ \E r \in Runners : RunnerStep(r)
    \/ RefreshStep
    \/ Drop

Spec == Init /\ [][Next]_vars

\* A session need not end; it does once the event is set or the connection lost.
MustEnd(r) == SessionEnds(r) /\ (stop \/ up # r)

\* Awaits end, by an answer, an error or a timeout; a task that sleeps or that is
\* cancelled runs again; a disconnection asked for takes place, and the mailbox
\* leaves a client that writes nothing to it.  A mailbox that can be reached for
\* ever is reached by one of the attempts.
Fairness ==
    /\ \A c \in Calls : WF_vars(CallStep(c))
    /\ \A r \in Runners :
          /\ WF_vars(Loop(r) \/ ConnectFails(r) \/ Connect(r) \/ MustEnd(r)
                     \/ Cleared(r) \/ RunnerDisconnected(r) \/ Cancelled(r))
          /\ SF_vars(Connect(r))
    /\ WF_vars(RefreshStep /\ refresh # "waiting")
    /\ WF_vars(RefreshCancelled)
    /\ WF_vars(Drop /\ closing)
FairSpec == Spec /\ Fairness

-----------------------------------------------------------------------------
(* Properties. *)

\* While the switch is on there is a task to hold the link, that no earlier call
\* turning it off will cancel or stop: late ends of such calls do it no harm.
HoldIsServed == hold => ~stop /\ \E r \in Runners : Served(r)

\* While the link is shown connected, the client a press would use is the one
\* the mailbox is connected to, or its disconnection is under way.
ConnectedIsUsable == connected => up \in Runners /\ (client = up \/ closing)

\* One task at most may connect, unless calls have overlapped: two would fight
\* for the one connection.
OneHolder ==
    serial => \A r, s \in Runners : Served(r) /\ Served(s) => r = s

\* binary_sensor.py, BoksLinkSensor: "Etat de la liaison BLE avec la Boks".  A
\* connection a session holds is shown, unless calls have overlapped.
SessionIsShown == \A r \in Runners : pc[r] = "session" /\ up = r => connected
LinkIsShown == serial => SessionIsShown

\* switch.py: "Eteint - aucune connexion".  Once the switch is off and the call
\* has returned, no task can connect and no connection is left, but one whose
\* disconnection has been asked for; unless calls have overlapped.
OffAtRest ==
    ~hold /\ Settled => /\ \A r \in Runners : ~Alive(r)
                        /\ up \in Runners => closing
                        /\ client = None
OffIsOff == serial => OffAtRest

\* The link is only established while the switch is on.  async_stop turns it off
\* before it awaits the end of a refresh, and stops the task only after.
LinkOnlyWhileHeld ==
    [][up' \in Runners /\ up' # up => hold \/ ~serial \/ \E c \in Calls : call[c] = "refresh"]_vars

\* Turning the switch off leads to a mailbox at rest, or to the switch being
\* turned on again, however the calls overlap.
OffReleases ==
    (~hold) ~> (hold \/ (up \notin Runners /\ \A r \in Runners : ~Alive(r)))

\* A held link that is lost is established again, however the calls overlap.
HoldReconnects == hold ~> (~hold \/ \E r \in Runners : up = r /\ pc[r] = "session")

\* The docstring of async_stop: the link is stopped cleanly.  No connection is
\* left behind that nothing will close.
StopIsClean == stopped /\ Settled /\ up # None => closing
=============================================================================
