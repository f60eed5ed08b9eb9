--------------------------- MODULE HeldLinkProofs ---------------------------
(***************************************************************************)
(* Theorems about HeldLink for every set of calls and of tasks, whether    *)
(* calls overlap or not: the variables keep their types, and a switch that *)
(* is on always has a task of its own that nothing under way will end.     *)
(* While every call waits for the one before, the others: one task at most *)
(* holds the link, none does once the switch is off, the switch shows the  *)
(* link, and the link is only established while the switch is on.          *)
(***************************************************************************)
EXTENDS HeldLink, TLAPS

\* Each variable keeps its type (async_set_hold, async_stop, _async_run,
\* _async_session, _async_refresh_loop).
THEOREM TypeCorrect == Spec => []TypeOK
<1>1. Init => TypeOK
  BY HeldLinkAssumption DEF Init, TypeOK, RunnerPC, CallPC, RefreshPC
<1>2. TypeOK /\ [Next]_vars => TypeOK'
  <2> SUFFICES ASSUME TypeOK, [Next]_vars PROVE TypeOK'
    OBVIOUS
  <2> USE HeldLinkAssumption DEF TypeOK, RunnerPC, CallPC, RefreshPC
  <2> USE DEF flags, tasks, radio, callers, Goto, Return
  <2>1. ASSUME NEW c \in Calls, TurnOn(c) PROVE TypeOK'
    <3>1. PICK r \in Runners : /\ runner' = r
                               /\ pc' = [pc EXCEPT ![r] = "ready"]
      BY <2>1 DEF TurnOn
    <3>2. pc' \in [Runners -> RunnerPC] /\ call' \in [Calls -> CallPC]
      BY <2>1, <3>1 DEF TurnOn
    <3> QED BY <2>1, <3>1, <3>2 DEF TurnOn, MayCall
  <2>2. ASSUME NEW c \in Calls, CancelRunner(c), hold' \in BOOLEAN,
               stopped' \in BOOLEAN, serial' \in BOOLEAN,
               UNCHANGED <<runner, pc, dying, connected, up, refresh>>
        PROVE TypeOK'
    <3>1. CASE runner = None /\ client = None
      BY <2>2, <3>1 DEF CancelRunner, DisconnectIn
    <3>2. CASE runner = None /\ client # None
      BY <2>2, <3>2 DEF CancelRunner, DisconnectIn, TakeClient, AskClose
    <3>3. CASE runner # None
      <4>1. /\ cancelled' \subseteq Runners \cup {Refresh}
            /\ awaited' \in [Calls -> Runners \cup {None}]
            /\ stop' /\ call' = [call EXCEPT ![c] = "runner"]
            /\ UNCHANGED <<client, taken, closing>>
        BY <2>2, <3>3 DEF CancelRunner
      <4> QED BY <2>2, <4>1
    <3> QED BY <3>1, <3>2, <3>3
  <2>3. ASSUME NEW c \in Calls, TurnOff(c) PROVE TypeOK'
    BY <2>2, <2>3 DEF TurnOff, MayCall
  <2>4. ASSUME NEW c \in Calls, Stop(c) PROVE TypeOK'
    <3>1. CASE Refreshing
      BY <2>4, <3>1 DEF Stop, MayCall
    <3>2. CASE ~Refreshing
      BY <2>2, <2>4, <3>2 DEF Stop, MayCall
    <3> QED BY <3>1, <3>2
  <2>5. ASSUME NEW c \in Calls, RefreshEnded(c) PROVE TypeOK'
    BY <2>2, <2>5 DEF RefreshEnded
  <2>6. ASSUME NEW c \in Calls, RunnerEnded(c) PROVE TypeOK'
    <3>1. CASE client = None
      BY <2>6, <3>1 DEF RunnerEnded, DisconnectIn
    <3>2. CASE client # None
      BY <2>6, <3>2 DEF RunnerEnded, DisconnectIn, TakeClient, AskClose
    <3> QED BY <3>1, <3>2
  <2>7. ASSUME NEW c \in Calls, CallDisconnected(c) PROVE TypeOK'
    <3>1. taken' \in [Runners \cup Calls -> Runners \cup {None}] /\ connected' \in BOOLEAN
      BY <2>7 DEF CallDisconnected, Disconnected
    <3>2. up' \in Runners \cup {Refresh, None} /\ closing' \in BOOLEAN
      BY <2>7 DEF CallDisconnected, Disconnected
    <3>3. call' \in [Calls -> CallPC]
      BY <2>7 DEF CallDisconnected
    <3> QED BY <2>7, <3>1, <3>2, <3>3 DEF CallDisconnected
  <2>8. ASSUME NEW r \in Runners, RunnerStep(r) PROVE TypeOK'
    <3>1. CASE Loop(r)
      BY <3>1 DEF Loop
    <3>2. CASE ConnectFails(r)
      BY <3>2 DEF ConnectFails, AfterSession
    <3>3. CASE Connect(r)
      BY <3>3 DEF Connect
    <3>4. CASE SessionEnds(r)
      BY <3>4 DEF SessionEnds
    <3>5. CASE Cleared(r)
      <4>1. CASE client = None
        BY <3>5, <4>1 DEF Cleared, AfterSession
      <4>2. CASE client # None
        BY <3>5, <4>2 DEF Cleared, TakeClient, AskClose
      <4> QED BY <4>1, <4>2
    <3>6. CASE RunnerDisconnected(r)
      <4>1. taken' \in [Runners \cup Calls -> Runners \cup {None}] /\ connected' \in BOOLEAN
        BY <3>6 DEF RunnerDisconnected, Disconnected
      <4>2. up' \in Runners \cup {Refresh, None} /\ closing' \in BOOLEAN
        BY <3>6 DEF RunnerDisconnected, Disconnected
      <4>3. pc' \in [Runners -> RunnerPC] /\ dying' \subseteq Runners \cup {Refresh}
        BY <3>6 DEF RunnerDisconnected, AfterSession
      <4> QED BY <3>6, <4>1, <4>2, <4>3 DEF RunnerDisconnected, AfterSession
    <3>7. CASE Cancelled(r)
      BY <3>7 DEF Cancelled
    <3> QED BY <2>8, <3>1, <3>2, <3>3, <3>4, <3>5, <3>6, <3>7 DEF RunnerStep
  <2>9. ASSUME RefreshStep PROVE TypeOK'
    <3>1. CASE RefreshWakes \/ RefreshFails \/ RefreshReads
      BY <3>1 DEF RefreshWakes, RefreshFails, RefreshReads
    <3>2. CASE RefreshConnects
      BY <3>2 DEF RefreshConnects
    <3>3. CASE RefreshCleared
      BY <3>3 DEF RefreshCleared, AskClose
    <3>4. CASE RefreshDisconnected
      BY <3>4 DEF RefreshDisconnected, Down
    <3>5. CASE RefreshCancelled
      BY <3>5 DEF RefreshCancelled
    <3> QED BY <2>9, <3>1, <3>2, <3>3, <3>4, <3>5 DEF RefreshStep
  <2>10. ASSUME Drop PROVE TypeOK'
    BY <2>10 DEF Drop, Down
  <2>11. ASSUME UNCHANGED vars PROVE TypeOK'
    BY <2>11 DEF vars
  <2> QED
    BY <2>1, <2>3, <2>4, <2>5, <2>6, <2>7, <2>8, <2>9, <2>10, <2>11 DEF Next, CallStep
<1> QED BY <1>1, <1>2, PTL DEF Spec

-----------------------------------------------------------------------------
\* What makes HoldIsServed inductive: a task that has not begun is neither
\* cancelled nor going through a cancellation, so the one TurnOn creates is whole.
Fresh == \A r \in Runners : pc[r] = "unborn" => r \notin cancelled \cup dying

\* And a call that goes on from the end of a refresh finds the switch off.
StoppedIsOff ==
    /\ stopped => ~hold
    /\ \A c \in Calls : call[c] = "refresh" => stopped

ServedInv == HoldIsServed /\ Fresh /\ StoppedIsOff

\* A task that is served and that a step neither cancels nor moves to its end
\* is served after it.
LEMMA StaysServed ==
    ASSUME NEW r \in Runners, Served(r), pc'[r] \notin {"unborn", "ended"},
           r \notin cancelled', r \notin dying'
    PROVE  Served(r)'
  BY DEF Served, Alive

\* Steps that leave the switch, the event and the tasks alone, and begin no wait
\* for the end of a refresh, keep the invariant.
LEMMA Elsewhere ==
    ASSUME ServedInv, UNCHANGED <<hold, stop, stopped, pc, cancelled, dying>>,
           \A c \in Calls : call'[c] = "refresh" => call[c] = "refresh"
    PROVE  ServedInv'
  BY DEF ServedInv, HoldIsServed, Fresh, StoppedIsOff, Served, Alive

\* The sync part of _async_cancel_runner keeps the invariant once hold is FALSE.
LEMMA CancelKeeps ==
    ASSUME TypeOK, ServedInv, NEW c \in Calls, CancelRunner(c), hold' = FALSE,
           stopped => stopped', UNCHANGED <<pc, dying>>
    PROVE  ServedInv'
<1>1. \A d \in Calls : call'[d] = "refresh" => call[d] = "refresh"
  BY DEF CancelRunner, DisconnectIn, Return, TypeOK
<1>2. Fresh'
  BY DEF CancelRunner, ServedInv, Fresh, TypeOK, Alive
<1> QED BY <1>1, <1>2 DEF ServedInv, HoldIsServed, StoppedIsOff

\* A step of one task keeps the invariant: it ends only when the event is set or
\* when it is cancelled, and then another one is served.
LEMMA RunnerKeeps ==
    ASSUME TypeOK, ServedInv, NEW r \in Runners, RunnerStep(r)
    PROVE  ServedInv'
<1> USE DEF flags, tasks, radio, callers, Goto
<1>1. UNCHANGED <<hold, stop, stopped, call>>
  BY DEF RunnerStep, Loop, ConnectFails, Connect, SessionEnds, Cleared,
         RunnerDisconnected, Cancelled
<1>2. pc[r] # "unborn" /\ pc'[r] # "unborn"
  BY DEF RunnerStep, Loop, ConnectFails, Connect, SessionEnds, Cleared,
         RunnerDisconnected, Cancelled, AfterSession, Alive, TypeOK
<1>3. \A s \in Runners \ {r} : /\ pc'[s] = pc[s]
                               /\ s \in cancelled' <=> s \in cancelled
                               /\ s \in dying' <=> s \in dying
  BY DEF RunnerStep, Loop, ConnectFails, Connect, SessionEnds, Cleared,
         RunnerDisconnected, Cancelled, AfterSession, TypeOK
<1>4. Fresh'
  BY <1>2, <1>3 DEF ServedInv, Fresh
<1>5. ASSUME ~stop, Served(r) PROVE Served(r)'
  <2>1. r \notin cancelled' /\ r \notin dying'
    BY <1>5 DEF RunnerStep, Loop, ConnectFails, Connect, SessionEnds, Cleared,
       RunnerDisconnected, Cancelled, AfterSession, Served
  <2>2. pc'[r] \notin {"unborn", "ended"}
    BY <1>5 DEF RunnerStep, Loop, ConnectFails, Connect, SessionEnds, Cleared,
       RunnerDisconnected, Cancelled, AfterSession, Served, TypeOK
  <2> QED BY <1>5, <2>1, <2>2, StaysServed
<1>6. HoldIsServed'
  <2> SUFFICES ASSUME hold' PROVE ~stop' /\ \E s \in Runners : Served(s)'
    BY DEF HoldIsServed
  <2>1. hold /\ ~stop
    BY <1>1 DEF ServedInv, HoldIsServed
  <2>2. PICK s \in Runners : Served(s)
    BY <2>1 DEF ServedInv, HoldIsServed
  <2>3. Served(s)'
    BY <1>3, <1>5, <2>1, <2>2 DEF Served, Alive
  <2> QED BY <1>1, <2>1, <2>3
<1> QED BY <1>1, <1>4, <1>6 DEF ServedInv, StoppedIsOff

LEMMA ServedInvHolds == Spec => []ServedInv
<1>1. Init => ServedInv
  BY DEF Init, ServedInv, HoldIsServed, Fresh, StoppedIsOff
<1>2. TypeOK /\ ServedInv /\ [Next]_vars => ServedInv'
  <2> SUFFICES ASSUME TypeOK, ServedInv, [Next]_vars PROVE ServedInv'
    OBVIOUS
  <2> USE DEF flags, tasks, radio, callers
  <2>1. ASSUME NEW c \in Calls, TurnOn(c) PROVE ServedInv'
    <3>1. PICK r \in Runners : pc[r] = "unborn" /\ pc' = [pc EXCEPT ![r] = "ready"]
      BY <2>1 DEF TurnOn, Goto
    <3>2. r \notin cancelled /\ r \notin dying
      BY <3>1 DEF ServedInv, Fresh
    <3>3. pc'[r] = "ready" /\ \A s \in Runners \ {r} : pc'[s] = pc[s]
      BY <3>1 DEF TypeOK
    <3>4. Served(r)'
      BY <2>1, <3>2, <3>3 DEF TurnOn, Served, Alive
    <3>5. Fresh'
      BY <2>1, <3>3 DEF TurnOn, ServedInv, Fresh
    <3>6. StoppedIsOff'
      BY <2>1 DEF TurnOn, ServedInv, StoppedIsOff, Return, TypeOK
    <3> QED BY <2>1, <3>4, <3>5, <3>6 DEF TurnOn, ServedInv, HoldIsServed
  <2>2. ASSUME NEW c \in Calls, TurnOff(c) PROVE ServedInv'
    BY <2>2, CancelKeeps DEF TurnOff
  <2>3. ASSUME NEW c \in Calls, Stop(c) PROVE ServedInv'
    <3>1. CASE Refreshing
      <4>1. hold' = FALSE /\ stopped' = TRUE /\ UNCHANGED <<pc, dying>>
        BY <2>3, <3>1 DEF Stop
      <4>2. cancelled' \subseteq cancelled \cup {Refresh}
        BY <2>3, <3>1 DEF Stop
      <4>3. Fresh'
        BY <4>1, <4>2, HeldLinkAssumption DEF ServedInv, Fresh
      <4> QED BY <4>1, <4>3 DEF ServedInv, HoldIsServed, StoppedIsOff
    <3>2. CASE ~Refreshing
      BY <2>3, <3>2, CancelKeeps DEF Stop
    <3> QED BY <3>1, <3>2
  <2>4. ASSUME NEW c \in Calls, RefreshEnded(c) PROVE ServedInv'
    BY <2>4, CancelKeeps DEF RefreshEnded, ServedInv, StoppedIsOff, TypeOK
  <2>5. ASSUME NEW c \in Calls, RunnerEnded(c) PROVE ServedInv'
    <3>1. \A d \in Calls : call'[d] = "refresh" => call[d] = "refresh"
      BY <2>5 DEF RunnerEnded, DisconnectIn, Return, TypeOK
    <3> QED BY <2>5, <3>1, Elsewhere DEF RunnerEnded
  <2>6. ASSUME NEW c \in Calls, CallDisconnected(c) PROVE ServedInv'
    <3>1. \A d \in Calls : call'[d] = "refresh" => call[d] = "refresh"
      BY <2>6 DEF CallDisconnected, Return, TypeOK
    <3> QED BY <2>6, <3>1, Elsewhere DEF CallDisconnected
  <2>7. ASSUME NEW r \in Runners, RunnerStep(r) PROVE ServedInv'
    BY <2>7, RunnerKeeps
  <2>8. ASSUME RefreshStep PROVE ServedInv'
    <3>1. UNCHANGED <<hold, stop, stopped, pc, call>>
      BY <2>8 DEF RefreshStep, RefreshWakes, RefreshFails, RefreshConnects,
         RefreshReads, RefreshCleared, RefreshDisconnected, RefreshCancelled
    <3>2. \A r \in Runners : /\ r \in cancelled' <=> r \in cancelled
                             /\ r \in dying' <=> r \in dying
      BY <2>8, HeldLinkAssumption
         DEF RefreshStep, RefreshWakes, RefreshFails, RefreshConnects,
         RefreshReads, RefreshCleared, RefreshDisconnected, RefreshCancelled
    <3> QED BY <3>1, <3>2
       DEF ServedInv, HoldIsServed, Fresh, StoppedIsOff, Served, Alive
  <2>9. ASSUME Drop PROVE ServedInv'
    BY <2>9, Elsewhere DEF Drop
  <2>10. ASSUME UNCHANGED vars PROVE ServedInv'
    BY <2>10, Elsewhere DEF vars
  <2> QED
    BY <2>1, <2>2, <2>3, <2>4, <2>5, <2>6, <2>7, <2>8, <2>9, <2>10 DEF Next, CallStep
<1> QED BY <1>1, <1>2, TypeCorrect, PTL DEF Spec

\* While the switch is on, the event that ends tasks is clear and a task that no
\* call has cancelled holds the link, however calls overlap (async_set_hold,
\* _async_cancel_runner).
THEOREM HoldIsServedHolds == Spec => []HoldIsServed
<1>1. ServedInv => HoldIsServed
  BY DEF ServedInv
<1> QED BY <1>1, ServedInvHolds, PTL

-----------------------------------------------------------------------------
\* Taking the client away asks for the disconnection of the one that is up, if
\* that is the client.
LEMMA TakeKeeps ==
    ASSUME ConnectedIsUsable, NEW x, TakeClient(x), UNCHANGED up, connected' => connected
    PROVE  ConnectedIsUsable'
  BY DEF ConnectedIsUsable, TakeClient, AskClose

\* Steps that leave the client and the connection alone.
LEMMA RadioElsewhere ==
    ASSUME ConnectedIsUsable, UNCHANGED <<client, up, closing>>, connected' => connected
    PROVE  ConnectedIsUsable'
  BY DEF ConnectedIsUsable

\* While the link is shown connected, _client is the client the mailbox is
\* connected to, or that connection is being closed (_async_session,
\* _async_disconnect, _on_disconnected).
THEOREM ConnectedIsUsableHolds == Spec => []ConnectedIsUsable
<1>1. Init => ConnectedIsUsable
  BY DEF Init, ConnectedIsUsable
<1>2. ConnectedIsUsable /\ [Next]_vars => ConnectedIsUsable'
  <2> SUFFICES ASSUME ConnectedIsUsable, [Next]_vars PROVE ConnectedIsUsable'
    OBVIOUS
  <2> USE DEF flags, tasks, radio, callers
  <2>1. ASSUME NEW c \in Calls, DisconnectIn(c), UNCHANGED <<up, connected>>
        PROVE ConnectedIsUsable'
    BY <2>1, TakeKeeps, RadioElsewhere DEF DisconnectIn
  <2>2. ASSUME NEW c \in Calls, CancelRunner(c), UNCHANGED <<up, connected>>
        PROVE ConnectedIsUsable'
    BY <2>1, <2>2, RadioElsewhere DEF CancelRunner
  <2>3. ASSUME NEW c \in Calls, TurnOn(c) \/ TurnOff(c) \/ Stop(c) \/ CallStep(c)
        PROVE ConnectedIsUsable'
    <3>1. CASE TurnOn(c)
      BY <3>1, RadioElsewhere DEF TurnOn
    <3>2. CASE TurnOff(c)
      BY <2>2, <3>2 DEF TurnOff
    <3>3. CASE Stop(c)
      BY <2>2, <3>3, RadioElsewhere DEF Stop
    <3>4. CASE RefreshEnded(c)
      BY <2>2, <3>4 DEF RefreshEnded
    <3>5. CASE RunnerEnded(c)
      BY <2>1, <3>5 DEF RunnerEnded
    <3>6. CASE CallDisconnected(c)
      BY <3>6 DEF CallDisconnected, Disconnected, ConnectedIsUsable
    <3> QED BY <2>3, <3>1, <3>2, <3>3, <3>4, <3>5, <3>6 DEF CallStep
  <2>4. ASSUME NEW r \in Runners, RunnerStep(r) PROVE ConnectedIsUsable'
    <3>1. CASE Loop(r) \/ SessionEnds(r) \/ Cancelled(r)
      BY <3>1, RadioElsewhere DEF Loop, SessionEnds, Cancelled
    <3>2. CASE ConnectFails(r)
      BY <3>2, RadioElsewhere DEF ConnectFails
    <3>3. CASE Connect(r)
      BY <3>3 DEF Connect, ConnectedIsUsable
    <3>4. CASE Cleared(r)
      BY <3>4, TakeKeeps, RadioElsewhere DEF Cleared
    <3>5. CASE RunnerDisconnected(r)
      BY <3>5 DEF RunnerDisconnected, Disconnected, ConnectedIsUsable
    <3> QED BY <2>4, <3>1, <3>2, <3>3, <3>4, <3>5 DEF RunnerStep
  <2>5. ASSUME RefreshStep PROVE ConnectedIsUsable'
    <3>1. CASE RefreshConnects
      BY <3>1, HeldLinkAssumption DEF RefreshConnects, ConnectedIsUsable
    <3>2. CASE RefreshCleared
      BY <3>2 DEF RefreshCleared, AskClose, ConnectedIsUsable
    <3>3. CASE RefreshDisconnected
      BY <3>3, RadioElsewhere DEF RefreshDisconnected, Down, ConnectedIsUsable
    <3>4. CASE RefreshWakes \/ RefreshFails \/ RefreshReads \/ RefreshCancelled
      BY <3>4, RadioElsewhere
         DEF RefreshWakes, RefreshFails, RefreshReads, RefreshCancelled
    <3> QED BY <2>5, <3>1, <3>2, <3>3, <3>4 DEF RefreshStep
  <2>6. ASSUME Drop PROVE ConnectedIsUsable'
    BY <2>6 DEF Drop, Down, ConnectedIsUsable
  <2>7. ASSUME UNCHANGED vars PROVE ConnectedIsUsable'
    BY <2>7, RadioElsewhere DEF vars
  <2> QED BY <2>3, <2>4, <2>5, <2>6, <2>7 DEF Next
<1> QED BY <1>1, <1>2, PTL DEF Spec

-----------------------------------------------------------------------------
(* Calls made one after the other. *)

\* A connection of a session that nobody has asked to close is that of _client:
\* only _async_disconnect takes it away, and it asks.
LinkOwned == up \in Runners => client = up \/ closing

\* A CancelledError goes through the `finally` of a session and nowhere else.
DyingEnds == \A r \in Runners : r \in dying => pc[r] \in {"clearing", "disconnecting"}

\* As long as no call has been made while another was under way: one call is under
\* way, one task lives, that of _runner, and a call that turns the link off leaves
\* no task, then no client.
OneAtATime ==
    /\ \A c, d \in Calls : InProgress(c) /\ InProgress(d) => c = d
    /\ \A r \in Runners : Alive(r) => r = runner
    /\ hold => Settled
    /\ ~hold /\ Settled => runner = None /\ client = None
    /\ \A c \in Calls : call[c] = "runner" =>
           /\ awaited[c] = runner /\ runner \in Runners /\ stop
           /\ Alive(runner) => runner \in cancelled \cup dying
    /\ \A c \in Calls : call[c] = "disconnecting" => runner = None /\ client = None

SerialInv == LinkOwned /\ DyingEnds /\ (serial => OneAtATime)

\* _async_disconnect up to its await leaves no connection unowned.
LEMMA TakeOwned ==
    ASSUME LinkOwned, NEW x, TakeClient(x), UNCHANGED up
    PROVE  LinkOwned'
  BY DEF LinkOwned, TakeClient, AskClose

\* Whatever a step does, a connection stays owned.
LEMMA LinkOwnedStep == TypeOK /\ LinkOwned /\ [Next]_vars => LinkOwned'
<1> SUFFICES ASSUME TypeOK, LinkOwned, [Next]_vars PROVE LinkOwned'
  OBVIOUS
<1> USE DEF flags, tasks, radio, callers
<1>1. ASSUME UNCHANGED <<client, up, closing>> PROVE LinkOwned'
  BY <1>1 DEF LinkOwned
<1>2. ASSUME NEW c \in Calls, DisconnectIn(c), UNCHANGED up PROVE LinkOwned'
  BY <1>1, <1>2, TakeOwned DEF DisconnectIn
<1>3. ASSUME NEW c \in Calls, CancelRunner(c), UNCHANGED up PROVE LinkOwned'
  BY <1>1, <1>2, <1>3 DEF CancelRunner
<1>4. ASSUME NEW c \in Calls, TurnOn(c) \/ TurnOff(c) \/ Stop(c) \/ CallStep(c)
      PROVE LinkOwned'
  <2>1. CASE TurnOn(c)
    BY <1>1, <2>1 DEF TurnOn
  <2>2. CASE TurnOff(c)
    BY <1>3, <2>2 DEF TurnOff
  <2>3. CASE Stop(c)
    BY <1>1, <1>3, <2>3 DEF Stop
  <2>4. CASE RefreshEnded(c)
    BY <1>3, <2>4 DEF RefreshEnded
  <2>5. CASE RunnerEnded(c)
    BY <1>2, <2>5 DEF RunnerEnded
  <2>6. CASE CallDisconnected(c)
    BY <2>6, HeldLinkAssumption DEF CallDisconnected, Disconnected, LinkOwned
  <2> QED BY <1>4, <2>1, <2>2, <2>3, <2>4, <2>5, <2>6 DEF CallStep
<1>5. ASSUME NEW r \in Runners, RunnerStep(r) PROVE LinkOwned'
  <2>1. CASE Loop(r) \/ SessionEnds(r) \/ Cancelled(r) \/ ConnectFails(r)
    BY <1>1, <2>1 DEF Loop, SessionEnds, Cancelled, ConnectFails
  <2>2. CASE Connect(r)
    BY <2>2 DEF Connect, LinkOwned
  <2>3. CASE Cleared(r)
    BY <1>1, <2>3, TakeOwned DEF Cleared
  <2>4. CASE RunnerDisconnected(r)
    BY <2>4, HeldLinkAssumption DEF RunnerDisconnected, Disconnected, LinkOwned
  <2> QED BY <1>5, <2>1, <2>2, <2>3, <2>4 DEF RunnerStep
<1>6. ASSUME RefreshStep PROVE LinkOwned'
  BY <1>6, HeldLinkAssumption
     DEF RefreshStep, RefreshWakes, RefreshFails, RefreshConnects, RefreshReads,
         RefreshCleared, RefreshDisconnected, RefreshCancelled, Down, AskClose, LinkOwned
<1>7. ASSUME Drop PROVE LinkOwned'
  BY <1>7, HeldLinkAssumption DEF Drop, Down, LinkOwned
<1>8. ASSUME UNCHANGED vars PROVE LinkOwned'
  BY <1>1, <1>8 DEF vars
<1> QED BY <1>4, <1>5, <1>6, <1>7, <1>8 DEF Next

\* What the steps of other actors leave to a task: its place and its cancellation.
LEMMA CallsSpareTasks ==
    ASSUME TypeOK, Fresh, NEW c \in Calls, TurnOn(c) \/ TurnOff(c) \/ Stop(c) \/ CallStep(c)
    PROVE  /\ UNCHANGED dying
           /\ \A r \in Runners : pc'[r] = pc[r] \/ (pc[r] = "unborn" /\ r \notin dying)
<1> USE DEF flags, tasks, radio, callers
<1>1. CASE TurnOn(c)
  BY <1>1 DEF TurnOn, Goto, TypeOK, Fresh
<1>2. CASE ~TurnOn(c)
  BY <1>2 DEF TurnOff, Stop, CallStep, RefreshEnded, RunnerEnded, CallDisconnected
<1> QED BY <1>1, <1>2

LEMMA DyingStep == TypeOK /\ Fresh /\ DyingEnds /\ [Next]_vars => DyingEnds'
<1> SUFFICES ASSUME TypeOK, Fresh, DyingEnds, [Next]_vars PROVE DyingEnds'
  OBVIOUS
<1> USE DEF flags, tasks, radio, callers
<1>1. ASSUME NEW c \in Calls, TurnOn(c) \/ TurnOff(c) \/ Stop(c) \/ CallStep(c)
      PROVE DyingEnds'
  BY <1>1, CallsSpareTasks DEF DyingEnds
<1>2. ASSUME NEW r \in Runners, RunnerStep(r) PROVE DyingEnds'
  BY <1>2 DEF RunnerStep, Loop, ConnectFails, Connect, SessionEnds, Cleared,
              RunnerDisconnected, Cancelled, AfterSession, Goto, DyingEnds, TypeOK
<1>3. ASSUME RefreshStep PROVE DyingEnds'
  <2>1. UNCHANGED pc /\ \A r \in Runners : r \in dying' <=> r \in dying
    BY <1>3, HeldLinkAssumption
       DEF RefreshStep, RefreshWakes, RefreshFails, RefreshConnects, RefreshReads,
           RefreshCleared, RefreshDisconnected, RefreshCancelled
  <2> QED BY <2>1 DEF DyingEnds
<1>4. ASSUME Drop \/ UNCHANGED vars PROVE DyingEnds'
  BY <1>4 DEF Drop, vars, DyingEnds
<1> QED BY <1>1, <1>2, <1>3, <1>4 DEF Next

\* A call that is alone, and turns the link off, cancels the task or goes on to
\* the disconnection.
LEMMA CancelIsAlone ==
    ASSUME TypeOK, OneAtATime, NEW c \in Calls, CancelRunner(c), hold' = FALSE,
           \A d \in Calls \ {c} : ~InProgress(d),
           UNCHANGED <<runner, pc, dying>>
    PROVE  OneAtATime'
<1>1. \A d \in Calls \ {c} : call'[d] = call[d] /\ call[d] \in {"idle", "done"}
  BY DEF CancelRunner, DisconnectIn, Return, InProgress, TypeOK, CallPC
<1>2. \A r \in Runners : Alive(r)' <=> Alive(r)
  BY DEF Alive
<1>3. CASE runner = None
  <2>1. /\ call'[c] \in {"done", "disconnecting"} /\ client' = None /\ runner' = None
    BY <1>3 DEF CancelRunner, DisconnectIn, Return, TakeClient, TypeOK
  <2> QED BY <1>1, <1>2, <2>1 DEF OneAtATime, InProgress, Settled
<1>4. CASE runner # None
  <2>1. /\ stop' = TRUE /\ awaited'[c] = runner /\ call'[c] = "runner"
        /\ Alive(runner) => runner \in cancelled'
        /\ runner \in Runners
    BY <1>4 DEF CancelRunner, Return, TypeOK
  <2>2. ~(Settled')
    BY <2>1 DEF Settled, InProgress
  <2> QED BY <1>1, <1>2, <2>1, <2>2 DEF OneAtATime, InProgress
<1> QED BY <1>3, <1>4

\* A step of the one task that lives.
LEMMA RunnerIsAlone ==
    ASSUME TypeOK, DyingEnds, OneAtATime, NEW r \in Runners, RunnerStep(r)
    PROVE  OneAtATime'
<1> USE DEF flags, tasks, radio, callers
<1>1. UNCHANGED <<hold, stop, runner, call, awaited>>
  BY DEF RunnerStep, Loop, ConnectFails, Connect, SessionEnds, Cleared,
         RunnerDisconnected, Cancelled
<1>2. Alive(r) /\ \A s \in Runners \ {r} : pc'[s] = pc[s]
  BY DEF RunnerStep, Loop, ConnectFails, Connect, SessionEnds, Cleared,
         RunnerDisconnected, Cancelled, AfterSession, Goto, Alive, TypeOK
<1>3. r = runner /\ runner # None
  BY <1>2, HeldLinkAssumption DEF OneAtATime
<1>4. \A s \in Runners : Alive(s)' => Alive(s)
  BY <1>2 DEF Alive
<1>5. ASSUME r \in cancelled \cup dying PROVE Alive(r)' => r \in cancelled' \cup dying'
  <2>1. CASE r \in cancelled
    BY <2>1 DEF RunnerStep, Loop, ConnectFails, Connect, SessionEnds, Cleared,
                RunnerDisconnected, Cancelled, Goto, Alive, TypeOK
  <2>2. CASE r \in dying /\ r \notin cancelled
    BY <2>2 DEF RunnerStep, Loop, ConnectFails, Connect, SessionEnds, Cleared,
                RunnerDisconnected, Cancelled, AfterSession, Goto, Alive, TypeOK, DyingEnds
  <2> QED BY <1>5, <2>1, <2>2
<1>6. \A c \in Calls : call[c] # "disconnecting"
  BY <1>3 DEF OneAtATime
<1>7. hold \/ ~Settled
  BY <1>3 DEF OneAtATime
<1>8. UNCHANGED Settled /\ \A c \in Calls : InProgress(c)' <=> InProgress(c)
  BY <1>1 DEF Settled, InProgress
<1> QED BY <1>1, <1>2, <1>3, <1>4, <1>5, <1>6, <1>7, <1>8 DEF OneAtATime

LEMMA OneAtATimeStep ==
    TypeOK /\ DyingEnds /\ (serial => OneAtATime) /\ [Next]_vars => (serial' => OneAtATime')
<1> SUFFICES ASSUME TypeOK, DyingEnds, serial => OneAtATime, [Next]_vars, serial'
             PROVE  OneAtATime'
  OBVIOUS
<1> USE DEF flags, tasks, radio, callers
<1>1. ASSUME UNCHANGED <<hold, stop, runner, pc, client, call, awaited, serial>>,
             \A r \in Runners : r \in cancelled' \cup dying' <=> r \in cancelled \cup dying
      PROVE OneAtATime'
  <2>1. UNCHANGED Settled /\ \A c \in Calls : InProgress(c)' <=> InProgress(c)
    BY <1>1 DEF Settled, InProgress
  <2>2. \A r \in Runners : Alive(r)' <=> Alive(r)
    BY <1>1 DEF Alive
  <2> QED BY <1>1, <2>1, <2>2 DEF OneAtATime
<1>2. ASSUME NEW c \in Calls, MayCall(c)
      PROVE  OneAtATime /\ Settled /\ \A d \in Calls : ~InProgress(d)
  BY <1>2 DEF MayCall, Settled
<1>3. ASSUME NEW c \in Calls, TurnOn(c) PROVE OneAtATime'
  <2>1. OneAtATime /\ Settled /\ ~hold /\ runner = None /\ client = None
    BY <1>2, <1>3 DEF TurnOn, OneAtATime
  <2>2. \A r \in Runners : ~Alive(r)
    BY <2>1, HeldLinkAssumption DEF OneAtATime
  <2>3. PICK r \in Runners : runner' = r /\ pc' = [pc EXCEPT ![r] = "ready"]
    BY <1>3 DEF TurnOn, Goto
  <2>4. \A s \in Runners : Alive(s)' => s = r
    BY <2>2, <2>3 DEF Alive, TypeOK
  <2>5. \A d \in Calls : call'[d] \in {"idle", "done"}
    BY <1>3, <2>1 DEF TurnOn, Return, TypeOK, Settled, InProgress
  <2>6. hold' = TRUE
    BY <1>3 DEF TurnOn
  <2> QED BY <2>3, <2>4, <2>5, <2>6 DEF OneAtATime, InProgress, Settled
<1>4. ASSUME NEW c \in Calls, TurnOff(c) PROVE OneAtATime'
  BY <1>2, <1>4, CancelIsAlone DEF TurnOff
<1>5. ASSUME NEW c \in Calls, Stop(c) PROVE OneAtATime'
  <2>1. OneAtATime /\ \A d \in Calls : ~InProgress(d)
    BY <1>2, <1>5 DEF Stop
  <2>2. CASE Refreshing
    <3>1. /\ hold' = FALSE /\ UNCHANGED <<runner, pc, client, awaited, dying, stop>>
          /\ call' = [call EXCEPT ![c] = "refresh"]
      BY <1>5, <2>2 DEF Stop, Return
    <3>2. \A d \in Calls : d # c => call'[d] \in {"idle", "done"}
      BY <2>1, <3>1 DEF InProgress, TypeOK
    <3>3. call'[c] = "refresh"
      BY <3>1 DEF TypeOK
    <3>4. \A r \in Runners : Alive(r)' <=> Alive(r)
      BY <3>1 DEF Alive
    <3> QED BY <2>1, <3>1, <3>2, <3>3, <3>4 DEF OneAtATime, InProgress, Settled
  <2>3. CASE ~Refreshing
    BY <1>5, <2>1, <2>3, CancelIsAlone DEF Stop
  <2> QED BY <2>2, <2>3
<1>6. ASSUME NEW c \in Calls, CallStep(c) PROVE OneAtATime'
  <2>1. UNCHANGED <<serial, hold>> /\ InProgress(c)
    BY <1>6 DEF CallStep, RefreshEnded, RunnerEnded, CallDisconnected, InProgress
  <2>2. OneAtATime /\ ~hold /\ \A d \in Calls \ {c} : ~InProgress(d)
    BY <2>1 DEF OneAtATime, Settled
  <2>3. hold' = FALSE
    BY <2>1, <2>2 DEF TypeOK
  <2>4. CASE RefreshEnded(c)
    BY <2>2, <2>3, <2>4, CancelIsAlone DEF RefreshEnded
  <2>5. ASSUME runner' = None, client' = None, call'[c] \in {"done", "disconnecting"},
               \A d \in Calls \ {c} : call'[d] = call[d], \A r \in Runners : ~Alive(r)'
        PROVE  OneAtATime'
    BY <2>2, <2>3, <2>5 DEF OneAtATime, InProgress, Settled
  <2>6. CASE RunnerEnded(c)
    <3>1. awaited[c] = runner /\ ~Alive(runner) /\ UNCHANGED pc
      BY <2>2, <2>6 DEF RunnerEnded, OneAtATime, Alive
    <3>2. \A r \in Runners : ~Alive(r)'
      BY <2>2, <3>1 DEF OneAtATime, Alive
    <3>3. /\ runner' = None /\ client' = None /\ call'[c] \in {"done", "disconnecting"}
          /\ \A d \in Calls \ {c} : call'[d] = call[d]
      BY <2>6 DEF RunnerEnded, DisconnectIn, TakeClient, Return, TypeOK
    <3> QED BY <2>5, <3>2, <3>3
  <2>7. CASE CallDisconnected(c)
    <3>1. runner = None /\ client = None /\ UNCHANGED <<runner, client, pc>>
      BY <2>2, <2>7 DEF CallDisconnected, OneAtATime
    <3>2. \A r \in Runners : ~Alive(r)'
      BY <2>2, <3>1, HeldLinkAssumption DEF OneAtATime, Alive
    <3>3. call'[c] = "done" /\ \A d \in Calls \ {c} : call'[d] = call[d]
      BY <2>7 DEF CallDisconnected, Return, TypeOK
    <3> QED BY <2>5, <3>1, <3>2, <3>3
  <2> QED BY <1>6, <2>4, <2>6, <2>7 DEF CallStep
<1>7. ASSUME NEW r \in Runners, RunnerStep(r) PROVE OneAtATime'
  <2>1. UNCHANGED serial
    BY <1>7 DEF RunnerStep, Loop, ConnectFails, Connect, SessionEnds, Cleared,
                RunnerDisconnected, Cancelled
  <2> QED BY <1>7, <2>1, RunnerIsAlone
<1>8. ASSUME RefreshStep PROVE OneAtATime'
  <2>1. \A r \in Runners : r \in cancelled' \cup dying' <=> r \in cancelled \cup dying
    BY <1>8, HeldLinkAssumption
       DEF RefreshStep, RefreshWakes, RefreshFails, RefreshConnects, RefreshReads,
           RefreshCleared, RefreshDisconnected, RefreshCancelled
  <2>2. UNCHANGED <<hold, stop, runner, pc, client, call, awaited, serial>>
    BY <1>8 DEF RefreshStep, RefreshWakes, RefreshFails, RefreshConnects, RefreshReads,
                RefreshCleared, RefreshDisconnected, RefreshCancelled
  <2> QED BY <1>1, <2>1, <2>2
<1>9. ASSUME Drop \/ UNCHANGED vars PROVE OneAtATime'
  BY <1>1, <1>9 DEF Drop, vars
<1> QED BY <1>3, <1>4, <1>5, <1>6, <1>7, <1>8, <1>9 DEF Next

\* A connection that a session holds is shown: only the task that holds it, and
\* calls that have ended it first, show a disconnection.
LEMMA ShownStep ==
    /\ TypeOK /\ (serial => OneAtATime) /\ LinkIsShown /\ [Next]_vars
    => LinkIsShown'
<1> SUFFICES ASSUME TypeOK, serial => OneAtATime, LinkIsShown, [Next]_vars, serial'
             PROVE  SessionIsShown'
  BY DEF LinkIsShown
<1> USE DEF flags, tasks, radio, callers
<1>1. serial
  BY DEF Next, TurnOn, TurnOff, Stop, MayCall, CallStep, RefreshEnded, RunnerEnded,
         CallDisconnected, RunnerStep, Loop, ConnectFails, Connect, SessionEnds, Cleared,
         RunnerDisconnected, Cancelled, RefreshStep, RefreshWakes, RefreshFails,
         RefreshConnects, RefreshReads, RefreshCleared, RefreshDisconnected,
         RefreshCancelled, Drop, vars
<1>2. SessionIsShown /\ OneAtATime
  BY <1>1 DEF LinkIsShown
<1>3. ASSUME UNCHANGED connected, up' = up \/ up' \notin Runners,
             \A r \in Runners : pc'[r] = "session" => pc[r] = "session"
      PROVE  SessionIsShown'
  BY <1>2, <1>3 DEF SessionIsShown
<1>4. ASSUME \A r \in Runners : pc'[r] # "session"
      PROVE  SessionIsShown'
  BY <1>4 DEF SessionIsShown
<1>5. ASSUME NEW c \in Calls, TurnOn(c) PROVE SessionIsShown'
  BY <1>3, <1>5 DEF TurnOn, Goto, TypeOK
<1>6. ASSUME NEW c \in Calls, TurnOff(c) \/ Stop(c) \/ RefreshEnded(c) \/ RunnerEnded(c)
      PROVE SessionIsShown'
  BY <1>3, <1>6 DEF TurnOff, Stop, RefreshEnded, RunnerEnded
<1>7. ASSUME NEW c \in Calls, CallDisconnected(c) PROVE SessionIsShown'
  <2>1. \A r \in Runners : ~Alive(r)
    BY <1>2, <1>7, HeldLinkAssumption DEF CallDisconnected, OneAtATime
  <2> QED BY <1>4, <1>7, <2>1 DEF CallDisconnected, Alive
<1>8. ASSUME NEW r \in Runners, RunnerStep(r) PROVE SessionIsShown'
  <2>1. CASE Loop(r) \/ SessionEnds(r) \/ Cancelled(r)
    BY <1>3, <2>1 DEF Loop, SessionEnds, Cancelled, Goto, TypeOK
  <2>2. CASE Connect(r)
    BY <2>2 DEF Connect, SessionIsShown
  <2>3. CASE ConnectFails(r) \/ Cleared(r) \/ RunnerDisconnected(r)
    <3>1. Alive(r) /\ pc'[r] # "session" /\ \A s \in Runners \ {r} : pc'[s] = pc[s]
      BY <2>3 DEF ConnectFails, Cleared, RunnerDisconnected, AfterSession, Goto, Alive, TypeOK
    <3>2. \A s \in Runners \ {r} : ~Alive(s)
      BY <1>2, <3>1 DEF OneAtATime
    <3> QED BY <1>4, <3>1, <3>2 DEF Alive
  <2> QED BY <1>8, <2>1, <2>2, <2>3 DEF RunnerStep
<1>9. ASSUME RefreshStep PROVE SessionIsShown'
  <2>1. UNCHANGED pc
    BY <1>9 DEF RefreshStep, RefreshWakes, RefreshFails, RefreshConnects, RefreshReads,
                RefreshCleared, RefreshDisconnected, RefreshCancelled
  <2>2. (UNCHANGED connected /\ (up' = up \/ up' \notin Runners)) \/ up' = None
    BY <1>9, HeldLinkAssumption
       DEF RefreshStep, RefreshWakes, RefreshFails, RefreshConnects, RefreshReads,
           RefreshCleared, RefreshDisconnected, RefreshCancelled, Down
  <2> QED BY <1>3, <2>1, <2>2, HeldLinkAssumption DEF SessionIsShown
<1>10. ASSUME Drop PROVE SessionIsShown'
  BY <1>10, HeldLinkAssumption DEF Drop, Down, SessionIsShown
<1>11. ASSUME UNCHANGED vars PROVE SessionIsShown'
  BY <1>3, <1>11 DEF vars
<1> QED BY <1>5, <1>6, <1>7, <1>8, <1>9, <1>10, <1>11 DEF Next, CallStep

LEMMA SerialInvHolds == Spec => [](TypeOK /\ SerialInv /\ LinkIsShown)
<1>1. Init => SerialInv /\ LinkIsShown
  BY HeldLinkAssumption
     DEF Init, SerialInv, LinkOwned, DyingEnds, OneAtATime, InProgress, Alive, Settled,
         LinkIsShown, SessionIsShown
<1>2. /\ TypeOK /\ ServedInv /\ SerialInv /\ LinkIsShown /\ [Next]_vars
      => (SerialInv /\ LinkIsShown)'
  BY LinkOwnedStep, DyingStep, OneAtATimeStep, ShownStep DEF SerialInv, ServedInv
<1> QED BY <1>1, <1>2, TypeCorrect, ServedInvHolds, PTL DEF Spec

\* As long as calls are made one after the other, one task at most may connect:
\* _async_cancel_runner awaits the end of the former before another is created.
THEOREM OneHolderHolds == Spec => []OneHolder
<1>1. SerialInv => OneHolder
  BY DEF SerialInv, OneAtATime, OneHolder, Served
<1> QED BY <1>1, SerialInvHolds, PTL

\* As long as calls are made one after the other, a switch that is off and at rest
\* leaves no task, no client, and no connection that nobody closes (switch.py,
\* async_set_hold, async_stop).
THEOREM OffIsOffHolds == Spec => []OffIsOff
<1>1. TypeOK /\ SerialInv => OffIsOff
  <2> SUFFICES ASSUME TypeOK, SerialInv, serial, ~hold, Settled
               PROVE  /\ \A r \in Runners : ~Alive(r)
                      /\ up \in Runners => closing
                      /\ client = None
    BY DEF OffIsOff, OffAtRest
  <2>1. OneAtATime /\ runner = None /\ client = None
    BY DEF SerialInv, OneAtATime
  <2> QED BY <2>1, HeldLinkAssumption DEF SerialInv, LinkOwned, OneAtATime
<1> QED BY <1>1, SerialInvHolds, PTL

\* As long as calls are made one after the other, the state shown is that of the
\* session: the late end of a task or of a call does not hide its connection
\* (binary_sensor.py, _set_disconnected).
THEOREM LinkIsShownHolds == Spec => []LinkIsShown
  BY SerialInvHolds, PTL

\* As long as calls are made one after the other, no step establishes the link
\* while the switch is off, but for the time async_stop awaits the end of a refresh
\* before it ends the task.
THEOREM LinkOnlyWhileHeldHolds == Spec => LinkOnlyWhileHeld
<1>1. /\ TypeOK /\ SerialInv /\ [Next]_vars
      => [up' \in Runners /\ up' # up =>
              hold \/ ~serial \/ \E c \in Calls : call[c] = "refresh"]_vars
  <2> SUFFICES ASSUME TypeOK, SerialInv, Next, up' \in Runners, up' # up, ~hold, serial
               PROVE  \E c \in Calls : call[c] = "refresh"
    BY DEF vars
  <2> USE DEF flags, tasks, radio, callers
  <2>1. PICK r \in Runners : Connect(r)
    BY HeldLinkAssumption
       DEF Next, TurnOn, TurnOff, Stop, CallStep, RefreshEnded, RunnerEnded,
           CallDisconnected, Disconnected, RunnerStep, Loop, ConnectFails, SessionEnds,
           Cleared, RunnerDisconnected, Cancelled, RefreshStep, RefreshWakes,
           RefreshFails, RefreshConnects, RefreshReads, RefreshCleared,
           RefreshDisconnected, RefreshCancelled, Drop, Down
  <2>2. pc[r] = "connecting" /\ r \notin cancelled /\ Alive(r)
    BY <2>1 DEF Connect, Alive
  <2>3. OneAtATime /\ r \notin dying
    BY <2>2 DEF SerialInv, DyingEnds
  <2>4. r = runner /\ runner # None
    BY <2>2, <2>3, HeldLinkAssumption DEF OneAtATime
  <2>5. PICK c \in Calls : InProgress(c)
    BY <2>3, <2>4 DEF OneAtATime, Settled
  <2>6. call[c] # "runner" /\ call[c] # "disconnecting"
    BY <2>2, <2>3, <2>4 DEF OneAtATime
  <2> QED BY <2>5, <2>6 DEF InProgress, TypeOK, CallPC
<1> QED BY <1>1, SerialInvHolds, PTL DEF Spec, LinkOnlyWhileHeld
=============================================================================
