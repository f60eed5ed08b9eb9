# Verification of the Boks integration

The repository is a Home Assistant integration (`src/custom_components/boks/`,
Python, asyncio) for a Boks mailbox: a box with an electric lock, a battery, a log
of its openings and one BLE connection.  This directory holds TLA+ models of it,
the TLC configurations that check them and the proofs of the main theorems, to be
checked with `tlc -config X.cfg M` and `tlapm M.tla`.  `PROJECT.json` lists the
runs, the code lines behind each definition, the hazards, the findings and the
theorems.  Paths below are under `src/custom_components/boks/`.

## 1. Inventory

Everything runs on Home Assistant's event loop: a function that is not `async`, or
the code between two `await`s, is atomic.  The concurrency is that of coroutines
cut at their awaits, of callbacks (BLE notifications, sensor reports, timers), of
the mailbox, which answers when it likes, and of restarts.

| Component | State | Operations | Hard behaviours | What makes it correct |
|---|---|---|---|---|
| Battery level (`coordinator.py` 223-305, `entity.py`, `switch.py` 119-132) | level, plateau, pending sag, kind of cells; the restored entities | reading, declaration of the kind of cells, restart, two restores in any order | sags that look like a flat battery; a restore between two readings | at most one reading is held back; a sustained fall is reported; the plateau is never below the level |
| Mail and door events (`mail_logic.py`, `sensors_link.py`) | last states of two sensors, openings that wait, commands, timers, dates | sensor reports, command, tick, read of the log, reload | deadlines meeting at their bounds, late timers, eviction at `MAX_PENDING`, unavailable sensors | no false alarm, no missed one, a deposit is a full cycle |
| Opening history (`coordinator.py` 912-1021, `protocol.py` 61-87) | collected entries, end mark, date of the last opening | read, streamed entries, end mark | a read consumes the log; it may be cut or stop early; a reader whose link dropped wakes up in the read of the other task | no opening is lost between log, command and alarm |
| Opening the door (`coordinator.py` 418-527) | lock, future of the answer, code read | press, on the held link or in a session of its own | presses overlap; answers late or lost; the link drops anywhere; crash | a success is an opening; an unspent code is kept, a retired one is gone |
| One-time codes (`otp_store.py`, `config_flow.py` 351-366) | list in memory of each `OtpPool`, the Store | load, peek, add, commit | two `OtpPool` objects save the whole list to one Store; crash before the write | nothing unspent is lost, nothing is stored twice |
| Held link and refresh (`coordinator.py` 310-416, 745-886, 1041-1060) | switch, events, task, client, shown state | turn on, turn off, stop, connect, drop, refresh | overlapping calls, cancellation at any await | on is served, off is off, what is shown is true |
| Badges and VIGIK (`coordinator.py` 529-743, `switch.py` 135-172) | lock, future, VIGIK switch | enrol, revoke, set VIGIK | the mailbox goes on scanning; answers late, refused or absent | a reported result is the state of the mailbox |
| Reboot (`coordinator.py` 583-628, `button.py`) | time of the last reboot | one debounced write, which takes no lock | the mailbox restarts in the middle of an operation | what an operation then reports is still true |
| Set-up, unload (`__init__.py`) | version, options, where the entry is, what the link is built from | migration, set-up with its awaits, failures, update listener, reload, unload | the options are read at three points of set-up, and the listener is registered last | a link at rest is built from the options; the migration keeps the code |
| Options flow (`config_flow.py`) | the screens answered so far | first screen, code, one-time codes, sensors | two flows at once, a screen checked against what has changed since | what is saved holds together |
| Secrets (`secret.py`) | none | read `secrets.yaml` | it is edited between two reads | a reference resolves to what it names, or to nothing |
| Entities (`sensor.py`, `binary_sensor.py`, `entity.py`, ...) | what each shows and what is persisted of it | restore, notification, dump, reload | restores in any order among sessions; "unavailable" persisted over a value | what is shown is what the link has; no value goes back; dates survive |
| Protocol frames (`protocol.py`) | none | encode, decode | - | only the age of an entry is modelled |
| Signal strength (`coordinator.py` 774-782) | one number | store it, notify | - | what it does to the entities |

How they interact.  `async_setup_entry` builds one `BoksLink` with its
`OtpPool`, starts it, and gives it a `BoksSensorTracker` when sensors are
configured.  `BoksLink` owns the only connection: the task behind the switch holds
it in `_client`, a refresh or a command opens its own session when `_client` is
not connected.  `_on_app_notify` is shared by all: it settles the future of a press
(129, 130), that of an administration call, or feeds the collector of the log.
`async_open_door` calls `on_ha_open` of the tracker, and the read of the log calls
`on_history`; both end in `MailLogic`.  The options flow writes to the Store
behind the running pool, and its end reloads the entry if an option has changed:
`async_update_entry` calls the listener that set-up registers last.  The entities
write their state when `_notify_listeners` tells them, and Home Assistant persists
it: a restored entity puts its last value back in the `BoksState` all share.

## 2. Modules

| Module | Models | Composes |
|---|---|---|
| `Battery` | the filter, the plateau, the alert, restart and restores | |
| `MailTracker` | `MailLogic` driven by `BoksSensorTracker`, modes `off` and `ha_command` | |
| `MailJournal` | mode `journal`: the log of the mailbox, `_async_read_history`, `on_journal` | extends `MailTracker` |
| `OtpLedger` | abstract: what a pool of one-time codes promises | |
| `OpenDoor` | `async_open_door`, its session, the pool, the held link, crashes | implements `OtpLedger` |
| `OtpStore` | the Store and all who write it: links, options flow, reloads, restarts | |
| `HeldLink` | the switch, the two tasks, `async_stop`, cancellation | |
| `NfcAdmin` | enrolment, revocation, VIGIK, the mailbox's scan, the reboot | |
| `Entities` | what restored entities show, restore and persist | |
| `Entry` | migration, set-up, reload, options flows, `secrets.yaml`, the entities a link gets | |
| `BatteryProofs`, `MailTrackerProofs`, `OpenDoorProofs`, `OtpStoreProofs`, `HeldLinkProofs`, `NfcAdminProofs`, `EntitiesProofs`, `EntryProofs` | the theorems | extend the module they prove about (`MailTrackerProofs`: `MailJournal`, and `MailTracker` through it) |
| `MC*` | values for TLC | extend the module they instantiate |

### How the state and actions correspond to the code

*Battery.*  `battery`, `plateau`, `sagging`, `rechargeable` are the fields of the
same names.  `Read(level)` is the whole of `_set_battery`: `_accept_battery`, then
the plateau and the level, for either kind of cells.  `saved` is what Home Assistant
has persisted, written by `Checkpoint` at any time, and `unrestored` the entities
still to be restored after `Restart`.  `last`, `prev`, `packMax` are history.

*MailTracker.*  `door`, `flap`, `flapOpen`, `pending`, `haOpens` are the fields of
`MailLogic`; `timers` the deadlines armed by `async_call_later`.  `Door` is
`_on_change` for the door: edge, eviction, timer, `on_door`, publication.  An
instant stands for a `datetime`, so the lists are sets of instants.  `Advance`
moves the clock, never past a timer that is due by more than `Late`.

*MailJournal.*  `log` is the mailbox's and a `Stream` step moves an entry to
`events`, with its age; `StartRead`, `EndHistory`, `FinishRead` and `CutRead` are
the read, and `FinishRead` runs the whole of what follows it, `on_journal`
included.  A read that ends on its bounds is `FinishRead` with `done` false
(fault `truncated`); an exception is `CutRead`.  The fields are those of the link, not
of a read: `collects`, `events` and `done` are `_history` and `_history_done`.
`ReadOver` is the read of the other task, begun while the reader of a link that has
dropped still waits for an entry; `Wake` is that reader, which hands over or drops
what it finds, and `ListIsGone` the other one's surprise.

*OpenDoor.*  One value of `pc[p]` for each await of a press.  `Press` reads the code,
before the lock as the code does, and `Begin` makes the future; `Acquire` is the fair
hand-over of the lock.  `air` holds the answers sent and not received, in order;
`Deliver` gives the first to the future in place, whoever created it.  `usable` is
what the mailbox still accepts.  `Resume` is what a press runs when its answer is
there, `Save` the write of the Store.  `failing` are presses whose temporary session
is being closed by an exception, `finally` included.

*OtpStore.*  `pools[l]` is the list of the link `l`, `draft` that of the options
flow, `disk` the Store.  A press is reduced to what it does to them: `Peek`,
`Fails`, `Commit` (the removal in memory) and `CommitSaved` (the write).  The steps
between them are those of `OpenDoor`, and so are the presses that wait for the
lock of one link: here a link serves one press at a time.  `FormLoads`,
`FormAdds`, `FormSaved` are `async_load` and the two halves of `async_add`.

*HeldLink.*  `pc[r]` is where each task of `_async_run` is, `call[c]` each call of
`async_set_hold` and `async_stop`; `cancelled` and `dying` are the two stages of a
cancellation: asked for, and going through the `finally` blocks.  `client` names
the task whose connection is in `_client`, `up` the client the mailbox is connected
to, `connected` is `BoksState.connected`.

*NfcAdmin.*  `answer` is `_nfc_result`, `command` what each call sends (an
enrolment sends two, `scan` then `register`), `lost` the calls that hold the
client of a held link that has been cut.  `Timeout` is an operation's
`TimeoutError`: the three callers do different things with it.  `Reboot`, `Restarts`
and `RebootEnds` are `async_reboot`: it shares the connection but not the lock, and
the restart empties `scanning`, the answers in the air and the link of the call
under way.

*Entities.*  `state` is `BoksState`, and the value of an attribute is the instant it
was obtained at, so that older and newer can be told apart.  `shown` is what each
entity has written, `saved` what Home Assistant has persisted of it, `added` the
entities that have subscribed.  `Gated` attributes are available as
`BoksEntity.available` says, `Dated` ones when they are known.  `Connect` is what
`_async_session` does before it tells the entities (`Announce`), `BriefConnect` the
session of a refresh or a command, which tells them at once.  `Reload` is an orderly
stop or a reload, where the last states are persisted, and may come before all the
entities are back; `Crash` loses what was written
since the last `Dump`.

*Entry.*  `pc` is where the entry is: set-up stands at the code, the key or the
platforms, its three awaits.  `link`, `code`, `key` and `loaded` are what the
`BoksLink` is built from, each read at the step that reads it in the code.
`reloads` counts the reloads Home Assistant has been asked for.  `step[f]` and
`pending[f]` are the screen of a flow and its `_pending`; `Save` is
`async_update_entry`, for which equal options are no change.  `LoopIsFree` keeps flows
out of a set-up that does not leave the event loop.  `Entities` is the union of what
the platforms create.

## 3. Assumptions

- The mailbox accepts one connection.  Answers come in the order they were sent.
- The pool a link starts with holds no code twice: `async_add` sees to it (`NoCodeTwice` of `OtpStore`).
- A write that has raised an error may have been carried out before it, never
  after it.  A notification may be late, or lost with the link.
- `asyncio.Lock` is fair; a background task starts after its creator's step.
- A disconnection that raises leaves the link released: the code catches
  the error and goes on as after any other (`coordinator.py:1058`,
  `HeldLink.Disconnected`).
- A write of the Store succeeds: the code has no path for one that fails
  (`otp_store.py:82` and `103`, `OpenDoor.Save`, the saves of `OtpStore`).
- A command is taken by `MailTracker` at the instant of its stamp.  The code stamps it
  after the answer, so an answer later than the window leaves its own opening without
  a command; no property says otherwise.
- What BLE scanning, `bleak` and Home Assistant do is taken from how the code uses
  them (`external` in the map).
- In OTP mode `BoksLink.open_code` is `None`, so `button.py:31` creates no button
  and nothing calls `async_open_door` (the run `no_open_button` shows it).
  `OpenDoor` and `OtpStore` state the contract of that method for any caller, which
  is how its docstring and
  `translations/en.json:49` ("Whatever the mode, filling this in adds an Open
  button") describe it.

## 4. Runs

Passing runs.  All are exhaustive over the instance.

| Run | Shows | Bounds, and why they are enough |
|---|---|---|
| `battery` | the filter hides a level for one reading at most and confirms sharp drops; the plateau survives restores in any order | the levels on both sides of each threshold; restarts unbounded |
| `mail_tracker` | no false alarm and none missed with late timers, evictions, reloads; every opening is settled; a deposit is a full cycle of the flap | both sensors, a window of one instant, timers one late, inputs at 3 instants and time beyond: reports fall before, at and after every bound, and after a verdict; `MaxPending = 2` is exceeded |
| `mail_journal` | reads cut, truncated or overlapping lose no opening, recognise what they deliver, keep the newest date | the door alone, a window of 2 instants, reads one instant long, inputs at 3 instants, three entries and commands in all (`MaxOpens`), one more than the lists keep; two readers: the two tasks that read |
| `open_door` | a success is an opening, no unspent code is lost, none retired comes back, every press ends; `OpenDoor` implements `OtpLedger` | three presses: one inside the lock, one waiting, one late; two codes, one of which may be spent or mistyped; a crash |
| `otp_store` | in any overlap no unspent code of the start is lost, and none is stored twice | three links, so that a press outlives the link it serves; two codes and two entries, one of which repeats a code |
| `hold` | however calls overlap, on is served, a lost link comes back, shown means usable, off releases the mailbox in the end; as long as calls have been made one after the other (`serial`), off is off, one task holds the link, its link is shown | four calls, on and off twice or a stop at any point, a task for each time on, refreshes |
| `nfc_admin` | a badge reported as enrolled is in, one reported as revoked is out; every call ends, reboots included | two calls of any of the four kinds, so that a late answer to one meets any other; two badges; reboots unbounded |
| `entities` | an entity shows what the link has, no attribute goes back, dates survive reloads and stops, what is known is shown in the end | two attributes that become unavailable, one that does not and the last connection; three instants: a value, a newer one and the connection between; reloads, dumps and crashes unbounded |
| `entry` | what is saved holds together, a link that judges from the log reads it, a link at rest is built from the options, the migration keeps the code, a reload asked for takes effect | two flows, each of the four modes, a reference that is good, bad or absent; two changes (saves, edits, reloads, restarts): one to race with set-up and one to race with the reload it causes |

Types are proved for nine of the modules (section 6), for every value of the
constants, so the runs do not spend a property on them, nor on `OneFuture`,
`OneOperation`, `OneYes`, `WaiterIsInLine` and `PlateauNeverFalls`; `MailJournal` has its type
invariant checked too.

`CHECK_DEADLOCK FALSE` is set where the model stops when its bounded inputs
(instants, links, calls) are used up.  The deadlock check is on in `Battery`, `Entities`,
`Entry` and `OpenDoor`, where something may always move.

Runs that find a violation.  Each checks one sentence of the repository against
what the code does; `PROJECT.json` quotes the sentence and the lines.

| Run | The sentence that does not hold, and the trace |
|---|---|
| `never_deaf` | notifications are on before the command is written: a press uses a held link between its connection and `start_notify` |
| `added_are_kept` | a code leaves the pool only once used: the running link overwrites the codes just added |
| `no_open_button` | whatever the mode, an Open button is added: in OTP mode the link has no code, and the button is created for one only |

Other sentences the code does not keep, each stated as a formula of its module with
a configuration that shows the trace.  Several are the part of a hazard that the
properties of the passing runs leave out; the `note` of the hazard says so.

| Configuration, module | The sentence, and the trace |
|---|---|
| `AnswersAreOwn.cfg`, `MCOpenDoor` | presses do not steal each other's answer (`coordinator.py:167`): one that has timed out leaves its answer to the next |
| `ConfirmedIsReported.cfg`, `MCOpenDoor` | an error is raised only if the code is refused or the mailbox silent (`coordinator.py:439`): the session fails to close after the confirmation |
| `OneWastedPress.cfg`, `MCOpenDoor` | a lost confirmation costs one wasted press (`TODO.md:281`): the spent code stays at the head, every later press is refused |
| `RetiredIsNotSent.cfg`, `MCOpenDoor` | a code is replayed only if its confirmation was lost (`otp_store.py:14`): a press waiting for the lock has already read the code |
| `RetiredStaysOut.cfg`, `MCOtpStore` | a confirmed code is removed for good (`otp_store.py:90`): a form loaded before saves it back |
| `JournalRace.cfg`, `MCMailJournal` | an opening with an entry within the window is legitimate (`README.md:224`): the entry was drained by the read before |
| `OffOverlap.cfg`, `MCHeldLink` | off means no connection (`switch.py:41`): `_async_cancel_runner` forgets a task started while it waited |
| `SavingReloads.cfg`, `MCEntry` | saving the form reloads the entry (`config_flow.py:161`): a save during set-up finds no listener, and the link keeps the old options |
| `PoolIsServed.cfg`, `MCEntry` | the codes typed are served: codes alone change no option, so nothing is reloaded |
| `ButtonWorks.cfg`, `MCEntry` | no button rather than one that would fail (`button.py:6`): set-up takes any text of `secrets.yaml` for a code |
| `LastKnownSurvives.cfg`, `MCEntities` | the last known state is restored (`binary_sensor.py:51`): an entity reloaded while unavailable persists "unavailable" over it |
| `AgeIsHonest.cfg`, `MCEntities` | the last connection dates the values shown (`sensor.py:126`): a session renews it before any value is read |
| `BatteryRestart.cfg`, `MCBattery` | the plateau is the highest level of the pack (`coordinator.py:105`): a restart forgets it |
| `JournalTruncated.cfg`, `MCMailJournal` | a read covers everything up to now (`mail_logic.py:113`): one that stops on its bounds does not |
| `HoldHidden.cfg`, `MCHeldLink` | the link sensor shows the link (`binary_sensor.py:76`): an orphan task hides the connection of the other |
| `StopCuts.cfg`, `MCHeldLink` | the link is stopped cleanly (`coordinator.py:756`): a refresh cancelled in `clear_cache` is not disconnected |
| `NfcRefused.cfg`, `MCNfcAdmin` | a refused command does not move the switch (`switch.py:141`): a late refusal is silence, and silence is success |
| `NfcStaleBadge.cfg`, `MCNfcAdmin` | scan, then presentation, then registration (`coordinator.py:632`): the answer of a scan given up serves the next enrolment |

## 5. Fairness

Weak fairness of every step of a call: each await of the code has a timeout or ends
with the link, so a call never stands for ever at one.  Weak fairness of `Acquire`
in `OpenDoor`, where the queue is modelled, and strong fairness for each call in
`NfcAdmin`, where it is not: the lock goes to its first waiter.  Time advances and
timers run in `MailTracker`, each at most `Late` after its deadline.  In `HeldLink`
a mailbox that can be reached again and again is reached by one of the attempts
(strong fairness of `Connect`); a session need not end by itself, and no user action
or drop of the link is ever assumed, but the end of a disconnection asked for.
In `Entry` the awaits of set-up and unload end, and Home Assistant tries again a
set-up that was not ready and does the reloads it was asked for; strong fairness of
`StartLink` says that `async_start` does not fail for ever.  No flow, edit or restart is
assumed.  In `Entities` every entity of the platform is added in the end, and the
mailbox is heard now and then, which is what `_async_on_advertisement` is registered for;
no session is assumed.  `KnownIsShown` needs the latter, as restoring `last_connected`
tells no entity that it has become available.

## 6. Proofs

The theorems hold for every value of the constants that satisfies the named
assumptions of the modules, so for any number of presses, codes, links, calls,
tasks, crashes, levels, thresholds and bounds.

- `BatteryProofs`: the four properties of the run, `TypeOK` and `PlateauNeverFalls`.  The invariant adds that a
  pending sag is a sharp drop below the published level (`PendingIsDrop`) and that
  before the first reading nothing waits (`NoReadingYet`); without them a published
  drop might be confirmed by no reading at all.  The two action properties follow
  from it in one step.
- `MailTrackerProofs`: `TypeOK`, `NoFalseAlarm`, `PendingHasTimer`, `NoMissedAlarm`.  The
  invariant adds that commands stay listed unless forgotten, that what is reported
  has had its window elapse, so no later command can justify it, that no timer is
  later than `Late`, and that every opening waits, is reported, is near a command or
  is forgotten.  `DepositIsFullCycle` comes from an invariant of its own (`FlapCycle`):
  `_flap_opened_at` is set exactly when the last two states of the flap are closed then
  open, and no deposit is dated later than now, so a new one is published.

  About `MailJournal`, in the same module: `JTypeOK`, `JournalNoMissedAlarm`,
  `JournalMatchesOwnRead`, `OpenDateTracksNewest`.  An entry is dated by its age when the
  read ends, late by the time since it was streamed.  The invariant (`JInv`) says what
  bounds that time, also after a second reader has taken the fields over: every entry
  collected was streamed since the first request of the read under way
  (`EntriesAreOwn`), which is `ReadMax` ago at most (`ReadIsTimely`).  One lemma then
  bounds the date of any entry (`DatedNearEntry`), another how far a distance may move
  with it (`DistanceSlack`), and a third says that nothing but the end of a read reports
  an opening or moves the date (`OnlyReadsJudge`).  `HasNewest` is an invariant because
  the existence of a greatest element is an induction over data.
- `OpenDoorProofs`: `TypeOK` and `OneFuture`, which need each other: the pool stays a
  list of codes because only the press inside the lock, whose code came from the
  pool, retires one, and the future is typed by who owns the lock.

  `SuccessIsEarned` is a count: the presses that have been told of an opening, with the
  positive answer in the future, and those in the air, are as many as the mailbox has
  carried out at most (`Earned`), because a press sends once (`SentOnce`) and an answer
  leaves the air when it is used.  It does not say that the press told is the press
  that opened: the answer of one that gave up may reach the next.

  `UnspentIsKept`, `RetiredIsDurable` and `OneYes` answer the question this raises: may a
  press then retire a code nobody spent?  It may not, because of the *order* of the
  presses (`PoolOrder`).  A press reads the code before it asks for the lock, and the
  lock is fair, so those whose code has left the pool come before those whose code heads
  it (`ReadsHead`, `StaleFirst`), and while a positive answer is under way every press
  that may use it has read the very code it is about (`OneYes`).  So the code retired is
  always the spent head of the pool; lemma `NothingToRetire` shows that with a pool the
  branch of `async_commit_use` for a code that is absent is not reached from
  `async_open_door`.  `Pools` relates the two lists: what has left memory and not yet
  the Store has been accepted.

  `ImplementsLedger`: with the refinement mapping of `OpenDoor` every initial state is one
  of `OtpLedger`, and every step is a step of it or changes nothing of it.  The count of
  `crashes` is part of the mapping: a code may come back from the Store by a crash only
  (lemma `OnlyCrashKills`), never because the pool is read again by a live process.
  `WaiterIsInLine` is the safety half of `PressEnds`: who waits for the lock has exactly
  one place in its line.
  These theorems use that the pool of the start repeats no code (`OpenDoorAssumption`):
  `async_add` ignores a code the pool has (`otp_store.py:77`).
- `OtpStoreProofs`: `TypeOK`, `NoCodeTwice`, `PoolIsKept`.  The invariant says it of
  *every* list, of the links and of the form, since any of them may become the
  Store.  Lemmas state what removal, concatenation and `SetToSeqs` do to a list
  without repetition.
- `HeldLinkProofs`: `TypeOK`, `HoldIsServed` (the task of the last turn-on is neither
  cancelled nor awaited by a call still under way) and `ConnectedIsUsable`, however calls
  overlap.  While they do not (`serial`): `OneHolder`, `OffIsOff`, `LinkIsShown`, and
  `LinkOnlyWhileHeld` for the step that connects.  The invariant (`SerialInv`) says that
  one task lives, that of `_runner`; that a call that turns the link off and waits for
  that task has seen to its cancellation, and leaves neither task nor client behind it; and,
  whether calls overlap or not, that a connection nobody has asked to close is that of
  `_client` (`LinkOwned`).
- `NfcAdminProofs`: `TypeOK` and `OneOperation`, from a lemma that a call inside the
  lock stays in it or leaves it; `EnrolledIsIn` and `RevokedIsGone`, from `AdminInv`: a
  mailbox that refuses the key sends nothing but refusals and never scans, and while a
  call waits for its last answer what it asked for is already so, because a write is
  acknowledged after it is carried out and only the holder of the lock writes.  So it
  does not matter whose answer it then receives.
- `EntitiesProofs`: `TypeOK`, `ShownIsCurrent`, `DatesSurvive`, `NeverBack`.  The
  invariant (`EntInv`) bounds by the clock whatever is known, shown, persisted or
  remembered, says that an entity that has not subscribed shows nothing, and that of a
  date that is not in the state the newest one shown is the one persisted: without it
  a restore might put back an older date than the one of the stop before.
- `EntryProofs`: `TypeOK`, `OptionsCoherent`, `JournalIsFed`, `AppliedUnlessRaced`,
  `MigrationKeepsCode`.  The invariant (`EntryInv`) has four parts: the options of each
  version (`VersionInv`); what set-up has read so far is what the options say, unless
  they were saved meanwhile or a reload is asked for (`ReadInv`); a link is coherent
  although its mode, key and screens may come from different options (`LinkInv`,
  because the last read takes the sensors and the refresh interval together); and what
  a flow has gathered at each screen passes the checks of the screens behind it
  (`FlowInv`).

Every safety property of a passing run is proved.  Only model-checked: liveness
(`EveryOpeningSettles`, `PressEnds`, `OffReleases`, `HoldReconnects`, `EveryCallEnds`,
`KnownIsShown`, `OptionsTakeEffect`), because fairness, `ENABLED` and induction over
recursive data are beyond the prover used; no module declares a `RECURSIVE` operator.
Each part of an inductive invariant was model-checked on the instance of its run before
it was proved.

## 7. Plan

Order: what opens the door and what it spends first, then the link it uses, then
what is reported to the user, then the entry that builds it all.  Done: every module of
section 2.  To do, in order:

1. Theorems about the safety half of the other liveness properties, as `WaiterIsInLine`
   is of `PressEnds`: who ends what in `HeldLink`, who answers what in `NfcAdmin`.
2. `MailTracker`: the wall clock apart from the deadlines of the loop (a clock set back
   between an opening and its timer).
3. Compositions: `OpenDoor` with `HeldLink` (the connection a press, a refresh and an
   enrolment compete for), `Entry` with `HeldLink` (a set-up that fails after the link has
   started: `PlatformsFail` forgets that link, the code leaves it running).

Not modelled, and why:

- the discovery of a mailbox by `BoksConfigFlow`: that an address has one entry is
  Home Assistant's `unique_id`;
- the label, keepalive, delays and window of the options: numbers no check of the
  form relates to another, and that set-up stores in the link as they are;
- the event entity and its texts, the address and version sensors, icons, names and
  units: values shown as they are;
- the value of the signal strength: one number stored; that it tells the entities is
  `Advertise`;
- the encoding of frames: pure functions of bytes, but the age of an entry;
- two bounds the code has and no document speaks of: a sag of 3 to 9 points raises the
  alert of a regulated pack from one reading (`coordinator.py:258`), and a reboot that
  fails is debounced like one that succeeds (`coordinator.py:620`; `RebootEnds`).
