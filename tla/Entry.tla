------------------------------- MODULE Entry -------------------------------
(***************************************************************************)
(* The configuration entry: its migration, set-up, reload and unload       *)
(* (__init__.py), the options flow (config_flow.py), the references to     *)
(* secrets.yaml (secret.py) and the entities each platform creates from    *)
(* the link it is given.                                                   *)
(*                                                                         *)
(* Set-up reads the options at several points with awaits between them, a   *)
(* flow saves the whole of them at its last screen, and Home Assistant     *)
(* calls the update listener only when they changed.                       *)
(***************************************************************************)
EXTENDS Integers, FiniteSets

CONSTANTS Codes,     \* well-formed open codes
          Keys,      \* well-formed Config Keys
          Bad,       \* any other text
          Names,     \* keys of secrets.yaml
          None,      \* no text, or no such key in secrets.yaml
          Flows,     \* options flows that may be open at once
          Choices,   \* what may be chosen on the first screen
          Screens,   \* what may be chosen on the last one
          MaxChanges \* bound: saves, edits of secrets.yaml, reloads, restarts

Ref(n) == <<"!secret", n>>
Refs == {Ref(n) : n \in Names}
Text == Codes \cup Keys \cup {Bad}
Modes == {"none", "direct", "secret", "otp"}
Checks == {"off", "ha_command", "journal"}

ASSUME EntryAssumption ==
    /\ None \notin Text \cup Names \cup Refs
    /\ Bad \notin Codes \cup Keys \cup Names /\ Codes \cap Names = {}
    /\ Text \cap Refs = {}
    /\ Choices \subseteq [mode : Modes, key : Keys \cup Refs \cup {None}, refresh : BOOLEAN]
    /\ Screens \subseteq [door : BOOLEAN, flap : BOOLEAN, check : Checks]
    /\ MaxChanges \in Nat

VARIABLES
    version, \* version of the entry
    options, \* its options; value is `open_code` while version is 1
    secrets, \* secrets.yaml
    pool,    \* one-time codes in the Store
    pc,      \* where the entry is; set-up awaits the code, the key, the platforms
    link,    \* the options the link is built from
    code,    \* BoksLink.open_code
    key,     \* BoksLink.config_key
    loaded,  \* what OtpPool.async_load has put in the pool of the link
    reloads, \* reloads asked for
    step,    \* the screen of each flow
    pending, \* BoksOptionsFlow._pending
    changes, \* bounded
    raced,   \* history: options saved since set-up began, before it ended
    legacy   \* history: the open code of version 1, until a flow saves another

entry == <<version, options, secrets, pool, changes, legacy>>
built == <<link, code, key, loaded>>
flows == <<step, pending>>
vars == <<entry, pc, built, reloads, flows, raced>>

Options == [mode : Modes, value : Text \cup Names \cup Refs \cup {None},
            key : Keys \cup Refs \cup {None}, refresh : BOOLEAN,
            door : BOOLEAN, flap : BOOLEAN, check : Checks]

TypeOK ==
    /\ version \in 1..2 /\ options \in Options /\ link \in Options
    /\ secrets \in [Names -> Text \cup {None}]
    /\ pool \subseteq Codes /\ loaded \subseteq pool
    /\ pc \in {"off", "code", "key", "platforms", "loaded", "failed", "unloading"}
    /\ code \in Text \cup {None} /\ key \in Text \cup {None}
    /\ changes \in 0..MaxChanges /\ reloads \in 0..changes
    /\ step \in [Flows -> {"closed", "open_code", "sensors"}]
    /\ pending \in [Flows -> Options]
    /\ raced \in BOOLEAN /\ legacy \in Codes \cup Refs \cup {None}

\* The default of each option.
Default == [mode |-> "none", value |-> None, key |-> None, refresh |-> FALSE,
            door |-> FALSE, flap |-> FALSE, check |-> "off"]

\* An entry of version 1, or one that has just been created.
Init ==
    /\ secrets \in [Names -> Text \cup {None}] /\ pool = {}
    /\ \/ version = 2 /\ legacy = None
       \/ version = 1 /\ legacy \in Codes \cup Refs \cup {None}
    /\ options = [Default EXCEPT !.value = legacy]
    /\ pc = "off" /\ link = Default /\ code = None /\ key = None /\ loaded = {}
    /\ reloads = 0 /\ changes = 0 /\ raced = FALSE
    /\ step = [f \in Flows |-> "closed"] /\ pending = [f \in Flows |-> Default]

Change == changes < MaxChanges /\ changes' = changes + 1

-----------------------------------------------------------------------------
(* secret.py.  None stands for SecretError too: the caller goes on without. *)

NameIn(text) == CHOOSE n \in Names : text = Ref(n)

\* async_resolve: the value, or what a reference stands for.
Resolve(text) == IF text \in Refs THEN secrets[NameIn(text)] ELSE text

\* async_resolve_mode.
ResolveMode(mode, value) ==
    CASE mode = "direct" -> value
      [] mode = "secret" /\ value # None -> secrets[value]
      [] OTHER -> None

\* secrets.yaml is edited; a link that runs keeps what it has read.
EditSecrets ==
    /\ Change
    /\ \E n \in Names, text \in Text \cup {None} :
          text # secrets[n] /\ secrets' = [secrets EXCEPT ![n] = text]
    /\ UNCHANGED <<version, options, pool, legacy, pc, built, reloads, flows, raced>>

-----------------------------------------------------------------------------
(* Set-up and unload. *)

\* A mistake: references are not told from codes.
MigratedDirect(o) == IF o.value = None THEN o ELSE [o EXCEPT !.mode = "direct"]

\* async_migrate_entry.
Migrated(o) ==
    IF o.value = None THEN o
    ELSE IF o.value \in Refs
         THEN [o EXCEPT !.mode = "secret", !.value = NameIn(o.value)]
         ELSE [o EXCEPT !.mode = "direct"]

\* There is no link, or it has nothing to do with the entry any more.
NoLink == link' = Default /\ code' = None /\ key' = None /\ loaded' = {}

\* async_setup_entry up to its first await: the mode and the value are read.
SetUp ==
    /\ pc = "off" /\ pc' = "code"
    /\ version' = 2
    /\ options' = IF version = 1 THEN Migrated(options) ELSE options
    /\ link' = [Default EXCEPT !.mode = options'.mode, !.value = options'.value]
    /\ code' = None /\ key' = None /\ loaded' = {}
    /\ raced' = FALSE
    /\ UNCHANGED <<secrets, pool, changes, legacy, reloads, flows>>

\* The code is resolved, or the pool loaded, and the key is read.
ReadCode ==
    /\ pc = "code" /\ pc' = "key"
    /\ code' = ResolveMode(link.mode, link.value)
    /\ loaded' = IF link.mode = "otp" THEN pool ELSE {}
    /\ link' = [link EXCEPT !.key = options.key]
    /\ UNCHANGED <<entry, key, reloads, flows, raced>>

\* The key is resolved, the rest is read, the link and the tracker are started.
StartLink ==
    /\ pc = "key" /\ pc' = "platforms"
    /\ key' = Resolve(link.key)
    /\ link' = [options EXCEPT !.mode = link.mode, !.value = link.value, !.key = link.key]
    /\ UNCHANGED <<entry, code, loaded, reloads, flows, raced>>

\* async_start raises: ConfigEntryNotReady, and Home Assistant tries again.
StartFails ==
    /\ pc = "key" /\ pc' = "off" /\ NoLink
    /\ UNCHANGED <<entry, reloads, flows, raced>>

\* The platforms have their entities; the listener is registered last.
PlatformsReady ==
    /\ pc = "platforms" /\ pc' = "loaded"
    /\ UNCHANGED <<entry, built, reloads, flows, raced>>

\* A platform does not load: set-up has failed, and the link it started runs on.
PlatformsFail ==
    /\ pc = "platforms" /\ pc' = "failed" /\ NoLink
    /\ UNCHANGED <<entry, reloads, flows, raced>>

\* A mistake: nothing is unloaded.
ReloadSkipped == reloads > 0 /\ reloads' = reloads - 1 /\ UNCHANGED <<entry, pc, built, flows, raced>>

\* A reload: async_unload_entry, or nothing to unload after a failure.
Reload ==
    /\ pc \in {"loaded", "failed"} /\ reloads > 0
    /\ reloads' = reloads - 1
    /\ pc' = IF pc = "loaded" THEN "unloading" ELSE "off"
    /\ UNCHANGED <<entry, built, flows, raced>>

\* The platforms are unloaded, the tracker and the link stopped.
Unloaded ==
    /\ pc = "unloading" /\ pc' = "off" /\ NoLink
    /\ UNCHANGED <<entry, reloads, flows, raced>>

\* The user asks for a reload.
AskReload ==
    /\ Change
    /\ pc \in {"loaded", "failed"} /\ reloads' = reloads + 1
    /\ UNCHANGED <<version, options, secrets, pool, legacy, pc, built, flows, raced>>

\* Home Assistant stops and starts again.
Restart ==
    /\ Change
    /\ pc' = "off" /\ NoLink /\ reloads' = 0 /\ raced' = FALSE
    /\ step' = [f \in Flows |-> "closed"] /\ pending' = [f \in Flows |-> Default]
    /\ UNCHANGED <<version, options, secrets, pool, legacy>>

-----------------------------------------------------------------------------
(* The options flow. *)

\* Set-up only leaves the event loop when it reads a file.
LoopIsFree ==
    /\ version = 2
    /\ pc = "code" => link.mode \in {"secret", "otp"}
    /\ pc = "key" => link.key \in Refs

Goto(f, screen) == step' = [step EXCEPT ![f] = screen]
Close(f) == Goto(f, "closed") /\ pending' = [pending EXCEPT ![f] = Default]

\* async_step_init: the Config Key is checked, the mode is chosen.
FormInit(f) ==
    /\ LoopIsFree /\ step[f] = "closed"
    /\ \E c \in Choices :
          /\ c.key # None => Resolve(c.key) \in Keys
          /\ pending' = [pending EXCEPT ![f] = [Default EXCEPT
                            !.mode = c.mode, !.key = c.key, !.refresh = c.refresh]]
          /\ Goto(f, IF c.mode = "none" THEN "sensors" ELSE "open_code")
    /\ UNCHANGED <<entry, pc, built, reloads, raced>>

\* What stands for the field: the saved value if it is empty and the mode is unchanged.
Kept(f, raw) ==
    IF raw = None /\ options.mode = pending[f].mode THEN options.value ELSE raw

\* async_step_open_code for a permanent code or a reference.
FormCode(f) ==
    /\ LoopIsFree /\ step[f] = "open_code" /\ pending[f].mode # "otp"
    /\ \E raw \in Text \cup Names \cup {None} : LET value == Kept(f, raw) IN
          /\ IF pending[f].mode = "direct" THEN value \in Codes
             ELSE value \in Names /\ secrets[value] \in Codes
          /\ pending' = [pending EXCEPT ![f].value = value]
    /\ Goto(f, "sensors")
    /\ UNCHANGED <<entry, pc, built, reloads, raced>>

\* async_step_open_code for one-time codes: they are stored at once, elsewhere.
FormPool(f) ==
    /\ LoopIsFree /\ step[f] = "open_code" /\ pending[f].mode = "otp"
    /\ \E typed \in SUBSET Codes \ {{}} : pool' = pool \cup typed
    /\ Goto(f, "sensors")
    /\ UNCHANGED <<version, options, secrets, changes, legacy,
                   pc, built, reloads, pending, raced>>

\* async_update_entry, for which nothing happens unless the options change: the
\* listener asks for a reload, if it is registered.
Save(o) ==
    /\ Change
    /\ options' = o
    /\ IF o = options THEN UNCHANGED <<legacy, reloads, raced>>
       ELSE /\ legacy' = None
            /\ reloads' = IF pc \in {"loaded", "unloading"} THEN reloads + 1 ELSE reloads
            /\ raced' = (raced \/ pc \in {"code", "key", "platforms"})

\* async_step_sensors: the last screen, checked against the refresh interval of a
\* set of options, saves what the flow has gathered.
LastScreen(f, checked) ==
    /\ LoopIsFree /\ step[f] = "sensors"
    /\ \E c \in Screens :
          /\ c.check # "off" => c.door
          /\ c.check = "journal" => checked.refresh
          /\ Save([pending[f] EXCEPT !.door = c.door, !.flap = c.flap, !.check = c.check])
    /\ Close(f)
    /\ UNCHANGED <<version, secrets, pool, pc, built>>

\* A mistake: the refresh interval looked at is the one in use.
FormSensorsSaved(f) == LastScreen(f, options)

\* async_step_sensors: the interval the same flow is about to save.
FormSensors(f) == LastScreen(f, pending[f])

\* The window is closed before the end.
FormLeft(f) ==
    /\ step[f] # "closed" /\ Close(f)
    /\ UNCHANGED <<entry, pc, built, reloads, raced>>

-----------------------------------------------------------------------------
SetUpStep == SetUp \/ ReadCode \/ StartLink \/ StartFails \/ PlatformsReady \/ PlatformsFail
Form(f) == FormInit(f) \/ FormCode(f) \/ FormPool(f) \/ FormSensors(f) \/ FormLeft(f)

Next ==
    \/ SetUpStep \/ Reload \/ Unloaded
    \/ EditSecrets \/ AskReload \/ Restart
    \/ \E f \in Flows : Form(f)

Spec == Init /\ [][Next]_vars

\* The awaits of set-up and unload end, Home Assistant tries again what was not
\* ready, and does the reloads it was asked for; async_start does not fail for ever.
FairSpec == /\ Spec
            /\ WF_vars(SetUp) /\ WF_vars(ReadCode) /\ SF_vars(StartLink)
            /\ WF_vars(PlatformsReady \/ PlatformsFail)
            /\ WF_vars(Reload) /\ WF_vars(Unloaded)

-----------------------------------------------------------------------------
(* The entities of a link: async_setup_entry of each platform, for those that *)
(* it does not create in all cases.                                          *)

Entities ==
    (IF code # None THEN {"open"} ELSE {})
    \cup (IF key # None THEN {"register", "unregister", "uid", "vigik"} ELSE {})
    \cup (IF link.mode = "otp" THEN {"otp_remaining"} ELSE {})
    \cup (IF link.door THEN {"door_live", "collect"} ELSE {})
    \cup (IF link.flap THEN {"flap", "deposit"} ELSE {})
    \cup (IF link.door \/ link.flap THEN {"mail_activity"} ELSE {})
    \cup (IF link.door /\ link.check # "off" THEN {"unexpected_opening"} ELSE {})

-----------------------------------------------------------------------------
(* Properties. *)

Serving == pc \in {"platforms", "loaded", "unloading"}
Settled == pc = "loaded" /\ reloads = 0

\* What is saved holds together across the three screens, whatever other flows
\* save and whatever happens to secrets.yaml meanwhile.
OptionsCoherent ==
    version = 2 =>
        /\ options.mode \in {"none", "otp"} => options.value = None
        /\ options.mode = "direct" => options.value \in Codes
        /\ options.mode = "secret" => options.value \in Names
        /\ options.check # "off" => options.door
        /\ options.check = "journal" => options.refresh

\* config_flow.py: "Sans lecture périodique du journal, aucune alerte n'arriverait."
\* A link that shows unexpected openings from the log reads the log, although the
\* options it is built from may change while it is built.
JournalIsFed ==
    Serving /\ "unexpected_opening" \in Entities /\ link.check = "journal" => link.refresh

\* A link at rest is built from the options that are saved, all of them, unless
\* they were saved while it was being built.
AppliedUnlessRaced == Settled /\ ~raced => link = options

\* The open code of version 1 is the same in version 2, whatever becomes of
\* secrets.yaml, until a flow saves something else.
MigrationKeepsCode ==
    version = 2 /\ legacy # None =>
        ResolveMode(options.mode, options.value) = Resolve(legacy)

\* A reload that is asked for ends in a link built from the options, or in a set-up
\* that failed or was overtaken.
OptionsTakeEffect ==
    reloads > 0 ~> (Settled /\ link = options) \/ raced \/ pc = "failed"

\* translations/en.json: "Whatever the mode, filling this in adds an Open button".
EveryModeOpens == Serving /\ link.mode = "otp" => "open" \in Entities

\* config_flow.py: "Valider ce formulaire déclenche le rechargement de l'entrée".
\* A link at rest is built from what the last form has saved.
SavingReloads == Settled => link = options

\* The same of the codes that are typed.
PoolIsServed ==
    Settled /\ ~raced /\ (\A f \in Flows : step[f] = "closed") /\ options.mode = "otp"
        => loaded = pool

\* button.py: no button, "plutôt qu'un bouton présent qui échouerait à l'usage".
ButtonWorks == Serving /\ "open" \in Entities => code \in Codes
=============================================================================
