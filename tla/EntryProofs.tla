---------------------------- MODULE EntryProofs ----------------------------
(***************************************************************************)
(* Theorems about Entry for every set of codes, keys, names and flows, and *)
(* for every choice the screens offer.                                     *)
(***************************************************************************)
EXTENDS Entry, TLAPS

\* Looking a reference up gives back the name it was made of, or one as good.
LEMMA NameOfRef == ASSUME NEW text \in Refs PROVE NameIn(text) \in Names /\ text = Ref(NameIn(text))
BY DEF Refs, NameIn

LEMMA DefaultType == Default \in Options
BY DEF Default, Options, Modes, Checks

\* Replacing fields of a set of options by their own values changes nothing.
LEMMA SameOptions ==
    ASSUME NEW o \in Options
    PROVE  [o EXCEPT !.mode = o.mode, !.value = o.value, !.key = o.key] = o
BY DEF Options

LEMMA ResolveType ==
    ASSUME TypeOK, NEW text \in Keys \cup Refs \cup {None} PROVE Resolve(text) \in Text \cup {None}
<1>1. CASE text \in Refs
  BY <1>1, NameOfRef DEF Resolve, TypeOK
<1>2. CASE text \notin Refs
  BY <1>2 DEF Resolve, Text
<1> QED BY <1>1, <1>2

-----------------------------------------------------------------------------
(* What a flow has gathered, and what is saved, holds together. *)

\* The open code of a set of options agrees with its mode.
CodeCoherent(o) ==
    /\ o.mode \in {"none", "otp"} => o.value = None
    /\ o.mode = "direct" => o.value \in Codes
    /\ o.mode = "secret" => o.value \in Names

\* So do its last screen and its refresh interval.
ScreenCoherent(o) ==
    /\ o.check # "off" => o.door
    /\ o.check = "journal" => o.refresh

\* On the second screen the code is still to come; on the last it is there.
FlowInv(f) ==
    /\ step[f] = "open_code" => pending[f].mode # "none" /\ pending[f].value = None
    /\ step[f] = "sensors" => CodeCoherent(pending[f])

\* Before the migration nothing but the code is saved, and no flow is open.
VersionInv ==
    /\ version = 1 => /\ options = [Default EXCEPT !.value = legacy]
                      /\ pc = "off" /\ \A f \in Flows : step[f] = "closed"
    /\ version = 2 => /\ CodeCoherent(options) /\ ScreenCoherent(options)
                      /\ legacy # None => options = Migrated([Default EXCEPT !.value = legacy])

\* What has been read of the options is what they still say, unless they were
\* saved meanwhile or a reload is on its way.
ReadInv ==
    ~raced =>
        /\ pc \in {"code", "key"} => link.mode = options.mode /\ link.value = options.value
        /\ pc = "key" => link.key = options.key
        /\ pc = "platforms" => link = options
        /\ pc = "loaded" /\ reloads = 0 => link = options

\* A link that has been read is coherent, and its parts have their types.
LinkInv ==
    /\ pc \in {"platforms", "loaded", "unloading"} => ScreenCoherent(link)
    /\ CodeCoherent(link)
    /\ link.key \in Keys \cup Refs \cup {None}

EntryInv == VersionInv /\ ReadInv /\ LinkInv /\ \A f \in Flows : FlowInv(f)

LEMMA MigratedType ==
    ASSUME NEW code0 \in Codes \cup Refs \cup {None}
    PROVE  LET o == Migrated([Default EXCEPT !.value = code0])
           IN  o \in Options /\ CodeCoherent(o) /\ ScreenCoherent(o)
<1> DEFINE o == [Default EXCEPT !.value = code0]
<1>1. CASE code0 = None
  BY <1>1, EntryAssumption DEF Migrated, Default, Options, Modes, Checks, CodeCoherent, ScreenCoherent
<1>2. CASE code0 \in Refs
  <2>1. Migrated(o) = [o EXCEPT !.mode = "secret", !.value = NameIn(code0)]
    BY <1>2, EntryAssumption DEF Migrated, Default
  <2> QED BY <1>2, <2>1, NameOfRef
          DEF Default, Options, Modes, Checks, CodeCoherent, ScreenCoherent
<1>3. CASE code0 \in Codes
  <2>1. Migrated(o) = [o EXCEPT !.mode = "direct"]
    BY <1>3, EntryAssumption DEF Migrated, Default, Text
  <2> QED BY <1>3, <2>1 DEF Default, Options, Modes, Checks, CodeCoherent, ScreenCoherent, Text
<1> QED BY <1>1, <1>2, <1>3

\* A code that agrees with its mode resolves to a text, or to nothing.
LEMMA ResolveModeType ==
    ASSUME TypeOK, CodeCoherent(link)
    PROVE  ResolveMode(link.mode, link.value) \in Text \cup {None}
<1>1. CASE link.mode = "direct"
  BY <1>1 DEF CodeCoherent, ResolveMode, Text
<1>2. CASE link.mode = "secret"
  BY <1>2 DEF CodeCoherent, ResolveMode, TypeOK
<1>3. CASE link.mode \notin {"direct", "secret"}
  BY <1>3 DEF ResolveMode
<1> QED BY <1>1, <1>2, <1>3

-----------------------------------------------------------------------------
(* Types. *)

\* NoLink leaves nothing of the link.
LEMMA NoLinkType ==
    ASSUME NoLink PROVE /\ link' \in Options /\ code' \in Text \cup {None}
                        /\ key' \in Text \cup {None} /\ loaded' = {}
BY DefaultType DEF NoLink

\* A change is counted, and may be one reload more.
LEMMA ChangeType ==
    ASSUME TypeOK, Change
    PROVE  /\ changes' \in 0..MaxChanges
           /\ 0 \in 0..changes' /\ reloads \in 0..changes' /\ reloads + 1 \in 0..changes'
BY EntryAssumption DEF Change, TypeOK

\* A set of options is saved.
LEMMA SaveType ==
    ASSUME TypeOK, NEW o \in Options, Save(o)
    PROVE  /\ options' \in Options /\ raced' \in BOOLEAN
           /\ changes' \in 0..MaxChanges /\ reloads' \in 0..changes'
           /\ legacy' \in Codes \cup Refs \cup {None}
<1>1. Change
  BY DEF Save
<1>2. reloads' \in {reloads, reloads + 1} /\ raced' \in BOOLEAN
  BY DEF Save, TypeOK
<1>3. options' \in Options /\ legacy' \in Codes \cup Refs \cup {None}
  BY DEF Save, TypeOK
<1> QED BY <1>1, <1>2, <1>3, ChangeType

LEMMA TypeStep == TypeOK /\ EntryInv /\ [Next]_vars => TypeOK'
<1> SUFFICES ASSUME TypeOK, EntryInv, [Next]_vars PROVE TypeOK'
  OBVIOUS
<1> USE DEF entry, built, flows
<1>1. CASE EditSecrets
  <2>1. secrets' \in [Names -> Text \cup {None}]
    BY <1>1 DEF EditSecrets, TypeOK
  <2> QED BY <1>1, <2>1, ChangeType DEF EditSecrets, TypeOK
<1>2. CASE SetUp
  <2>1. options' \in Options
    BY <1>2, MigratedType DEF SetUp, TypeOK, EntryInv, VersionInv
  <2>2. link' \in Options
    <3>1. link' = [Default EXCEPT !.mode = options'.mode, !.value = options'.value]
      BY <1>2 DEF SetUp
    <3>2. options'.mode \in Modes /\ options'.value \in Text \cup Names \cup Refs \cup {None}
      BY <2>1 DEF Options
    <3> QED BY <3>1, <3>2, DefaultType DEF Options
  <2>3. /\ version' = 2 /\ pc' = "code" /\ code' = None /\ key' = None
        /\ loaded' = {} /\ raced' = FALSE
        /\ UNCHANGED <<secrets, pool, changes, legacy, reloads, step, pending>>
    BY <1>2 DEF SetUp
  <2>4. version' \in 1..2
    BY <2>3
  <2>7. code' \in Text \cup {None} /\ key' \in Text \cup {None}
    BY <2>3
  <2>8. raced' \in BOOLEAN
    BY <2>3
  <2>5. secrets' \in [Names -> Text \cup {None}] /\ pool' \subseteq Codes /\ loaded' \subseteq pool'
    BY <2>3 DEF TypeOK
  <2>6. /\ changes' \in 0..MaxChanges /\ reloads' \in 0..changes'
        /\ step' \in [Flows -> {"closed", "open_code", "sensors"}]
        /\ pending' \in [Flows -> Options] /\ legacy' \in Codes \cup Refs \cup {None}
    BY <2>3 DEF TypeOK
  <2> QED BY <2>1, <2>2, <2>3, <2>4, <2>5, <2>6, <2>7, <2>8 DEF TypeOK
<1>3. CASE ReadCode
  <2>1. link' \in Options
    BY <1>3 DEF ReadCode, TypeOK, Options
  <2>2. code' \in Text \cup {None}
    BY <1>3, ResolveModeType DEF ReadCode, EntryInv, LinkInv
  <2> QED BY <1>3, <2>1, <2>2 DEF ReadCode, TypeOK
<1>4. CASE StartLink
  <2>1. link' \in Options
    BY <1>4 DEF StartLink, TypeOK, Options
  <2>2. key' \in Text \cup {None}
    BY <1>4, ResolveType DEF StartLink, EntryInv, LinkInv
  <2> QED BY <1>4, <2>1, <2>2 DEF StartLink, TypeOK
<1>5. CASE StartFails \/ PlatformsFail \/ Unloaded
  BY <1>5, NoLinkType DEF StartFails, PlatformsFail, Unloaded, TypeOK
<1>6. CASE PlatformsReady
  BY <1>6 DEF PlatformsReady, TypeOK
<1>7. CASE Reload
  BY <1>7 DEF Reload, TypeOK
<1>8. CASE AskReload
  BY <1>8, ChangeType DEF AskReload, TypeOK
<1>9. CASE Restart
  <2>1. pending' \in [Flows -> Options]
    BY <1>9, DefaultType DEF Restart
  <2> QED BY <1>9, <2>1, NoLinkType, ChangeType DEF Restart, TypeOK
<1>10. ASSUME NEW f \in Flows, FormInit(f) PROVE TypeOK'
  <2>1. PICK c \in Choices :
          /\ pending' = [pending EXCEPT ![f] = [Default EXCEPT
                            !.mode = c.mode, !.key = c.key, !.refresh = c.refresh]]
          /\ Goto(f, IF c.mode = "none" THEN "sensors" ELSE "open_code")
    BY <1>10 DEF FormInit
  <2>2. [Default EXCEPT !.mode = c.mode, !.key = c.key, !.refresh = c.refresh] \in Options
    BY EntryAssumption DEF Default, Options, Checks
  <2> QED BY <1>10, <2>1, <2>2 DEF FormInit, Goto, TypeOK
<1>11. ASSUME NEW f \in Flows, FormCode(f) PROVE TypeOK'
  <2>1. PICK value \in Codes \cup Names : pending' = [pending EXCEPT ![f].value = value]
    BY <1>11 DEF FormCode
  <2>2. pending' \in [Flows -> Options]
    BY <2>1 DEF TypeOK, Options, Text
  <2> QED BY <1>11, <2>2 DEF FormCode, Goto, TypeOK
<1>12. ASSUME NEW f \in Flows, FormPool(f) PROVE TypeOK'
  BY <1>12 DEF FormPool, Goto, TypeOK
<1>13. ASSUME NEW f \in Flows, FormSensors(f) PROVE TypeOK'
  <2>1. PICK c \in Screens :
          Save([pending[f] EXCEPT !.door = c.door, !.flap = c.flap, !.check = c.check])
    BY <1>13 DEF FormSensors, LastScreen
  <2>2. [pending[f] EXCEPT !.door = c.door, !.flap = c.flap, !.check = c.check] \in Options
    BY EntryAssumption DEF TypeOK, Options
  <2>3. pending' \in [Flows -> Options]
    BY <1>13, DefaultType DEF FormSensors, LastScreen, Close, TypeOK
  <2> QED BY <1>13, <2>1, <2>2, <2>3, SaveType
          DEF FormSensors, LastScreen, Close, Goto, TypeOK
<1>14. ASSUME NEW f \in Flows, FormLeft(f) PROVE TypeOK'
  BY <1>14, DefaultType DEF FormLeft, Close, Goto, TypeOK
<1>15. CASE UNCHANGED vars
  BY <1>15 DEF vars, TypeOK
<1> QED
  BY <1>1, <1>2, <1>3, <1>4, <1>5, <1>6, <1>7, <1>8, <1>9, <1>10, <1>11, <1>12, <1>13,
     <1>14, <1>15 DEF Next, SetUpStep, Form

-----------------------------------------------------------------------------
(* The invariant. *)

\* A flow that changes nothing but itself.
LEMMA FlowStep ==
    ASSUME TypeOK, EntryInv, LoopIsFree, NEW f \in Flows,
           NEW screen \in {"closed", "open_code", "sensors"}, NEW o \in Options,
           step' = [step EXCEPT ![f] = screen], pending' = [pending EXCEPT ![f] = o],
           screen = "open_code" => o.mode # "none" /\ o.value = None,
           screen = "sensors" => CodeCoherent(o),
           UNCHANGED <<version, options, pc, link, reloads, raced, legacy>>
    PROVE  EntryInv'
<1>1. VersionInv'
  BY DEF EntryInv, VersionInv, LoopIsFree, CodeCoherent, ScreenCoherent
<1>2. ReadInv' /\ LinkInv'
  BY DEF EntryInv, ReadInv, LinkInv, CodeCoherent, ScreenCoherent
<1>3. ASSUME NEW g \in Flows PROVE FlowInv(g)'
  <2>1. CASE g = f
    <3>1. step'[g] = screen /\ pending'[g] = o
      BY <2>1 DEF TypeOK
    <3> QED BY <3>1 DEF FlowInv, CodeCoherent
  <2>2. CASE g # f
    <3>1. step'[g] = step[g] /\ pending'[g] = pending[g]
      BY <2>2 DEF TypeOK
    <3> QED BY <3>1 DEF EntryInv, FlowInv, CodeCoherent
  <2> QED BY <2>1, <2>2
<1> QED BY <1>1, <1>2, <1>3 DEF EntryInv

\* What a flow saves is coherent, and makes what was read of it before stale.
LEMMA SaveStep ==
    ASSUME TypeOK, EntryInv, version = 2, NEW o \in Options, Save(o),
           CodeCoherent(o), ScreenCoherent(o), UNCHANGED <<version, pc, link>>
    PROVE  VersionInv' /\ ReadInv' /\ LinkInv'
<1>1. LinkInv'
  BY DEF EntryInv, LinkInv, CodeCoherent, ScreenCoherent
<1>2. CASE o = options
  <2>1. UNCHANGED <<options, legacy, reloads, raced>>
    BY <1>2 DEF Save
  <2>2. VersionInv'
    BY <2>1 DEF EntryInv, VersionInv, CodeCoherent, ScreenCoherent
  <2>3. ReadInv'
    BY <2>1 DEF EntryInv, ReadInv
  <2> QED BY <1>1, <2>2, <2>3
<1>3. CASE o # options
  <2>1. /\ options' = o /\ legacy' = None
        /\ reloads' = IF pc \in {"loaded", "unloading"} THEN reloads + 1 ELSE reloads
        /\ raced' = (raced \/ pc \in {"code", "key", "platforms"})
    BY <1>3 DEF Save
  <2>2. VersionInv'
    BY <2>1 DEF VersionInv
  <2>3. reloads + 1 # 0
    BY EntryAssumption DEF TypeOK
  <2>4. ReadInv'
    BY <2>1, <2>3 DEF ReadInv
  <2> QED BY <1>1, <2>2, <2>4
<1> QED BY <1>2, <1>3

\* The flows, and what is saved, are left alone.
LEMMA SameFlows ==
    ASSUME EntryInv, UNCHANGED <<flows>>, NEW f \in Flows PROVE FlowInv(f)'
BY DEF EntryInv, FlowInv, CodeCoherent, flows

LEMMA SameOptionsInv ==
    ASSUME EntryInv, version = 2, UNCHANGED <<version, options, legacy>>
    PROVE  VersionInv'
BY DEF EntryInv, VersionInv, CodeCoherent, ScreenCoherent

LEMMA InvStep == TypeOK /\ EntryInv /\ [Next]_vars => EntryInv'
<1> SUFFICES ASSUME TypeOK, EntryInv, [Next]_vars PROVE EntryInv'
  OBVIOUS
<1> USE DEF entry, built
<1>v. version \in 1..2
  BY DEF TypeOK
<1>1. CASE EditSecrets
  <2>1. UNCHANGED <<version, options, legacy, pc, link, reloads, raced, flows>>
    BY <1>1 DEF EditSecrets
  <2>2. VersionInv' /\ ReadInv' /\ LinkInv'
    BY <2>1 DEF EntryInv, VersionInv, ReadInv, LinkInv, CodeCoherent, ScreenCoherent, flows
  <2> QED BY <2>1, <2>2, SameFlows DEF EntryInv
<1>2. CASE SetUp
  <2>1. /\ version' = 2 /\ pc' = "code" /\ UNCHANGED <<flows, legacy>>
        /\ options' = IF version = 1 THEN Migrated(options) ELSE options
        /\ link' = [Default EXCEPT !.mode = options'.mode, !.value = options'.value]
    BY <1>2 DEF SetUp
  <2>2. VersionInv'
    <3>1. CASE version = 1
      <4>1. options' = Migrated([Default EXCEPT !.value = legacy])
        BY <2>1, <3>1 DEF EntryInv, VersionInv
      <4>2. CodeCoherent(options') /\ ScreenCoherent(options')
        BY <4>1, MigratedType DEF TypeOK
      <4> QED BY <2>1, <4>1, <4>2 DEF VersionInv, CodeCoherent, ScreenCoherent
    <3>2. CASE version = 2
      BY <2>1, <3>2 DEF EntryInv, VersionInv, CodeCoherent, ScreenCoherent
    <3> QED BY <1>v, <3>1, <3>2
  <2>3. link'.mode = options'.mode /\ link'.value = options'.value /\ link'.key = None
    BY <2>1 DEF Default
  <2>4. ReadInv'
    BY <2>1, <2>3 DEF ReadInv
  <2>5. LinkInv'
    BY <2>1, <2>2, <2>3 DEF VersionInv, LinkInv, CodeCoherent
  <2> QED BY <2>1, <2>2, <2>4, <2>5, SameFlows DEF EntryInv
<1>3. ASSUME pc # "off", UNCHANGED <<version, options, legacy, flows>>, ReadInv', LinkInv'
      PROVE  EntryInv'
  <2>1. version = 2
    BY <1>3, <1>v DEF EntryInv, VersionInv
  <2> QED BY <1>3, <2>1, SameOptionsInv, SameFlows DEF EntryInv
<1>4. CASE ReadCode
  <2>1. /\ link' = [link EXCEPT !.key = options.key] /\ pc = "code" /\ pc' = "key"
        /\ UNCHANGED <<version, options, legacy, flows, raced>>
    BY <1>4 DEF ReadCode
  <2>2. link'.mode = link.mode /\ link'.value = link.value /\ link'.key = options.key
    BY <2>1 DEF TypeOK, Options
  <2>3. ReadInv'
    BY <2>1, <2>2 DEF EntryInv, ReadInv
  <2>4. LinkInv'
    BY <2>1, <2>2 DEF EntryInv, LinkInv, CodeCoherent, TypeOK, Options
  <2> QED BY <2>1, <2>3, <2>4, <1>3
<1>5. CASE StartLink
  <2>1. /\ link' = [options EXCEPT !.mode = link.mode, !.value = link.value, !.key = link.key]
        /\ pc = "key" /\ pc' = "platforms"
        /\ UNCHANGED <<version, options, legacy, flows, raced>>
    BY <1>5 DEF StartLink
  <2>2. ~raced => link' = options
    BY <2>1, SameOptions DEF EntryInv, ReadInv, TypeOK
  <2>3. ReadInv'
    BY <2>1, <2>2 DEF ReadInv
  <2>4. /\ link'.mode = link.mode /\ link'.value = link.value /\ link'.key = link.key
        /\ link'.check = options.check /\ link'.door = options.door
        /\ link'.refresh = options.refresh
    BY <2>1 DEF TypeOK, Options
  <2>5. ScreenCoherent(options)
    BY <2>1, <1>v DEF EntryInv, VersionInv
  <2>6. LinkInv'
    BY <2>4, <2>5 DEF EntryInv, LinkInv, CodeCoherent, ScreenCoherent
  <2> QED BY <2>1, <2>3, <2>6, <1>3
<1>6. CASE StartFails \/ PlatformsFail \/ Unloaded
  <2>1. /\ link' = Default /\ pc # "off" /\ pc' \in {"off", "failed"}
        /\ UNCHANGED <<version, options, legacy, flows, raced>>
    BY <1>6 DEF StartFails, PlatformsFail, Unloaded, NoLink
  <2>2. ReadInv'
    BY <2>1 DEF ReadInv
  <2>3. LinkInv'
    BY <2>1 DEF LinkInv, CodeCoherent, Default
  <2> QED BY <2>1, <2>2, <2>3, <1>3
<1>7. CASE PlatformsReady \/ Reload \/ AskReload
  <2>1. /\ pc # "off" /\ UNCHANGED <<version, options, legacy, flows, raced, link>>
        /\ \/ pc = "platforms" /\ pc' = "loaded" /\ UNCHANGED reloads
           \/ pc = "loaded" /\ pc' = "unloading"
           \/ pc = "failed" /\ pc' = "off"
           \/ UNCHANGED pc /\ pc \in {"loaded", "failed"} /\ reloads' = reloads + 1
    BY <1>7 DEF PlatformsReady, Reload, AskReload
  <2>2. reloads + 1 # 0
    BY EntryAssumption DEF TypeOK
  <2>3. ReadInv'
    BY <2>1, <2>2 DEF EntryInv, ReadInv
  <2>4. LinkInv'
    BY <2>1 DEF EntryInv, LinkInv, CodeCoherent, ScreenCoherent
  <2> QED BY <2>1, <2>3, <2>4, <1>3
<1>8. CASE Restart
  <2>1. /\ link' = Default /\ pc' = "off" /\ step' = [f \in Flows |-> "closed"]
        /\ UNCHANGED <<version, options, legacy>>
    BY <1>8 DEF Restart, NoLink
  <2>2. VersionInv'
    BY <2>1 DEF EntryInv, VersionInv, CodeCoherent, ScreenCoherent
  <2>3. ReadInv' /\ LinkInv'
    BY <2>1 DEF ReadInv, LinkInv, CodeCoherent, Default
  <2>4. \A f \in Flows : FlowInv(f)'
    BY <2>1 DEF FlowInv
  <2> QED BY <2>2, <2>3, <2>4 DEF EntryInv
<1>9. ASSUME NEW f \in Flows, FormInit(f) PROVE EntryInv'
  <2>1. PICK c \in Choices :
          /\ pending' = [pending EXCEPT ![f] = [Default EXCEPT
                            !.mode = c.mode, !.key = c.key, !.refresh = c.refresh]]
          /\ Goto(f, IF c.mode = "none" THEN "sensors" ELSE "open_code")
    BY <1>9 DEF FormInit
  <2> DEFINE o == [Default EXCEPT !.mode = c.mode, !.key = c.key, !.refresh = c.refresh]
             screen == IF c.mode = "none" THEN "sensors" ELSE "open_code"
  <2>2. o \in Options /\ o.mode = c.mode /\ o.value = None
    BY EntryAssumption DEF Default, Options, Checks
  <2>3. screen = "sensors" => CodeCoherent(o)
    BY <2>2 DEF CodeCoherent
  <2>4. screen = "open_code" => o.mode # "none" /\ o.value = None
    BY <2>2
  <2>5. /\ pending' = [pending EXCEPT ![f] = o] /\ step' = [step EXCEPT ![f] = screen]
        /\ LoopIsFree /\ UNCHANGED <<version, options, pc, link, reloads, raced, legacy>>
    BY <1>9, <2>1 DEF FormInit, Goto
  <2>6. screen \in {"closed", "open_code", "sensors"}
    OBVIOUS
  <2> HIDE DEF o, screen
  <2> QED BY <2>2, <2>3, <2>4, <2>5, <2>6, FlowStep
<1>10. ASSUME NEW f \in Flows, FormCode(f) PROVE EntryInv'
  <2>1. PICK value \in Codes \cup Names :
          /\ pending' = [pending EXCEPT ![f].value = value]
          /\ IF pending[f].mode = "direct" THEN value \in Codes ELSE value \in Names
    BY <1>10 DEF FormCode
  <2> DEFINE o == [pending[f] EXCEPT !.value = value]
  <2>2. pending[f].mode \in {"direct", "secret"}
    BY <1>10 DEF FormCode, EntryInv, FlowInv, TypeOK, Options, Modes
  <2>3. o \in Options /\ o.mode = pending[f].mode /\ o.value = value
    BY DEF TypeOK, Options, Text
  <2>4. CodeCoherent(o)
    BY <2>1, <2>2, <2>3 DEF CodeCoherent
  <2>5. /\ pending' = [pending EXCEPT ![f] = o] /\ step' = [step EXCEPT ![f] = "sensors"]
        /\ LoopIsFree /\ UNCHANGED <<version, options, pc, link, reloads, raced, legacy>>
    BY <1>10, <2>1 DEF FormCode, Goto
  <2> HIDE DEF o
  <2> QED BY <2>3, <2>4, <2>5, FlowStep
<1>11. ASSUME NEW f \in Flows, FormPool(f) PROVE EntryInv'
  <2>1. pending[f] \in Options /\ pending' = [pending EXCEPT ![f] = pending[f]]
    BY <1>11 DEF FormPool, TypeOK
  <2>2. CodeCoherent(pending[f])
    BY <1>11 DEF FormPool, EntryInv, FlowInv, CodeCoherent
  <2>3. /\ step' = [step EXCEPT ![f] = "sensors"]
        /\ LoopIsFree /\ UNCHANGED <<version, options, pc, link, reloads, raced, legacy>>
    BY <1>11 DEF FormPool, Goto
  <2> QED BY <2>1, <2>2, <2>3, FlowStep
<1>12. ASSUME NEW f \in Flows, FormSensors(f) PROVE EntryInv'
  <2>1. PICK c \in Screens :
          /\ c.check # "off" => c.door
          /\ c.check = "journal" => pending[f].refresh
          /\ Save([pending[f] EXCEPT !.door = c.door, !.flap = c.flap, !.check = c.check])
    BY <1>12 DEF FormSensors, LastScreen
  <2> DEFINE o == [pending[f] EXCEPT !.door = c.door, !.flap = c.flap, !.check = c.check]
  <2>2. /\ o \in Options /\ o.mode = pending[f].mode /\ o.value = pending[f].value
        /\ o.refresh = pending[f].refresh /\ o.door = c.door /\ o.check = c.check
    BY EntryAssumption DEF TypeOK, Options
  <2>3. CodeCoherent(o)
    BY <1>12, <2>2 DEF FormSensors, LastScreen, EntryInv, FlowInv, CodeCoherent
  <2>4. ScreenCoherent(o)
    BY <2>1, <2>2 DEF ScreenCoherent
  <2>5. version = 2 /\ UNCHANGED <<version, pc, link>> /\ Save(o)
    BY <1>12, <2>1 DEF FormSensors, LastScreen, LoopIsFree
  <2>6. VersionInv' /\ ReadInv' /\ LinkInv'
    <3> HIDE DEF o
    <3> QED BY <2>2, <2>3, <2>4, <2>5, SaveStep
  <2>7. /\ step' = [step EXCEPT ![f] = "closed"]
        /\ pending' = [pending EXCEPT ![f] = Default]
    BY <1>12 DEF FormSensors, LastScreen, Close, Goto
  <2>8. ASSUME NEW g \in Flows PROVE FlowInv(g)'
    BY <2>7 DEF EntryInv, FlowInv, CodeCoherent, TypeOK
  <2> QED BY <2>6, <2>8 DEF EntryInv
<1>13. ASSUME NEW f \in Flows, FormLeft(f) PROVE EntryInv'
  <2>1. /\ step' = [step EXCEPT ![f] = "closed"]
        /\ pending' = [pending EXCEPT ![f] = Default]
        /\ UNCHANGED <<version, options, pc, link, reloads, raced, legacy>>
    BY <1>13 DEF FormLeft, Close, Goto
  <2>2. version = 2
    BY <1>13, <1>v DEF FormLeft, EntryInv, VersionInv
  <2>3. VersionInv' /\ ReadInv' /\ LinkInv'
    BY <2>1, <2>2, SameOptionsInv
       DEF EntryInv, ReadInv, LinkInv, CodeCoherent, ScreenCoherent
  <2>4. ASSUME NEW g \in Flows PROVE FlowInv(g)'
    BY <2>1 DEF EntryInv, FlowInv, CodeCoherent, TypeOK
  <2> QED BY <2>3, <2>4 DEF EntryInv
<1>14. CASE UNCHANGED vars
  <2>1. VersionInv' /\ ReadInv' /\ LinkInv'
    BY <1>14 DEF vars, flows, EntryInv, VersionInv, ReadInv, LinkInv, CodeCoherent, ScreenCoherent
  <2> QED BY <1>14, <2>1, SameFlows DEF vars, EntryInv
<1> QED
  BY <1>1, <1>2, <1>4, <1>5, <1>6, <1>7, <1>8, <1>9, <1>10, <1>11, <1>12, <1>13, <1>14
     DEF Next, SetUpStep, Form

-----------------------------------------------------------------------------
(* The theorems. *)

LEMMA InitInv == Init => TypeOK /\ EntryInv
<1> SUFFICES ASSUME Init PROVE TypeOK /\ EntryInv
  OBVIOUS
<1>1. options \in Options
  BY EntryAssumption DEF Init, Default, Options, Modes, Checks, Text
<1>2. TypeOK
  <2>1. /\ version \in 1..2 /\ legacy \in Codes \cup Refs \cup {None}
        /\ secrets \in [Names -> Text \cup {None}] /\ pool = {} /\ loaded = {}
        /\ pc = "off" /\ code = None /\ key = None
    BY DEF Init
  <2>2. changes \in 0..MaxChanges /\ reloads \in 0..changes
    BY EntryAssumption DEF Init
  <2>3. /\ step \in [Flows -> {"closed", "open_code", "sensors"}]
        /\ pending \in [Flows -> Options] /\ link \in Options
    BY DefaultType DEF Init
  <2>4. raced \in BOOLEAN
    BY DEF Init
  <2> QED BY <1>1, <2>1, <2>2, <2>3, <2>4 DEF TypeOK
<1>3. LinkInv /\ ReadInv /\ \A f \in Flows : FlowInv(f)
  BY DEF Init, LinkInv, ReadInv, FlowInv, CodeCoherent, Default
<1>4. version = 2 => CodeCoherent(options) /\ ScreenCoherent(options)
  BY DEF Init, Default, CodeCoherent, ScreenCoherent
<1>5. VersionInv
  BY <1>4 DEF Init, VersionInv
<1> QED BY <1>2, <1>3, <1>5 DEF EntryInv

LEMMA Invariant == Spec => [](TypeOK /\ EntryInv)
BY InitInv, TypeStep, InvStep, PTL DEF Spec

\* The types, for any number of flows and changes.
THEOREM TypeCorrect == Spec => []TypeOK
BY Invariant, PTL

\* What is saved holds together, whatever flows overlap and whatever becomes of
\* secrets.yaml while they are open.
THEOREM OptionsCoherentHolds == Spec => []OptionsCoherent
<1>1. TypeOK /\ EntryInv => OptionsCoherent
  BY DEF EntryInv, VersionInv, CodeCoherent, ScreenCoherent, OptionsCoherent
<1> QED BY Invariant, <1>1, PTL

\* A link with the entities of the log reads the log, although its options are read
\* at three points of set-up and may be saved in between.
THEOREM JournalIsFedHolds == Spec => []JournalIsFed
<1>1. TypeOK /\ EntryInv => JournalIsFed
  BY DEF EntryInv, LinkInv, ScreenCoherent, JournalIsFed, Serving
<1> QED BY Invariant, <1>1, PTL

\* A link at rest is built from the options that are saved, unless they were saved
\* while it was being built.
THEOREM AppliedUnlessRacedHolds == Spec => []AppliedUnlessRaced
<1>1. TypeOK /\ EntryInv => AppliedUnlessRaced
  BY DEF EntryInv, ReadInv, AppliedUnlessRaced, Settled
<1> QED BY Invariant, <1>1, PTL

\* The migration keeps what the open code stands for.
THEOREM MigrationKeepsCodeHolds == Spec => []MigrationKeepsCode
<1>1. ASSUME TypeOK, EntryInv, version = 2, legacy # None
      PROVE  ResolveMode(options.mode, options.value) = Resolve(legacy)
  <2> DEFINE o == [Default EXCEPT !.value = legacy]
  <2>1. options = Migrated(o) /\ o.value = legacy /\ o \in Options
    BY <1>1, EntryAssumption DEF EntryInv, VersionInv, Default, TypeOK, Options, Modes, Checks, Text
  <2>2. CASE legacy \in Refs
    <3>1. options = [o EXCEPT !.mode = "secret", !.value = NameIn(legacy)]
      BY <2>1, <2>2, <1>1 DEF Migrated
    <3>2. options.mode = "secret" /\ options.value = NameIn(legacy)
      BY <3>1 DEF Default
    <3>3. NameIn(legacy) # None
      BY <2>2, NameOfRef, EntryAssumption
    <3> QED BY <2>2, <3>2, <3>3 DEF Resolve, ResolveMode
  <2>3. CASE legacy \notin Refs
    <3>1. options = [o EXCEPT !.mode = "direct"]
      BY <2>1, <2>3, <1>1 DEF Migrated
    <3>2. options.mode = "direct" /\ options.value = legacy
      BY <2>1, <3>1 DEF Options
    <3> QED BY <2>3, <3>2 DEF Resolve, ResolveMode
  <2> QED BY <2>2, <2>3
<1>2. TypeOK /\ EntryInv => MigrationKeepsCode
  BY <1>1 DEF MigrationKeepsCode
<1> QED BY Invariant, <1>2, PTL
=============================================================================
