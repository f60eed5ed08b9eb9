--------------------------- MODULE OpenDoorProofs ---------------------------
(***************************************************************************)
(* Theorems about OpenDoor for every set of presses and of codes, every    *)
(* initial pool without repetition and any number of crashes: the types,   *)
(* the future of the lock, then what a success is worth (Earned), what the *)
(* order of the presses keeps true of the pool (PoolOrder), and that the   *)
(* presses implement OtpLedger.                                            *)
(***************************************************************************)
EXTENDS OpenDoor, FiniteSetTheorems, SequenceTheorems, TLAPS

\* Removing one element of a sequence leaves a sequence over the same set.
LEMMA RemoveAtType ==
    ASSUME NEW S, NEW s \in Seq(S), NEW i \in DOMAIN s
    PROVE  RemoveAt(s, i) \in Seq(S)
  BY DEF RemoveAt

\* The head and the tail of a queue, a pool or the answers under way.
LEMMA HeadTailType ==
    ASSUME NEW S, NEW s \in Seq(S), s # <<>>
    PROVE  Head(s) \in S /\ Tail(s) \in Seq(S)
  OBVIOUS

LEMMA EmptyType == ASSUME NEW S PROVE <<>> \in Seq(S)
  OBVIOUS

\* The answers under way are kept or lost.
LEMMA AirType ==
    ASSUME TypeOK, air' \in {air, <<>>}
    PROVE  air' \in Seq([press : Presses, valid : BOOLEAN])
<1>1. air \in Seq([press : Presses, valid : BOOLEAN])
  BY DEF TypeOK
<1>2. <<>> \in Seq([press : Presses, valid : BOOLEAN])
  BY EmptyType
<1> QED BY <1>1, <1>2

\* async_commit_use keeps the types, whatever it finds in the pool.
LEMMA CommitType ==
    ASSUME TypeOK, NEW p \in Presses, Commit(p)
    PROVE  /\ pool' \in Seq(Codes)
           /\ pc' \in [Presses -> PC]
           /\ outcome' \in [Presses -> Outcome]
<1>1. CASE OneTime /\ code[p] \in ToSet(pool)
  <2>1. PICK i \in DOMAIN pool : pool' = RemoveAt(pool, i)
    BY <1>1 DEF Commit
  <2> QED BY <1>1, <2>1, RemoveAtType DEF Commit, Goto, TypeOK, PC
<1>2. CASE ~(OneTime /\ code[p] \in ToSet(pool))
  BY <1>2 DEF Commit, Report, Goto, TypeOK, PC, Outcome
<1> QED BY <1>1, <1>2

\* A step keeps the types.  An answer is confirmed to the holder of the lock,
\* which has to be a press: TypeOK alone is not inductive.
LEMMA TypeStep == TypeOK /\ OneFuture /\ [Next]_vars => TypeOK'
<1> USE OpenDoorAssumption DEF store, link, lock, history
<1> SUFFICES ASSUME TypeOK, OneFuture, [Next]_vars PROVE TypeOK'
  OBVIOUS
<1> USE DEF TypeOK
<1> USE DEF PC, HeldPC, TempPC, LockedPC, Outcome
<1>1. ASSUME NEW p \in Presses, Press(p) PROVE TypeOK'
  <2>1. CASE OneTime /\ pool = <<>>
    BY <1>1, <2>1 DEF Press, Report, Goto
  <2>2. CASE ~(OneTime /\ pool = <<>>)
    <3>1. code' \in [Presses -> Codes]
      <4>1. OneTime => Head(pool) \in Codes
        BY <2>2, HeadTailType DEF TypeOK
      <4>2. code' = [code EXCEPT ![p] = IF OneTime THEN Head(pool) ELSE Permanent]
        BY <1>1, <2>2 DEF Press
      <4> QED BY <4>1, <4>2 DEF TypeOK
    <3>2. CASE owner = NoPress /\ queue = <<>>
      BY <1>1, <2>2, <3>1, <3>2 DEF Press, Begin, Goto
    <3>3. CASE ~(owner = NoPress /\ queue = <<>>)
      <4>1. queue' = Append(queue, p) /\ pc' = [pc EXCEPT ![p] = "queued"]
            /\ UNCHANGED <<owner, future, answerer, outcome>>
        BY <1>1, <2>2, <3>3 DEF Press, Goto
      <4>2. queue' \in Seq(Presses)
        BY <4>1 DEF TypeOK
      <4> QED BY <1>1, <3>1, <4>1, <4>2 DEF Press
    <3> QED BY <3>2, <3>3
  <2> QED BY <2>1, <2>2
<1>2. ASSUME Acquire PROVE TypeOK'
  <2>1. Head(queue) \in Presses /\ Tail(queue) \in Seq(Presses)
    BY <1>2 DEF Acquire
  <2> QED BY <1>2, <2>1 DEF Acquire, Begin, Goto
<1>3. ASSUME Deliver PROVE TypeOK'
  <2>1. Head(air) \in [press : Presses, valid : BOOLEAN]
        /\ Tail(air) \in Seq([press : Presses, valid : BOOLEAN])
    BY <1>3, HeadTailType DEF Deliver
  <2>2. CASE future = "pending"
    <3>1. confirmed' \subseteq Presses
      <4>1. owner \in Presses
        BY <2>2 DEF OneFuture
      <4> QED BY <1>3, <4>1 DEF Deliver
    <3> QED BY <1>3, <2>1, <2>2, <3>1 DEF Deliver
  <2>3. CASE future # "pending"
    BY <1>3, <2>1, <2>3 DEF Deliver
  <2> QED BY <2>2, <2>3
<1>4. ASSUME HeldConnect \/ HeldSubscribe \/ HeldDrop PROVE TypeOK'
  <2>1. air' \in Seq([press : Presses, valid : BOOLEAN])
        /\ held' \in {"down", "up", "sub"}
    <3>1. air' \in {air, <<>>} /\ held' \in {"down", "up", "sub"}
      BY <1>4 DEF HeldConnect, HeldSubscribe, HeldDrop
    <3> QED BY <3>1, AirType
  <2>2. UNCHANGED <<store, usable, lock, future, pc, code, failing, outcome,
                    crashes, history>>
    BY <1>4 DEF HeldConnect, HeldSubscribe, HeldDrop
  <2> QED BY <2>1, <2>2
<1>5. ASSUME Crash PROVE TypeOK'
  <2>1. outcome' \in [Presses -> Outcome]
    BY <1>5 DEF Crash
  <2>2. pc' \in [Presses -> PC]
    BY <1>5 DEF Crash
  <2>3. /\ pool' \in Seq(Codes) /\ air' \in Seq([press : Presses, valid : BOOLEAN])
        /\ queue' \in Seq(Presses)
    BY <1>5, EmptyType DEF Crash
  <2>4. /\ held' = "down" /\ owner' = NoPress /\ future' = "none"
        /\ answerer' = NoPress /\ failing' = {}
        /\ crashes' = crashes + 1 /\ crashes < MaxCrashes
        /\ UNCHANGED <<disk, usable, code, opened, confirmed, stolen, deaf, stale>>
    BY <1>5 DEF Crash
  <2> QED BY <2>1, <2>2, <2>3, <2>4
<1>6. ASSUME NEW p \in Presses, Fail(p),
             UNCHANGED <<usable, held, queue, code, crashes, opened, confirmed,
                         deaf, stale>>,
             air' \in {air, <<>>}, failing' \subseteq Presses
      PROVE TypeOK'
  <2>1. air' \in Seq([press : Presses, valid : BOOLEAN])
    BY <1>6, AirType
  <2> QED BY <1>6, <2>1 DEF Fail, Report, Goto
<1>7. ASSUME NEW p \in Presses, Resume(p),
             UNCHANGED <<usable, held, queue, code, crashes, opened, confirmed,
                         deaf, stale>>,
             air' \in {air, <<>>}, failing' \subseteq Presses
      PROVE TypeOK'
  <2>1. /\ pool' \in Seq(Codes) /\ pc' \in [Presses -> PC]
        /\ outcome' \in [Presses -> Outcome]
    BY <1>7, CommitType DEF Resume, Report, Goto
  <2>2. air' \in Seq([press : Presses, valid : BOOLEAN])
    BY <1>7, AirType
  <2> QED BY <1>7, <2>1, <2>2 DEF Resume
<1>8. ASSUME NEW p \in Presses, NEW listening, Receive(p, listening),
             UNCHANGED <<store, held, lock, future, code, failing, outcome,
                         crashes, confirmed, answerer, stolen>>,
             pc' \in [Presses -> PC]
      PROVE TypeOK'
  <2>1. air' \in Seq([press : Presses, valid : BOOLEAN])
    <3>1. \A v \in BOOLEAN : Append(air, [press |-> p, valid |-> v])
                             \in Seq([press : Presses, valid : BOOLEAN])
      OBVIOUS
    <3>2. CASE ~listening
      BY <1>8, <3>2 DEF Receive
    <3>3. CASE listening /\ code[p] \in usable
      <4>1. air' = Append(air, [press |-> p, valid |-> TRUE])
        BY <1>8, <3>3 DEF Receive
      <4> QED BY <3>1, <4>1
    <3>4. CASE listening /\ code[p] \notin usable
      <4>1. (code[p] \in usable) = FALSE
        BY <3>4
      <4>2. air' = Append(air, [press |-> p, valid |-> code[p] \in usable])
        BY <1>8, <3>4 DEF Receive
      <4>3. air' = Append(air, [press |-> p, valid |-> FALSE])
        BY <4>1, <4>2, Zenon
      <4> QED BY <3>1, <4>3
    <3> QED BY <3>2, <3>3, <3>4
  <2>2. /\ usable' \subseteq Codes /\ opened' \subseteq Presses
        /\ deaf' \subseteq Presses /\ stale' \subseteq Presses
    BY <1>8 DEF Receive
  <2> QED BY <1>8, <2>1, <2>2
<1>9. ASSUME NEW p \in Presses, Step(p) PROVE TypeOK'
  <2>1. CASE HeldReceive(p)
    BY <1>8, <2>1 DEF HeldReceive, Goto
  <2>2. CASE TempReceive(p)
    BY <1>8, <2>2 DEF TempReceive, Goto
  <2>3. CASE HeldFails(p) \/ ConnectFails(p) \/ CloseRaises(p)
    BY <1>6, <2>3 DEF HeldFails, ConnectFails, CloseRaises
  <2>4. CASE HeldAnswered(p)
    BY <1>7, <2>4 DEF HeldAnswered
  <2>5. CASE Close(p)
    BY <1>6, <1>7, <2>5 DEF Close
  <2>6. CASE HeldWritten(p) \/ Connect(p) \/ Subscribe(p) \/ TempWritten(p) \/ TempAnswered(p)
    BY <2>6 DEF HeldWritten, Connect, Subscribe, TempWritten, TempAnswered, Goto
  <2>7. CASE TempFails(p)
    BY <2>7 DEF TempFails, Goto
  <2>8. CASE Save(p)
    BY <2>8 DEF Save, Report, Goto
  <2> QED BY <1>9, <2>1, <2>2, <2>3, <2>4, <2>5, <2>6, <2>7, <2>8 DEF Step
<1>10. ASSUME UNCHANGED vars PROVE TypeOK'
  BY <1>10 DEF vars
<1> QED BY <1>1, <1>2, <1>3, <1>4, <1>5, <1>9, <1>10 DEF Next

-----------------------------------------------------------------------------
\* The press p leaves the lock it holds, or a step moves it inside the lock.
Leaves(p) ==
    /\ owner' = NoPress /\ future' = "none"
    /\ \E label \in {"saving", "done"} : pc' = [pc EXCEPT ![p] = label]

Inside(p) ==
    /\ UNCHANGED <<owner, future>>
    /\ \E label \in LockedPC : pc' = [pc EXCEPT ![p] = label]

\* Both keep one future, of the press inside the lock.
LEMMA LeavesKeeps ==
    ASSUME TypeOK, OneFuture, NEW p \in Presses, pc[p] \in LockedPC, Leaves(p)
    PROVE  OneFuture'
  BY OpenDoorAssumption DEF TypeOK, OneFuture, Leaves, LockedPC, HeldPC, TempPC

LEMMA InsideKeeps ==
    ASSUME TypeOK, OneFuture, NEW p \in Presses, pc[p] \in LockedPC, Inside(p)
    PROVE  OneFuture'
  BY OpenDoorAssumption DEF TypeOK, OneFuture, Inside

\* A press that takes the free lock is the only one inside.
LEMMA BeginKeeps ==
    ASSUME TypeOK, OneFuture, NEW p \in Presses, owner = NoPress, Begin(p)
    PROVE  OneFuture'
  BY OpenDoorAssumption DEF TypeOK, OneFuture, Begin, Goto, LockedPC, HeldPC, TempPC

\* Whatever a press does once it has begun, it moves inside the lock, leaves it,
\* or is already out of it.
LEMMA StepMoves ==
    ASSUME TypeOK, NEW p \in Presses, Step(p)
    PROVE  \/ pc[p] \in LockedPC /\ (Leaves(p) \/ Inside(p))
           \/ pc[p] = "saving" /\ pc' = [pc EXCEPT ![p] = "done"] /\ UNCHANGED <<owner, future>>
<1> USE DEF lock, LockedPC, HeldPC, TempPC, Goto
<1>1. ASSUME Fail(p) PROVE Leaves(p)
  BY <1>1 DEF Fail, Leaves, Report
<1>2. ASSUME Commit(p), owner' = NoPress, future' = "none" PROVE Leaves(p)
  BY <1>2 DEF Commit, Leaves, Report
<1>3. ASSUME Resume(p) PROVE Leaves(p)
  BY <1>2, <1>3 DEF Resume, Leaves, Report
<1>4. CASE HeldReceive(p) \/ HeldWritten(p) \/ Connect(p) \/ Subscribe(p)
           \/ TempReceive(p) \/ TempWritten(p) \/ TempAnswered(p) \/ TempFails(p)
  BY <1>4 DEF Inside, HeldReceive, HeldWritten, Connect, Subscribe, TempReceive,
              TempWritten, TempAnswered, TempFails, history
<1>5. CASE HeldFails(p) \/ ConnectFails(p) \/ CloseRaises(p)
  BY <1>1, <1>5 DEF HeldFails, ConnectFails, CloseRaises
<1>6. CASE HeldAnswered(p) \/ Close(p)
  BY <1>1, <1>3, <1>6 DEF HeldAnswered, Close
<1>7. CASE Save(p)
  BY <1>7 DEF Save, Report
<1> QED BY <1>4, <1>5, <1>6, <1>7 DEF Step

\* A step keeps one future.
LEMMA FutureStep == TypeOK /\ OneFuture /\ [Next]_vars => OneFuture'
<1> USE OpenDoorAssumption
<1> SUFFICES ASSUME TypeOK, OneFuture, [Next]_vars PROVE OneFuture'
  OBVIOUS
<1>1. ASSUME NEW p \in Presses, Press(p) PROVE OneFuture'
  <2>1. CASE owner = NoPress /\ Begin(p)
    BY <2>1, BeginKeeps
  <2>2. CASE UNCHANGED <<owner, future>>
             /\ \E label \in {"queued", "done"} : pc' = [pc EXCEPT ![p] = label]
    BY <1>1, <2>2 DEF Press, OneFuture, TypeOK, LockedPC, HeldPC, TempPC
  <2> QED BY <1>1, <2>1, <2>2 DEF Press, Report, Goto, lock
<1>2. ASSUME Acquire PROVE OneFuture'
  <2>1. Head(queue) \in Presses
    BY <1>2 DEF Acquire, TypeOK
  <2> QED BY <1>2, <2>1, BeginKeeps DEF Acquire
<1>3. ASSUME Deliver PROVE OneFuture'
  BY <1>3 DEF Deliver, OneFuture, lock
<1>4. ASSUME NEW p \in Presses, Step(p) PROVE OneFuture'
  <2>1. CASE pc[p] \in LockedPC /\ (Leaves(p) \/ Inside(p))
    BY <2>1, LeavesKeeps, InsideKeeps
  <2>2. CASE /\ pc[p] = "saving" /\ pc' = [pc EXCEPT ![p] = "done"]
             /\ UNCHANGED <<owner, future>>
    BY <2>2 DEF OneFuture, TypeOK, LockedPC, HeldPC, TempPC
  <2> QED BY <1>4, <2>1, <2>2, StepMoves
<1>5. ASSUME HeldConnect \/ HeldSubscribe \/ HeldDrop PROVE OneFuture'
  BY <1>5 DEF HeldConnect, HeldSubscribe, HeldDrop, OneFuture, lock
<1>6. ASSUME Crash PROVE OneFuture'
  BY <1>6 DEF Crash, OneFuture, TypeOK, LockedPC, HeldPC, TempPC
<1>7. ASSUME UNCHANGED vars PROVE OneFuture'
  BY <1>7 DEF vars, lock, OneFuture
<1> QED BY <1>1, <1>2, <1>3, <1>4, <1>5, <1>6, <1>7 DEF Next

-----------------------------------------------------------------------------
\* The inductive invariant: neither half is inductive without the other.
LEMMA BothHold == Spec => [](TypeOK /\ OneFuture)
<1>1. Init => TypeOK /\ OneFuture
  BY OpenDoorAssumption
     DEF Init, TypeOK, OneFuture, PC, Outcome, LockedPC, HeldPC, TempPC
<1>2. (TypeOK /\ OneFuture) /\ [Next]_vars => (TypeOK /\ OneFuture)'
  BY TypeStep, FutureStep
<1> QED BY <1>1, <1>2, PTL DEF Spec

\* Each variable keeps its type through presses, answers, losses and crashes
\* (async_open_door and what it calls).
THEOREM TypeCorrect == Spec => []TypeOK
  BY BothHold, PTL

\* One future at a time, that of the press inside the lock: _open_result is never
\* shared nor left behind, however presses, answers and crashes interleave
\* (async_open_door, _async_open_via_temp_session, _open_lock).
THEOREM OneFutureHolds == Spec => []OneFuture
  BY BothHold, PTL

-----------------------------------------------------------------------------
(* What the rest rests on: every step has one of the shapes below, which name *)
(* the variables the invariants read and hide which BLE operation it was.     *)

\* Where the command of a press has not reached the mailbox yet.
NotSent == {"idle", "queued", "writing", "connecting", "subscribing", "tempWriting"}

\* Answers leave the air from its front, or all at once with the link.
AirShrinks ==
    \E k \in Nat : \A i \in DOMAIN air' :
        i \in Nat /\ i + k \in DOMAIN air /\ air'[i] = air[i + k]

\* Nothing is decided: a press goes on inside the lock, the link changes, or an
\* answer is dropped.
Quiet ==
    /\ UNCHANGED <<pool, disk, usable, owner, queue, future, answerer, code,
                   outcome, opened>>
    /\ AirShrinks
    /\ \/ pc' = pc
       \/ \E p \in Presses, label \in LockedPC :
              /\ pc[p] \in LockedPC /\ pc' = [pc EXCEPT ![p] = label]
              /\ label \in NotSent => pc[p] \in NotSent

\* A press finds the pool empty.
Empties(p) ==
    /\ pc[p] = "idle" /\ Report(p, "failed")
    /\ UNCHANGED <<pool, disk, usable, owner, queue, future, answerer, code, air, opened>>

\* A press reads its code.
Reads(p) ==
    /\ pc[p] = "idle" /\ (OneTime => pool # <<>>)
    /\ code' = [code EXCEPT ![p] = IF OneTime THEN Head(pool) ELSE Permanent]
    /\ UNCHANGED <<pool, disk, usable, outcome, air, opened>>

\* It waits for the lock, or takes it at once.
Waits(p) ==
    /\ Reads(p) /\ ~(owner = NoPress /\ queue = <<>>)
    /\ queue' = Append(queue, p) /\ Goto(p, "queued")
    /\ UNCHANGED <<owner, future, answerer>>

Enters(p) ==
    /\ Reads(p) /\ owner = NoPress /\ queue = <<>>
    /\ Begin(p) /\ UNCHANGED queue

\* The lock is handed over.
Handed ==
    /\ owner = NoPress /\ queue # <<>>
    /\ Begin(Head(queue)) /\ queue' = Tail(queue)
    /\ UNCHANGED <<pool, disk, usable, code, outcome, air, opened>>

\* An answer settles the future.
Settles ==
    /\ air # <<>> /\ air' = Tail(air) /\ future = "pending"
    /\ future' = (IF Head(air).valid THEN "yes" ELSE "no")
    /\ answerer' = Head(air).press
    /\ UNCHANGED <<pool, disk, usable, owner, queue, pc, code, outcome, opened>>

\* The mailbox receives the command of p and opens, or refuses.
Sends(p) ==
    /\ pc[p] \in {"writing", "tempWriting"} /\ owner = p
    /\ \E label \in {"written", "tempWritten"} : Goto(p, label)
    /\ UNCHANGED <<pool, disk, owner, queue, future, answerer, code, outcome>>

Accepted(p) ==
    /\ Sends(p) /\ code[p] \in usable
    /\ opened' = opened \cup {p}
    /\ usable' = (IF OneTime THEN usable \ {code[p]} ELSE usable)
    /\ air' = air \/ air' = Append(air, [press |-> p, valid |-> TRUE])

Rejected(p) ==
    /\ Sends(p) /\ code[p] \notin usable
    /\ UNCHANGED <<opened, usable>>
    /\ air' = air \/ air' = Append(air, [press |-> p, valid |-> FALSE])

\* A press leaves the lock: it gives up, retires its code or has none to retire.
LetsGo(p) ==
    /\ pc[p] \in LockedPC /\ owner = p
    /\ owner' = NoPress /\ future' = "none" /\ answerer' = NoPress
    /\ UNCHANGED <<disk, usable, queue, code, opened>>
    /\ AirShrinks

GivesUp(p) ==
    /\ LetsGo(p) /\ UNCHANGED pool
    /\ \E result \in {"failed", "refused"} : Report(p, result)

Retires(p) ==
    /\ LetsGo(p) /\ future = "yes"
    /\ OneTime
    /\ \E i \in DOMAIN pool : pool[i] = code[p] /\ pool' = RemoveAt(pool, i)
    /\ Goto(p, "saving") /\ UNCHANGED outcome

Uses(p) ==
    /\ LetsGo(p) /\ future = "yes" /\ UNCHANGED pool
    /\ ~(OneTime /\ code[p] \in ToSet(pool))
    /\ Report(p, "opened")

\* The store is written.
Saves(p) ==
    /\ pc[p] = "saving" /\ disk' = pool /\ Report(p, "opened")
    /\ UNCHANGED <<pool, usable, owner, queue, future, answerer, code, air, opened>>

PressShape(p) ==
    \/ Empties(p) \/ Waits(p) \/ Enters(p)
    \/ Accepted(p) \/ Rejected(p)
    \/ GivesUp(p) \/ Retires(p) \/ Uses(p) \/ Saves(p)

Shape == Quiet \/ Handed \/ Settles \/ Crash \/ \E p \in Presses : PressShape(p)

\* The answers under way are kept, lost, or lose the first.
LEMMA AirSame == ASSUME TypeOK, UNCHANGED air PROVE AirShrinks
<1>1. \A i \in DOMAIN air' : i \in Nat /\ i + 0 \in DOMAIN air /\ air'[i] = air[i + 0]
  BY DEF TypeOK
<1> QED BY <1>1 DEF AirShrinks

LEMMA AirLost == ASSUME air' = <<>> PROVE AirShrinks
<1>1. DOMAIN air' = {}
  OBVIOUS
<1>2. \A i \in DOMAIN air' : i \in Nat /\ i + 0 \in DOMAIN air /\ air'[i] = air[i + 0]
  BY <1>1
<1> QED BY <1>2 DEF AirShrinks

LEMMA AirTail == ASSUME TypeOK, air # <<>>, air' = Tail(air) PROVE AirShrinks
<1>1. \A i \in DOMAIN air' : i \in Nat /\ i + 1 \in DOMAIN air /\ air'[i] = air[i + 1]
  BY DEF TypeOK
<1> QED BY <1>1 DEF AirShrinks

\* Every step has a shape.
LEMMA StepShape == ASSUME TypeOK, OneFuture, NEW p \in Presses, Step(p)
                   PROVE  Quiet \/ PressShape(p)
<1> USE OpenDoorAssumption DEF store, link, lock, history, PressShape
<1>1. CASE HeldReceive(p) \/ TempReceive(p)
  <2>1. Sends(p)
    BY <1>1 DEF HeldReceive, TempReceive, Receive, Sends, OneFuture, LockedPC,
                HeldPC, TempPC, Goto
  <2>2. PICK listening : Receive(p, listening)
    BY <1>1 DEF HeldReceive, TempReceive
  <2>3. CASE code[p] \in usable
    <3>1. (code[p] \in usable) = TRUE
      BY <2>3
    <3>2. air' = air \/ air' = Append(air, [press |-> p, valid |-> code[p] \in usable])
      BY <2>2 DEF Receive
    <3>3. air' = air \/ air' = Append(air, [press |-> p, valid |-> TRUE])
      BY <3>1, <3>2, Zenon
    <3>4. opened' = opened \cup {p}
          /\ usable' = (IF OneTime THEN usable \ {code[p]} ELSE usable)
      BY <2>2, <2>3 DEF Receive
    <3> QED BY <2>1, <2>3, <3>3, <3>4 DEF Accepted
  <2>4. CASE code[p] \notin usable
    <3>1. (code[p] \in usable) = FALSE
      BY <2>4
    <3>2. air' = air \/ air' = Append(air, [press |-> p, valid |-> code[p] \in usable])
      BY <2>2 DEF Receive
    <3>3. air' = air \/ air' = Append(air, [press |-> p, valid |-> FALSE])
      BY <3>1, <3>2, Zenon
    <3>4. UNCHANGED <<opened, usable>>
      BY <2>2, <2>4 DEF Receive
    <3> QED BY <2>1, <2>4, <3>3, <3>4 DEF Rejected
  <2> QED BY <2>3, <2>4
<1>2. CASE HeldWritten(p) \/ Connect(p) \/ Subscribe(p) \/ TempWritten(p)
           \/ TempAnswered(p) \/ TempFails(p)
  <2>1. UNCHANGED <<pool, disk, usable, owner, queue, future, answerer, code,
                    outcome, opened, air>>
    BY <1>2 DEF HeldWritten, Connect, Subscribe, TempWritten, TempAnswered, TempFails
  <2>2. \E label \in LockedPC :
              /\ pc[p] \in LockedPC /\ pc' = [pc EXCEPT ![p] = label]
              /\ label \in NotSent => pc[p] \in NotSent
    BY <1>2 DEF HeldWritten, Connect, Subscribe, TempWritten, TempAnswered, TempFails,
                Goto, LockedPC, HeldPC, TempPC, NotSent
  <2> QED BY <2>1, <2>2, AirSame DEF Quiet
<1>3. ASSUME Fail(p), pc[p] \in LockedPC,
             UNCHANGED <<usable, queue, code, opened>>, AirShrinks
      PROVE GivesUp(p)
  BY <1>3 DEF Fail, GivesUp, LetsGo, OneFuture
<1>4. ASSUME Resume(p), pc[p] \in LockedPC,
             UNCHANGED <<usable, queue, code, opened>>, AirShrinks
      PROVE GivesUp(p) \/ Retires(p) \/ Uses(p)
  <2>1. LetsGo(p)
    BY <1>4 DEF Resume, LetsGo, OneFuture
  <2>2. CASE future # "yes"
    BY <1>4, <2>1, <2>2 DEF Resume, GivesUp
  <2>3. CASE future = "yes" /\ OneTime /\ code[p] \in ToSet(pool)
    BY <1>4, <2>1, <2>3 DEF Resume, Commit, Retires
  <2>4. CASE future = "yes" /\ ~(OneTime /\ code[p] \in ToSet(pool))
    BY <1>4, <2>1, <2>4 DEF Resume, Commit, Uses
  <2> QED BY <2>2, <2>3, <2>4
<1>5. CASE HeldFails(p) \/ ConnectFails(p) \/ CloseRaises(p)
  BY <1>3, <1>5, AirSame, AirLost DEF HeldFails, ConnectFails, CloseRaises, LockedPC, HeldPC, TempPC
<1>6. CASE HeldAnswered(p)
  BY <1>4, <1>6, AirSame DEF HeldAnswered, LockedPC, HeldPC, TempPC
<1>7. CASE Close(p)
  BY <1>3, <1>4, <1>7, AirLost DEF Close, LockedPC, HeldPC, TempPC
<1>8. CASE Save(p)
  BY <1>8 DEF Save, Saves
<1> QED BY <1>1, <1>2, <1>5, <1>6, <1>7, <1>8 DEF Step

LEMMA NextShape == TypeOK /\ OneFuture /\ [Next]_vars => Shape
<1> USE OpenDoorAssumption DEF store, link, lock, history, Shape
<1> SUFFICES ASSUME TypeOK, OneFuture, [Next]_vars PROVE Shape
  OBVIOUS
<1>1. ASSUME NEW p \in Presses, Press(p) PROVE PressShape(p)
  <2>1. CASE OneTime /\ pool = <<>>
    BY <1>1, <2>1 DEF Press, PressShape, Empties
  <2>2. CASE ~(OneTime /\ pool = <<>>)
    <3>1. Reads(p)
      BY <1>1, <2>2 DEF Press, Reads
    <3>2. CASE owner = NoPress /\ queue = <<>>
      BY <1>1, <2>2, <3>1, <3>2 DEF Press, PressShape, Enters
    <3>3. CASE ~(owner = NoPress /\ queue = <<>>)
      BY <1>1, <2>2, <3>1, <3>3 DEF Press, PressShape, Waits
    <3> QED BY <3>2, <3>3
  <2> QED BY <2>1, <2>2
<1>2. ASSUME Acquire PROVE Handed
  BY <1>2 DEF Acquire, Handed
<1>3. ASSUME Deliver PROVE Settles \/ Quiet
  <2>1. CASE future = "pending"
    BY <1>3, <2>1 DEF Deliver, Settles
  <2>2. CASE future # "pending"
    BY <1>3, <2>2, AirTail DEF Deliver, Quiet
  <2> QED BY <2>1, <2>2
<1>4. ASSUME HeldConnect \/ HeldSubscribe \/ HeldDrop PROVE Quiet
  BY <1>4, AirSame, AirLost DEF HeldConnect, HeldSubscribe, HeldDrop, Quiet
<1>5. ASSUME UNCHANGED vars PROVE Quiet
  BY <1>5, AirSame DEF vars, Quiet
<1> QED BY <1>1, <1>2, <1>3, <1>4, <1>5, StepShape DEF Next

-----------------------------------------------------------------------------
(* Facts about sequences without repetition: the queue and the pool. *)

Distinct(s) == \A i, j \in DOMAIN s : s[i] = s[j] => i = j

\* Every element of ToSet has an index, and the other way round.
LEMMA ToSetIndex ==
    ASSUME NEW s
    PROVE  /\ \A x \in ToSet(s) : \E i \in DOMAIN s : s[i] = x
           /\ \A i \in DOMAIN s : s[i] \in ToSet(s)
  BY DEF ToSet

\* The lock is handed to the head of the queue, which leaves it.
LEMMA TailDistinct ==
    ASSUME NEW S, NEW s \in Seq(S), s # <<>>, Distinct(s)
    PROVE  /\ Distinct(Tail(s))
           /\ \A i \in DOMAIN Tail(s) : /\ i \in DOMAIN s /\ i + 1 \in DOMAIN s
                                        /\ Tail(s)[i] = s[i + 1] /\ Tail(s)[i] # Head(s)
           /\ 1 \in DOMAIN s /\ Head(s) = s[1]
<1>1. \A i \in DOMAIN Tail(s) : i \in DOMAIN s /\ i + 1 \in DOMAIN s /\ Tail(s)[i] = s[i + 1]
  OBVIOUS
<1>2. 1 \in DOMAIN s /\ Head(s) = s[1]
  OBVIOUS
<1>3. \A i \in DOMAIN s : i \in Nat \ {0}
  OBVIOUS
<1>4. Distinct(Tail(s))
  <2> SUFFICES ASSUME NEW i \in DOMAIN Tail(s), NEW j \in DOMAIN Tail(s),
                      Tail(s)[i] = Tail(s)[j]
               PROVE  i = j
    BY DEF Distinct
  <2>1. i + 1 = j + 1
    BY <1>1 DEF Distinct
  <2> QED BY <1>1, <1>3, <2>1
<1>5. ASSUME NEW i \in DOMAIN Tail(s) PROVE Tail(s)[i] # Head(s)
  <2>1. i + 1 # 1
    BY <1>1, <1>3
  <2> QED BY <1>1, <1>2, <2>1 DEF Distinct
<1> QED BY <1>1, <1>2, <1>4, <1>5

\* A press joins the end of the queue.
LEMMA AppendDistinct ==
    ASSUME NEW S, NEW s \in Seq(S), NEW x \in S, Distinct(s), \A i \in DOMAIN s : s[i] # x
    PROVE  Distinct(Append(s, x))
<1>1. \A i \in DOMAIN Append(s, x) :
          \/ i \in DOMAIN s /\ Append(s, x)[i] = s[i]
          \/ i = Len(s) + 1 /\ Append(s, x)[i] = x
  OBVIOUS
<1> QED BY <1>1 DEF Distinct

\* async_commit_use takes one code out, and no copy of it stays.
LEMMA RemoveAtDistinct ==
    ASSUME NEW S, NEW s \in Seq(S), NEW i \in DOMAIN s, Distinct(s)
    PROVE  /\ Distinct(RemoveAt(s, i))
           /\ ToSet(RemoveAt(s, i)) = ToSet(s) \ {s[i]}
<1> DEFINE r == RemoveAt(s, i)
<1>1. /\ r \in Seq(S) /\ Len(r) = Len(s) - 1
      /\ \A j \in 1..Len(r) : r[j] = IF j < i THEN s[j] ELSE s[j + 1]
  <2> DEFINE before == SubSeq(s, 1, i - 1)
             after == SubSeq(s, i + 1, Len(s))
  <2>1. i \in 1..Len(s) /\ Len(s) \in Nat /\ \A j \in 1..Len(s) : s[j] \in S
    OBVIOUS
  <2>2. /\ before \in Seq(S) /\ Len(before) = i - 1
        /\ \A j \in 1..(i - 1) : before[j] = s[j]
    BY <2>1, SubSeqProperties
  <2>3. /\ after \in Seq(S) /\ Len(after) = Len(s) - i
        /\ \A j \in 1..(Len(s) - i) : after[j] = s[i + j]
    BY <2>1, SubSeqProperties
  <2>4. r = before \o after
    BY DEF RemoveAt
  <2> HIDE DEF before, after, r
  <2>5. /\ r \in Seq(S) /\ Len(r) = Len(before) + Len(after)
        /\ \A j \in 1..(Len(before) + Len(after)) :
              r[j] = IF j <= Len(before) THEN before[j] ELSE after[j - Len(before)]
    BY <2>2, <2>3, <2>4, ConcatProperties
  <2>6. Len(r) = Len(s) - 1
    BY <2>1, <2>2, <2>3, <2>5
  <2>7. ASSUME NEW j \in 1..Len(r) PROVE r[j] = IF j < i THEN s[j] ELSE s[j + 1]
    <3>1. CASE j < i
      <4>1. j \in 1..(i - 1) /\ j <= i - 1 /\ j \in 1..(Len(before) + Len(after))
        BY <2>1, <2>2, <2>5, <2>7, <3>1
      <4>2. r[j] = before[j]
        BY <2>2, <2>5, <4>1
      <4> QED BY <2>2, <3>1, <4>1, <4>2
    <3>2. CASE ~(j < i)
      <4>1. /\ j \in Int /\ j - (i - 1) \in 1..(Len(s) - i)
            /\ i + (j - (i - 1)) = j + 1 /\ ~(j <= i - 1)
        BY <2>1, <2>6, <2>7, <3>2
      <4>2. r[j] = after[j - (i - 1)]
        BY <2>1, <2>2, <2>3, <2>5, <2>7, <4>1
      <4>3. after[j - (i - 1)] = s[i + (j - (i - 1))]
        BY <2>3, <4>1
      <4> QED BY <3>2, <4>1, <4>2, <4>3
    <3> QED BY <3>1, <3>2
  <2> QED BY <2>5, <2>6, <2>7 DEF r
<1>2. i \in 1..Len(s) /\ DOMAIN s = 1..Len(s) /\ DOMAIN r = 1..Len(r) /\ Len(s) \in Nat
  BY <1>1
<1> HIDE DEF r
<1>3. Distinct(r)
  <2> DEFINE from(j) == IF j < i THEN j ELSE j + 1
  <2>1. \A j \in 1..Len(r) : from(j) \in 1..Len(s) /\ r[j] = s[from(j)]
    BY <1>1, <1>2
  <2>2. \A j, k \in 1..Len(r) : from(j) = from(k) => j = k
    BY <1>1, <1>2
  <2> HIDE DEF from
  <2>3. \A j, k \in 1..Len(r) : r[j] = r[k] => from(j) = from(k)
    BY <1>2, <2>1 DEF Distinct
  <2> QED BY <1>2, <2>2, <2>3 DEF Distinct
<1>4. ASSUME NEW x \in ToSet(r) PROVE x \in ToSet(s) \ {s[i]}
  <2>1. PICK j \in 1..Len(r) : r[j] = x
    BY <1>2, <1>4 DEF ToSet
  <2>2. CASE j < i
    <3>1. j \in DOMAIN s /\ j # i /\ x = s[j]
      BY <1>1, <1>2, <2>1, <2>2
    <3> QED BY <1>2, <3>1 DEF ToSet, Distinct
  <2>3. CASE ~(j < i)
    <3>1. j + 1 \in DOMAIN s /\ j + 1 # i /\ x = s[j + 1]
      BY <1>1, <1>2, <2>1, <2>3
    <3> QED BY <1>2, <3>1 DEF ToSet, Distinct
  <2> QED BY <2>2, <2>3
<1>5. ASSUME NEW x \in ToSet(s), x # s[i] PROVE x \in ToSet(r)
  <2>1. PICK j \in 1..Len(s) : s[j] = x
    BY <1>2, <1>5 DEF ToSet
  <2>2. CASE j < i
    <3>1. j \in DOMAIN r /\ r[j] = x
      BY <1>1, <1>2, <2>1, <2>2
    <3> QED BY <3>1 DEF ToSet
  <2>3. CASE j > i
    <3>1. j - 1 \in DOMAIN r /\ r[j - 1] = x
      BY <1>1, <1>2, <2>1, <2>3
    <3> QED BY <3>1 DEF ToSet
  <2> QED BY <1>2, <1>5, <2>1, <2>2, <2>3
<1>6. ToSet(r) = ToSet(s) \ {s[i]}
  BY <1>4, <1>5
<1> QED BY <1>3, <1>6 DEF r

\* The code a press reads is in the pool.
LEMMA HeadInSet ==
    ASSUME NEW S, NEW s \in Seq(S), s # <<>>
    PROVE  Head(s) \in ToSet(s)
<1>1. 1 \in DOMAIN s /\ Head(s) = s[1]
  OBVIOUS
<1> QED BY <1>1 DEF ToSet

-----------------------------------------------------------------------------
\* A press waits once for the lock, and reports when it ends.
LineUp ==
    /\ Distinct(queue)
    /\ \A i \in DOMAIN queue : pc[queue[i]] = "queued"
    /\ \A p \in Presses : outcome[p] # "none" => pc[p] = "done"

LEMMA LineUpStep ==
    ASSUME TypeOK, OneFuture, LineUp, Shape
    PROVE  LineUp'
<1> USE DEF TypeOK
<1>1. ASSUME NEW p \in Presses, UNCHANGED queue,
             \E label : pc' = [pc EXCEPT ![p] = label],
             pc[p] # "queued",
             \/ outcome' = outcome /\ pc[p] # "done"
             \/ pc'[p] = "done" /\ \E r : outcome' = [outcome EXCEPT ![p] = r]
      PROVE  LineUp'
  BY <1>1 DEF LineUp
<1>2. CASE Quiet
  <2>1. CASE pc' = pc
    BY <1>2, <2>1 DEF Quiet, LineUp
  <2>2. CASE pc' # pc
    BY <1>1, <1>2, <2>2 DEF Quiet, LockedPC, HeldPC, TempPC
  <2> QED BY <2>1, <2>2
<1>3. CASE Handed
  <2>1. Head(queue) \in Presses
    BY <1>3 DEF Handed
  <2>2. PICK label : label # "queued" /\ pc' = [pc EXCEPT ![Head(queue)] = label]
    BY <1>3 DEF Handed, Begin, Goto
  <2>3. pc[Head(queue)] = "queued"
    BY <1>3, TailDistinct DEF LineUp, Handed
  <2>4. /\ Distinct(queue')
        /\ \A i \in DOMAIN queue' : i + 1 \in DOMAIN queue /\ queue'[i] = queue[i + 1]
                                    /\ queue'[i] # Head(queue)
    BY <1>3, TailDistinct DEF Handed, LineUp
  <2>5. outcome' = outcome
    BY <1>3 DEF Handed
  <2> QED BY <2>1, <2>2, <2>3, <2>4, <2>5 DEF LineUp
<1>4. CASE Settles
  BY <1>4 DEF Settles, LineUp
<1>5. CASE Crash
  BY <1>5 DEF Crash, LineUp, Distinct
<1>6. ASSUME NEW p \in Presses, PressShape(p) PROVE LineUp'
  <2>1. CASE Waits(p)
    <3>1. /\ queue' = Append(queue, p) /\ pc[p] = "idle" /\ outcome' = outcome
          /\ pc' = [pc EXCEPT ![p] = "queued"]
      BY <2>1 DEF Waits, Reads, Goto
    <3>2. Distinct(queue')
      BY <3>1, AppendDistinct DEF LineUp
    <3>3. \A i \in DOMAIN queue' : pc'[queue'[i]] = "queued"
      <4>1. \A i \in DOMAIN Append(queue, p) :
                \/ Append(queue, p)[i] = p
                \/ i \in DOMAIN queue /\ Append(queue, p)[i] = queue[i]
        OBVIOUS
      <4> QED BY <3>1, <4>1 DEF LineUp
    <3> QED BY <3>1, <3>2, <3>3 DEF LineUp
  <2>2. CASE Empties(p)
    BY <1>1, <2>2 DEF Empties, Report, Goto
  <2>3. CASE Enters(p)
    BY <1>1, <2>3 DEF Enters, Reads, Begin, Goto
  <2>4. CASE Accepted(p) \/ Rejected(p)
    <3>1. Sends(p)
      BY <2>4 DEF Accepted, Rejected
    <3>2. PICK label : pc' = [pc EXCEPT ![p] = label]
      BY <3>1 DEF Sends, Goto
    <3> QED BY <1>1, <3>1, <3>2 DEF Sends
  <2>5. CASE GivesUp(p) \/ Uses(p)
    BY <1>1, <2>5 DEF GivesUp, Uses, LetsGo, Report, Goto, LockedPC, HeldPC, TempPC
  <2>6. CASE Retires(p)
    BY <1>1, <2>6 DEF Retires, LetsGo, Goto, LockedPC, HeldPC, TempPC
  <2>7. CASE Saves(p)
    BY <1>1, <2>7 DEF Saves, Report, Goto
  <2> QED BY <1>6, <2>1, <2>2, <2>3, <2>4, <2>5, <2>6, <2>7 DEF PressShape
<1> QED BY <1>2, <1>3, <1>4, <1>5, <1>6 DEF Shape

-----------------------------------------------------------------------------
\* One command per press, one answer per command, one use per answer: an answer
\* under way and the one in the future are to different presses, and those that
\* say yes are to presses whose command opened the door.
SentOnce ==
    /\ \A p \in Presses : pc[p] \in NotSent =>
           /\ p \notin opened /\ p # answerer
           /\ \A i \in DOMAIN air : air[i].press # p
    /\ \A i, j \in DOMAIN air : air[i].press = air[j].press => i = j
    /\ \A i \in DOMAIN air : /\ air[i].press # answerer
                             /\ air[i].valid => air[i].press \in opened
    /\ future = "yes" => answerer \in opened

\* What the type of the answers under way says of each.
LEMMA AirElement ==
    ASSUME TypeOK
    PROVE  /\ \A i \in DOMAIN air : /\ i \in Nat \ {0} /\ air[i].press \in Presses
                                    /\ air[i].valid \in BOOLEAN
           /\ DOMAIN air = 1..Len(air) /\ Len(air) \in Nat
           /\ air # <<>> => /\ 1 \in DOMAIN air /\ Head(air) = air[1]
                            /\ \A i \in DOMAIN Tail(air) :
                                   i + 1 \in DOMAIN air /\ Tail(air)[i] = air[i + 1]
<1>1. air \in Seq([press : Presses, valid : BOOLEAN])
  BY DEF TypeOK
<1>2. ASSUME NEW i \in DOMAIN air
      PROVE  i \in Nat \ {0} /\ air[i].press \in Presses /\ air[i].valid \in BOOLEAN
  <2>1. i \in 1..Len(air) /\ Len(air) \in Nat
    BY <1>1
  <2>2. air[i] \in [press : Presses, valid : BOOLEAN]
    BY <1>1, <2>1, ElementOfSeq
  <2> QED BY <2>1, <2>2
<1>3. DOMAIN air = 1..Len(air) /\ Len(air) \in Nat
  BY <1>1
<1>4. ASSUME air # <<>>
      PROVE  /\ 1 \in DOMAIN air /\ Head(air) = air[1]
             /\ \A i \in DOMAIN Tail(air) : i + 1 \in DOMAIN air /\ Tail(air)[i] = air[i + 1]
  BY <1>1, <1>4
<1> QED BY <1>2, <1>3, <1>4

LEMMA AirAppend ==
    ASSUME TypeOK, NEW p \in Presses, NEW v \in BOOLEAN,
           air' = air \/ air' = Append(air, [press |-> p, valid |-> v])
    PROVE  \A i \in DOMAIN air' :
               \/ i \in DOMAIN air /\ air'[i] = air[i]
               \/ i = Len(air) + 1 /\ air'[i].press = p /\ air'[i].valid = v
<1>1. \A i \in DOMAIN Append(air, [press |-> p, valid |-> v]) :
          \/ i \in DOMAIN air /\ Append(air, [press |-> p, valid |-> v])[i] = air[i]
          \/ i = Len(air) + 1
             /\ Append(air, [press |-> p, valid |-> v])[i] = [press |-> p, valid |-> v]
  BY DEF TypeOK
<1> QED BY <1>1

\* A step that sends nothing and settles nothing keeps them apart.
LEMMA SentOnceQuiet ==
    ASSUME TypeOK, SentOnce, AirShrinks, UNCHANGED opened,
           answerer' = answerer \/ answerer' = NoPress,
           future' = "yes" => future = "yes" /\ answerer' = answerer,
           \A p \in Presses : pc'[p] \in NotSent => pc[p] \in NotSent
    PROVE  SentOnce'
<1>1. PICK k \in Nat : \A i \in DOMAIN air' :
                           i \in Nat /\ i + k \in DOMAIN air /\ air'[i] = air[i + k]
  BY DEF AirShrinks
<1> QED BY <1>1, AirElement, OpenDoorAssumption DEF SentOnce

LEMMA SentOnceStep ==
    ASSUME TypeOK, OneFuture, LineUp, SentOnce, Shape
    PROVE  SentOnce'
<1> USE DEF TypeOK
<1>1. ASSUME NEW p \in Presses, NEW label, pc' = [pc EXCEPT ![p] = label],
             label \in NotSent => pc[p] \in NotSent, AirShrinks, UNCHANGED opened,
             \/ UNCHANGED <<future, answerer>>
             \/ answerer' = NoPress /\ future' # "yes"
      PROVE  SentOnce'
  BY <1>1, SentOnceQuiet
<1>2. CASE Quiet
  BY <1>2, SentOnceQuiet DEF Quiet
<1>3. CASE Handed
  <2>1. Head(queue) \in Presses /\ pc[Head(queue)] = "queued"
    BY <1>3, TailDistinct DEF Handed, LineUp
  <2> QED BY <1>1, <1>3, <2>1, AirSame DEF Handed, Begin, Goto, NotSent
<1>4. CASE Settles
  <2>1. /\ 1 \in DOMAIN air /\ air' = Tail(air) /\ answerer' = air[1].press
        /\ future' = (IF air[1].valid THEN "yes" ELSE "no")
        /\ UNCHANGED <<pc, opened>>
    BY <1>4, AirElement DEF Settles
  <2>2. \A i \in DOMAIN air' : i \in Nat \ {0} /\ i + 1 \in DOMAIN air /\ air'[i] = air[i + 1]
    BY <1>4, <2>1, AirElement DEF Settles
  <2>3. \A i \in DOMAIN air' : i + 1 # 1
    BY <2>2
  <2>4. \A i, j \in DOMAIN air' : i + 1 = j + 1 => i = j
    BY <2>2
  <2> QED BY <2>1, <2>2, <2>3, <2>4, AirElement DEF SentOnce
<1>5. CASE Crash
  BY <1>5, SentOnceQuiet, AirLost DEF Crash, NotSent
<1>6. ASSUME NEW p \in Presses, NEW v \in BOOLEAN, Sends(p),
             opened' = IF v THEN opened \cup {p} ELSE opened,
             air' = air \/ air' = Append(air, [press |-> p, valid |-> v])
      PROVE  SentOnce'
  <2>1. pc[p] \in NotSent /\ \A q \in Presses : pc'[q] \in NotSent => pc[q] \in NotSent /\ q # p
    BY <1>6 DEF Sends, Goto, NotSent
  <2>2. /\ p \notin opened /\ p # answerer /\ \A i \in DOMAIN air : air[i].press # p
    BY <2>1 DEF SentOnce
  <2>3. \A i \in DOMAIN air' :
            \/ i \in DOMAIN air /\ air'[i] = air[i]
            \/ i = Len(air) + 1 /\ air'[i].press = p /\ air'[i].valid = v
    BY <1>6, AirAppend
  <2>4. UNCHANGED <<future, answerer>>
    BY <1>6 DEF Sends
  <2> QED BY <1>6, <2>1, <2>2, <2>3, <2>4 DEF SentOnce
<1>7. ASSUME NEW p \in Presses, PressShape(p) PROVE SentOnce'
  <2>1. CASE Waits(p) \/ Enters(p) \/ Empties(p)
    BY <1>1, <2>1, AirSame DEF Waits, Enters, Empties, Reads, Begin, Report, Goto, NotSent
  <2>2. CASE Accepted(p)
    BY <1>6, <2>2 DEF Accepted
  <2>3. CASE Rejected(p)
    BY <1>6, <2>3 DEF Rejected
  <2>4. CASE GivesUp(p) \/ Uses(p) \/ Retires(p)
    BY <1>1, <2>4 DEF GivesUp, Uses, Retires, LetsGo, Report, Goto, NotSent
  <2>5. CASE Saves(p)
    BY <1>1, <2>5, AirSame DEF Saves, Report, Goto, NotSent
  <2> QED BY <1>7, <2>1, <2>2, <2>3, <2>4, <2>5 DEF PressShape
<1> QED BY <1>2, <1>3, <1>4, <1>5, <1>7 DEF Shape

-----------------------------------------------------------------------------
(* Presses report an opening at most as often as the mailbox has opened. *)

\* The presses whose positive answer is on its way or in the future, and those
\* that report an opening or are about to.
Unclaimed ==
    {air[i].press : i \in {j \in DOMAIN air : air[j].valid}}
        \cup (IF future = "yes" THEN {answerer} ELSE {})
Claimants == {p \in Presses : outcome[p] = "opened" \/ pc[p] = "saving"}

\* Every opening is claimed by one press at most, and those that are not claimed
\* yet are kept for the answers that remain.
Earned ==
    /\ IsFiniteSet(opened) /\ IsFiniteSet(Claimants) /\ Unclaimed \subseteq opened
    /\ Cardinality(Claimants) + Cardinality(Unclaimed) <= Cardinality(opened)

\* How a step may change the count.
LEMMA CountDrops ==
    ASSUME NEW C, NEW U, NEW O, NEW C1, NEW U1,
           IsFiniteSet(C), IsFiniteSet(O), U \subseteq O,
           Cardinality(C) + Cardinality(U) <= Cardinality(O),
           C1 \subseteq C, U1 \subseteq U
    PROVE  IsFiniteSet(C1) /\ Cardinality(C1) + Cardinality(U1) <= Cardinality(O)
<1>1. IsFiniteSet(U)
  BY FS_Subset
<1>2. IsFiniteSet(C1) /\ Cardinality(C1) <= Cardinality(C)
  BY FS_Subset
<1>3. IsFiniteSet(U1) /\ Cardinality(U1) <= Cardinality(U)
  BY <1>1, FS_Subset
<1> QED BY <1>1, <1>2, <1>3, FS_CardinalityType

LEMMA CountOpens ==
    ASSUME NEW C, NEW U, NEW O, NEW p, NEW U1,
           IsFiniteSet(C), IsFiniteSet(O), U \subseteq O,
           Cardinality(C) + Cardinality(U) <= Cardinality(O),
           p \notin O, U1 \subseteq U \cup {p}
    PROVE  /\ IsFiniteSet(O \cup {p})
           /\ Cardinality(C) + Cardinality(U1) <= Cardinality(O \cup {p})
<1>1. IsFiniteSet(U)
  BY FS_Subset
<1>2. IsFiniteSet(U \cup {p}) /\ Cardinality(U \cup {p}) = Cardinality(U) + 1
  BY <1>1, FS_AddElement
<1>3. IsFiniteSet(O \cup {p}) /\ Cardinality(O \cup {p}) = Cardinality(O) + 1
  BY FS_AddElement
<1>4. IsFiniteSet(U1) /\ Cardinality(U1) <= Cardinality(U \cup {p})
  BY <1>2, FS_Subset
<1> QED BY <1>1, <1>2, <1>3, <1>4, FS_CardinalityType

LEMMA CountClaims ==
    ASSUME NEW C, NEW U, NEW O, NEW p, NEW a, NEW U1,
           IsFiniteSet(C), IsFiniteSet(O), U \subseteq O,
           Cardinality(C) + Cardinality(U) <= Cardinality(O),
           a \in U, U1 \subseteq U \ {a}
    PROVE  /\ IsFiniteSet(C \cup {p})
           /\ Cardinality(C \cup {p}) + Cardinality(U1) <= Cardinality(O)
<1>1. IsFiniteSet(U)
  BY FS_Subset
<1>2. /\ IsFiniteSet(C \cup {p})
      /\ Cardinality(C \cup {p}) = Cardinality(C) \/ Cardinality(C \cup {p}) = Cardinality(C) + 1
  BY FS_AddElement
<1>3. IsFiniteSet(U \ {a}) /\ Cardinality(U \ {a}) = Cardinality(U) - 1
  BY <1>1, FS_RemoveElement
<1>4. IsFiniteSet(U1) /\ Cardinality(U1) <= Cardinality(U \ {a})
  BY <1>3, FS_Subset
<1> QED BY <1>1, <1>2, <1>3, <1>4, FS_CardinalityType

\* An answer dropped, lost or delivered belongs to what was unclaimed.
LEMMA UnclaimedShrinks ==
    ASSUME AirShrinks, future' = "yes" => future = "yes" /\ answerer' = answerer
    PROVE  Unclaimed' \subseteq Unclaimed
<1>1. PICK k \in Nat : \A i \in DOMAIN air' :
                           i \in Nat /\ i + k \in DOMAIN air /\ air'[i] = air[i + k]
  BY DEF AirShrinks
<1> QED BY <1>1 DEF Unclaimed

LEMMA UnclaimedIsOpened ==
    ASSUME SentOnce PROVE Unclaimed \subseteq opened
  BY DEF Unclaimed, SentOnce

LEMMA EarnedStep ==
    ASSUME TypeOK, OneFuture, LineUp, SentOnce, SentOnce', Earned, Shape
    PROVE  Earned'
<1>1. Unclaimed' \subseteq opened'
  BY UnclaimedIsOpened, SentOnce' DEF SentOnce, Unclaimed
<1>2. ASSUME UNCHANGED opened, Claimants' \subseteq Claimants,
             Unclaimed' \subseteq Unclaimed
      PROVE  Earned'
  BY <1>1, <1>2, CountDrops DEF Earned
<1>3. ASSUME AirShrinks, UNCHANGED opened,
             future' = "yes" => future = "yes" /\ answerer' = answerer,
             \A p \in Presses : \/ outcome'[p] # "opened" /\ pc'[p] # "saving"
                                \/ outcome[p] = "opened" \/ pc[p] = "saving"
      PROVE  Earned'
  <2>1. Claimants' \subseteq Claimants
    BY <1>3 DEF Claimants
  <2> QED BY <1>2, <1>3, <2>1, UnclaimedShrinks
<1>4. CASE Quiet
  BY <1>3, <1>4 DEF Quiet, LockedPC, HeldPC, TempPC, TypeOK
<1>5. CASE Handed
  BY <1>3, <1>5, AirSame DEF Handed, Begin, Goto, TypeOK
<1>6. CASE Settles
  <2>1. Claimants' = Claimants
    BY <1>6 DEF Settles, Claimants
  <2>2. /\ 1 \in DOMAIN air /\ Head(air) = air[1]
        /\ \A i \in DOMAIN air' : i + 1 \in DOMAIN air /\ air'[i] = air[i + 1]
    BY <1>6, AirElement DEF Settles
  <2>3. Unclaimed' \subseteq Unclaimed
    BY <1>6, <2>2 DEF Settles, Unclaimed
  <2> QED BY <1>2, <1>6, <2>1, <2>3 DEF Settles
<1>7. CASE Crash
  BY <1>3, <1>7, AirLost DEF Crash, TypeOK
<1>8. ASSUME NEW p \in Presses, PressShape(p) PROVE Earned'
  <2>1. CASE Waits(p) \/ Enters(p) \/ Empties(p)
    BY <1>3, <2>1, AirSame DEF Waits, Enters, Empties, Reads, Begin, Report, Goto, TypeOK
  <2>2. CASE Accepted(p)
    <3>1. p \notin opened /\ opened' = opened \cup {p}
      BY <2>2 DEF Accepted, Sends, SentOnce, NotSent
    <3>2. Claimants' = Claimants
      BY <2>2 DEF Accepted, Sends, Goto, Claimants, TypeOK
    <3>3. \A i \in DOMAIN air' :
              \/ i \in DOMAIN air /\ air'[i] = air[i]
              \/ air'[i].press = p
      BY <2>2, AirAppend DEF Accepted
    <3>4. Unclaimed' \subseteq Unclaimed \cup {p}
      BY <2>2, <3>3 DEF Accepted, Sends, Unclaimed
    <3> QED BY <1>1, <3>1, <3>2, <3>4, CountOpens DEF Earned
  <2>3. CASE Rejected(p)
    <3>1. Claimants' = Claimants /\ UNCHANGED opened
      BY <2>3 DEF Rejected, Sends, Goto, Claimants, TypeOK
    <3>2. \A i \in DOMAIN air' :
              \/ i \in DOMAIN air /\ air'[i] = air[i]
              \/ air'[i].valid = FALSE
      BY <2>3, AirAppend DEF Rejected
    <3>3. Unclaimed' \subseteq Unclaimed
      BY <2>3, <3>2 DEF Rejected, Sends, Unclaimed
    <3> QED BY <1>2, <3>1, <3>3
  <2>4. CASE GivesUp(p)
    BY <1>3, <2>4 DEF GivesUp, LetsGo, Report, Goto, TypeOK
  <2>5. CASE Uses(p) \/ Retires(p)
    <3>1. LetsGo(p) /\ future = "yes"
      BY <2>5 DEF Uses, Retires
    <3>2. Claimants' \subseteq Claimants \cup {p}
      BY <2>5, <3>1 DEF Uses, Retires, Report, Goto, Claimants, TypeOK
    <3>3. answerer \in Unclaimed
      BY <3>1 DEF Unclaimed
    <3>4. Unclaimed' \subseteq Unclaimed
      BY <3>1, UnclaimedShrinks DEF LetsGo
    <3>5. answerer \notin Unclaimed'
      <4>1. PICK k \in Nat : \A i \in DOMAIN air' :
                                 i \in Nat /\ i + k \in DOMAIN air /\ air'[i] = air[i + k]
        BY <3>1 DEF LetsGo, AirShrinks
      <4> QED BY <3>1, <4>1 DEF LetsGo, Unclaimed, SentOnce
    <3>6. Unclaimed' \subseteq Unclaimed \ {answerer}
      BY <3>4, <3>5
    <3>7. UNCHANGED opened
      BY <3>1 DEF LetsGo
    <3>8. /\ IsFiniteSet(Claimants \cup {p})
          /\ Cardinality(Claimants \cup {p}) + Cardinality(Unclaimed') <= Cardinality(opened)
      BY <3>3, <3>6, CountClaims DEF Earned
    <3>9. IsFiniteSet(Unclaimed')
      BY <1>1, <3>7, FS_Subset DEF Earned
    <3>10. /\ IsFiniteSet(Claimants')
           /\ Cardinality(Claimants') <= Cardinality(Claimants \cup {p})
      BY <3>2, <3>8, FS_Subset
    <3> QED BY <1>1, <3>7, <3>8, <3>9, <3>10, FS_CardinalityType DEF Earned
  <2>6. CASE Saves(p)
    BY <1>3, <2>6, AirSame DEF Saves, Report, Goto, TypeOK
  <2> QED BY <1>8, <2>1, <2>2, <2>3, <2>4, <2>5, <2>6 DEF PressShape
<1> QED BY <1>4, <1>5, <1>6, <1>7, <1>8 DEF Shape

-----------------------------------------------------------------------------
(* The codes, while a pool is used. *)

\* The presses that have read a code and hold the lock or wait for it.
Live(p) == p = owner \/ \E i \in DOMAIN queue : queue[i] = p

\* The codes the mailbox has accepted.
SpentCodes == {code[p] : p \in opened}

\* The pool and the store repeat no code, and what has left the pool and is still
\* in the store has been accepted.
Pools ==
    /\ Distinct(pool) /\ Distinct(disk)
    /\ ToSet(pool) \subseteq ToSet(disk)
    /\ ToSet(disk) \subseteq ToSet(InitialPool)
    /\ ToSet(disk) \ ToSet(pool) \subseteq SpentCodes

\* A live press has read the code that heads the pool, or one that has left it:
\* codes leave from the head.
ReadsHead ==
    \A p \in Presses : Live(p) =>
        /\ code[p] \in ToSet(InitialPool)
        /\ code[p] \in ToSet(pool) => code[p] = Head(pool)

\* Those whose code has left the pool come first.
StaleFirst ==
    /\ \A i, j \in DOMAIN queue :
           i < j /\ code[queue[i]] \in ToSet(pool) => code[queue[j]] \in ToSet(pool)
    /\ owner # NoPress /\ code[owner] \in ToSet(pool) =>
           \A i \in DOMAIN queue : code[queue[i]] \in ToSet(pool)

\* While a positive answer is under way, the code it is about is the spent head
\* of the pool, and every live press has read it; there is one such answer at
\* most, in the air or in the future.
OneYes ==
    /\ \A i \in DOMAIN air : air[i].valid =>
           /\ code[air[i].press] = Head(pool) /\ Head(pool) \in ToSet(pool) \ usable
           /\ \A p \in Presses : Live(p) => code[p] \in ToSet(pool)
    /\ \A i, j \in DOMAIN air : air[i].valid /\ air[j].valid => i = j
    /\ future = "yes" =>
           /\ code[owner] = Head(pool) /\ code[answerer] = Head(pool)
           /\ Head(pool) \in ToSet(pool) \ usable
           /\ \A i \in DOMAIN air : ~air[i].valid

\* A code retired by a press is out of the pool, and out of the store once the
\* press has reported.
Retired ==
    \A p \in Presses :
        /\ outcome[p] = "opened" \/ pc[p] = "saving" => code[p] \notin ToSet(pool)
        /\ outcome[p] = "opened" => code[p] \notin ToSet(disk)

Kept == \A c \in ToSet(InitialPool) \cap usable : c \in ToSet(pool) /\ c \in ToSet(disk)

Ordered == ReadsHead /\ StaleFirst /\ OneYes

PoolOrder == OneTime => Ordered /\ Retired /\ Kept

\* Only a press that has done nothing yet reads a code.
LEMMA ReadChangesOne ==
    ASSUME TypeOK, OneFuture, LineUp, SentOnce, NEW p \in Presses, Reads(p)
    PROVE  /\ code'[p] = IF OneTime THEN Head(pool) ELSE Permanent
           /\ \A q \in Presses : q # p => code'[q] = code[q]
           /\ ~Live(p) /\ p \notin opened /\ \A i \in DOMAIN air : air[i].press # p
<1>1. pc[p] = "idle"
  BY DEF Reads
<1>2. p # owner
  BY <1>1 DEF OneFuture, LockedPC, HeldPC, TempPC
<1>3. \A i \in DOMAIN queue : queue[i] # p
  BY <1>1 DEF LineUp
<1>4. p \notin opened /\ \A i \in DOMAIN air : air[i].press # p
  BY <1>1 DEF SentOnce, NotSent
<1> QED BY <1>2, <1>3, <1>4 DEF Reads, Live, TypeOK

\* Accepted codes stay accepted.
LEMMA SpentGrows ==
    ASSUME TypeOK, OneFuture, LineUp, SentOnce, Shape
    PROVE  SpentCodes \subseteq SpentCodes'
<1>1. \/ UNCHANGED code /\ opened \subseteq opened'
      \/ \E p \in Presses : Reads(p)
  BY DEF Shape, Quiet, Handed, Settles, Crash, PressShape, Waits, Enters, Empties,
         Accepted, Rejected, Sends, GivesUp, Uses, Retires, LetsGo, Saves
<1>2. CASE UNCHANGED code /\ opened \subseteq opened'
  BY <1>2 DEF SpentCodes
<1>3. ASSUME NEW p \in Presses, Reads(p) PROVE SpentCodes \subseteq SpentCodes'
  <2>1. \A q \in opened : q \in Presses /\ q # p /\ code'[q] = code[q]
    BY <1>3, ReadChangesOne DEF TypeOK
  <2>2. UNCHANGED opened
    BY <1>3 DEF Reads
  <2> QED BY <2>1, <2>2 DEF SpentCodes
<1> QED BY <1>1, <1>2, <1>3

\* With a pool, a positive answer retires the head of the pool: it is never used
\* by a press whose code has already left.
LEMMA RetireHead ==
    ASSUME TypeOK, OneFuture, SentOnce, Pools, OneTime, OneYes,
           NEW p \in Presses, Retires(p)
    PROVE  /\ Distinct(pool') /\ ToSet(pool') = ToSet(pool) \ {Head(pool)}
           /\ code[p] = Head(pool) /\ Head(pool) \in SpentCodes
           /\ Head(pool) \in ToSet(pool) \ usable
           /\ \A i \in DOMAIN air : ~air[i].valid
<1>1. owner = p /\ future = "yes"
  BY DEF Retires, LetsGo
<1>2. /\ code[p] = Head(pool) /\ code[answerer] = Head(pool) /\ answerer \in opened
      /\ Head(pool) \in ToSet(pool) \ usable
      /\ \A i \in DOMAIN air : ~air[i].valid
  BY <1>1 DEF OneYes, SentOnce
<1>3. PICK i \in DOMAIN pool : pool[i] = code[p] /\ pool' = RemoveAt(pool, i)
  BY DEF Retires
<1>4. Distinct(pool') /\ ToSet(pool') = ToSet(pool) \ {pool[i]}
  BY <1>3, RemoveAtDistinct DEF TypeOK, Pools
<1> QED BY <1>2, <1>3, <1>4 DEF SpentCodes

LEMMA PoolsStep ==
    ASSUME TypeOK, OneFuture, LineUp, SentOnce, Pools, PoolOrder, Shape
    PROVE  Pools'
<1>1. SpentCodes \subseteq SpentCodes'
  BY SpentGrows
<1>2. CASE UNCHANGED <<pool, disk>>
  BY <1>1, <1>2 DEF Pools
<1>3. CASE Crash
  BY <1>1, <1>3 DEF Pools, Crash
<1>4. ASSUME NEW p \in Presses, Saves(p) PROVE Pools'
  BY <1>1, <1>4 DEF Pools, Saves
<1>5. ASSUME NEW p \in Presses, Retires(p) PROVE Pools'
  <2>1. OneTime /\ UNCHANGED disk
    BY <1>5 DEF Retires, LetsGo
  <2> QED BY <1>1, <1>5, <2>1, RetireHead DEF Pools, PoolOrder, Ordered
<1>6. \/ UNCHANGED <<pool, disk>> \/ Crash
      \/ \E p \in Presses : Saves(p) \/ Retires(p)
  BY DEF Shape, Quiet, Handed, Settles, PressShape, Waits, Enters, Reads, Empties,
         Accepted, Rejected, Sends, GivesUp, Uses, LetsGo
<1> QED BY <1>2, <1>3, <1>4, <1>5, <1>6

-----------------------------------------------------------------------------
(* The order of the codes is kept, shape by shape. *)

\* The lock and its queue are left alone, or the holder lets go.
LEMMA OrderQuiet ==
    ASSUME TypeOK, OneFuture, Pools, Ordered, AirShrinks,
           UNCHANGED <<pool, usable, code, queue>>,
           \/ UNCHANGED <<owner, future, answerer>>
           \/ owner' = NoPress /\ future' = "none"
    PROVE  Ordered'
<1>1. PICK k \in Nat : \A i \in DOMAIN air' :
                           i \in Nat /\ i + k \in DOMAIN air /\ air'[i] = air[i + k]
  BY DEF AirShrinks
<1>2. \A p \in Presses : Live(p)' => Live(p)
  BY OpenDoorAssumption DEF Live
<1>3. ReadsHead'
  BY <1>2 DEF Ordered, ReadsHead
<1>4. StaleFirst'
  BY DEF Ordered, StaleFirst
<1>5. OneYes'
  <2>1. \A i \in DOMAIN air' : air'[i].valid =>
           /\ code[air'[i].press] = Head(pool) /\ Head(pool) \in ToSet(pool) \ usable
           /\ \A p \in Presses : Live(p)' => code[p] \in ToSet(pool)
    BY <1>1, <1>2 DEF Ordered, OneYes
  <2>2. \A i, j \in DOMAIN air' : air'[i].valid /\ air'[j].valid => i = j
    <3> SUFFICES ASSUME NEW i \in DOMAIN air', NEW j \in DOMAIN air',
                        air'[i].valid, air'[j].valid
                 PROVE  i = j
      OBVIOUS
    <3>1. i + k = j + k
      BY <1>1 DEF Ordered, OneYes
    <3> QED BY <1>1, <3>1
  <2>3. future' = "yes" =>
           /\ code[owner'] = Head(pool) /\ code[answerer'] = Head(pool)
           /\ Head(pool) \in ToSet(pool) \ usable
           /\ \A i \in DOMAIN air' : ~air'[i].valid
    BY <1>1 DEF Ordered, OneYes
  <2> QED BY <2>1, <2>2, <2>3 DEF OneYes
<1> QED BY <1>3, <1>4, <1>5 DEF Ordered

\* A press reads the head of the pool, behind those that wait.
LEMMA OrderWaits ==
    ASSUME TypeOK, OneFuture, LineUp, SentOnce, Pools, Ordered, OneTime,
           NEW p \in Presses, Waits(p)
    PROVE  Ordered'
<1> USE DEF TypeOK
<1>1. /\ code'[p] = Head(pool) /\ \A q \in Presses : q # p => code'[q] = code[q]
      /\ ~Live(p) /\ \A i \in DOMAIN air : air[i].press # p
  BY ReadChangesOne DEF Waits
<1>2. Head(pool) \in ToSet(pool) /\ Head(pool) \in ToSet(InitialPool)
  BY HeadInSet DEF Waits, Reads, Pools
<1>3. /\ UNCHANGED <<pool, usable, air, owner, future, answerer>>
      /\ queue' = Append(queue, p)
  BY DEF Waits, Reads
<1>4. \A i \in DOMAIN queue' :
          \/ i \in DOMAIN queue /\ queue'[i] = queue[i] /\ queue[i] \in Presses /\ i < Len(queue) + 1
          \/ i = Len(queue) + 1 /\ queue'[i] = p
  <2>1. \A i \in DOMAIN Append(queue, p) :
          \/ i \in DOMAIN queue /\ Append(queue, p)[i] = queue[i] /\ queue[i] \in Presses
             /\ i < Len(queue) + 1
          \/ i = Len(queue) + 1 /\ Append(queue, p)[i] = p
    OBVIOUS
  <2> QED BY <1>3, <2>1
<1>5. \A i \in DOMAIN queue : queue[i] \in Presses /\ queue[i] # p
  BY <1>1, ElementOfSeq DEF Live
<1>6. owner # p /\ owner \in Presses \cup {NoPress}
  BY <1>1 DEF Live
<1>7. \A q \in Presses : Live(q)' => q = p \/ Live(q)
  BY <1>3, <1>4 DEF Live
<1>8. ReadsHead'
  BY <1>1, <1>2, <1>3, <1>7 DEF Ordered, ReadsHead
<1>9. StaleFirst'
  <2>1. \A i, j \in DOMAIN queue' :
           i < j /\ code'[queue'[i]] \in ToSet(pool) => code'[queue'[j]] \in ToSet(pool)
    <3> SUFFICES ASSUME NEW i \in DOMAIN queue', NEW j \in DOMAIN queue', i < j,
                        code'[queue'[i]] \in ToSet(pool)
                 PROVE  code'[queue'[j]] \in ToSet(pool)
      OBVIOUS
    <3>1. CASE queue'[j] = p
      BY <1>1, <1>2, <3>1
    <3>2. CASE j \in DOMAIN queue /\ queue'[j] = queue[j] /\ j < Len(queue) + 1
      <4>1. i \in DOMAIN queue /\ queue'[i] = queue[i]
        <5>1. i # Len(queue) + 1
          BY <3>2
        <5> QED BY <1>4, <5>1
      <4> QED BY <1>1, <1>5, <3>2, <4>1 DEF Ordered, StaleFirst
    <3> QED BY <1>4, <3>1, <3>2
  <2>2. owner' # NoPress /\ code'[owner'] \in ToSet(pool) =>
           \A i \in DOMAIN queue' : code'[queue'[i]] \in ToSet(pool)
    BY <1>1, <1>2, <1>3, <1>4, <1>5, <1>6 DEF Ordered, StaleFirst
  <2> QED BY <1>3, <2>1, <2>2 DEF StaleFirst
<1>10. OneYes'
  <2>1. \A i \in DOMAIN air : air[i].press \in Presses /\ code'[air[i].press] = code[air[i].press]
    BY <1>1, AirElement
  <2>2. future = "yes" =>
          /\ owner \in Presses /\ owner # p /\ answerer \in Presses /\ answerer # p
    BY <1>6 DEF OneFuture, SentOnce, Waits, Reads, NotSent
  <2> QED BY <1>1, <1>2, <1>3, <1>7, <2>1, <2>2 DEF Ordered, OneYes
<1> QED BY <1>8, <1>9, <1>10 DEF Ordered

\* A press reads the head of the pool and takes the free lock.
LEMMA OrderEnters ==
    ASSUME TypeOK, OneFuture, LineUp, SentOnce, Pools, Ordered, OneTime,
           NEW p \in Presses, Enters(p)
    PROVE  Ordered'
<1> USE DEF TypeOK
<1>1. /\ code'[p] = Head(pool) /\ \A q \in Presses : q # p => code'[q] = code[q]
      /\ \A i \in DOMAIN air : air[i].press # p
  BY ReadChangesOne DEF Enters
<1>2. Head(pool) \in ToSet(pool) /\ Head(pool) \in ToSet(InitialPool)
  BY HeadInSet DEF Enters, Reads, Pools
<1>3. /\ UNCHANGED <<pool, usable, air>> /\ queue' = <<>> /\ owner' = p
      /\ future' = "pending"
  BY DEF Enters, Reads, Begin
<1>4. DOMAIN queue' = {}
  BY <1>3
<1>5. \A q \in Presses : Live(q)' => q = p
  BY <1>3, <1>4 DEF Live
<1>6. ReadsHead'
  BY <1>1, <1>2, <1>3, <1>5 DEF ReadsHead
<1>7. StaleFirst'
  BY <1>4 DEF StaleFirst
<1>8. OneYes'
  <2>1. \A i \in DOMAIN air : air[i].press \in Presses /\ code'[air[i].press] = code[air[i].press]
    BY <1>1, AirElement
  <2> QED BY <1>1, <1>2, <1>3, <1>5, <2>1 DEF Ordered, OneYes
<1> QED BY <1>6, <1>7, <1>8 DEF Ordered

\* The first waiter takes the lock.
LEMMA OrderHanded ==
    ASSUME TypeOK, OneFuture, LineUp, Pools, Ordered, Handed
    PROVE  Ordered'
<1> USE DEF TypeOK
<1>1. /\ UNCHANGED <<pool, usable, code, air>> /\ owner' = Head(queue)
      /\ queue' = Tail(queue) /\ future' = "pending" /\ queue # <<>>
  BY DEF Handed, Begin
<1>2. /\ 1 \in DOMAIN queue /\ owner' = queue[1]
      /\ \A i \in DOMAIN queue' : i \in Nat \ {0} /\ i + 1 \in DOMAIN queue
                                  /\ queue'[i] = queue[i + 1]
  <2>1. \A i \in DOMAIN Tail(queue) : i \in Nat \ {0}
    BY <1>1
  <2> QED BY <1>1, <2>1, TailDistinct DEF LineUp
<1>3. \A q \in Presses : Live(q)' => Live(q)
  BY <1>2 DEF Live
<1>4. ReadsHead'
  BY <1>1, <1>3 DEF Ordered, ReadsHead
<1>5. StaleFirst'
  <2>1. \A i, j \in DOMAIN queue' : i < j => i + 1 < j + 1
    BY <1>2
  <2>2. \A i \in DOMAIN queue' : 1 < i + 1
    BY <1>2
  <2>3. ASSUME NEW i \in DOMAIN queue', NEW j \in DOMAIN queue', i < j,
               code'[queue'[i]] \in ToSet(pool')
        PROVE  code'[queue'[j]] \in ToSet(pool')
    <3>1. /\ i + 1 \in DOMAIN queue /\ j + 1 \in DOMAIN queue /\ i + 1 < j + 1
          /\ queue'[i] = queue[i + 1] /\ queue'[j] = queue[j + 1]
      BY <1>2, <2>1, <2>3
    <3> QED BY <1>1, <2>3, <3>1 DEF Ordered, StaleFirst
  <2>4. ASSUME NEW i \in DOMAIN queue', code'[owner'] \in ToSet(pool')
        PROVE  code'[queue'[i]] \in ToSet(pool')
    <3>1. /\ 1 \in DOMAIN queue /\ i + 1 \in DOMAIN queue /\ 1 < i + 1
          /\ owner' = queue[1] /\ queue'[i] = queue[i + 1]
      BY <1>2, <2>2
    <3> QED BY <1>1, <2>4, <3>1 DEF Ordered, StaleFirst
  <2> QED BY <2>3, <2>4 DEF StaleFirst
<1>6. OneYes'
  BY <1>1, <1>3 DEF Ordered, OneYes
<1> QED BY <1>4, <1>5, <1>6 DEF Ordered

\* A positive answer settles the future of a press that has read the same code.
LEMMA OrderSettles ==
    ASSUME TypeOK, OneFuture, Pools, Ordered, Settles
    PROVE  Ordered'
<1>1. /\ UNCHANGED <<pool, usable, code, owner, queue>> /\ future = "pending"
      /\ 1 \in DOMAIN air /\ answerer' = air[1].press
      /\ future' = (IF air[1].valid THEN "yes" ELSE "no")
      /\ \A i \in DOMAIN air' : i \in Nat \ {0} /\ i + 1 \in DOMAIN air
                                /\ air'[i] = air[i + 1]
  BY AirElement DEF Settles
<1>2. \A i \in DOMAIN air' : i + 1 # 1
  BY <1>1
<1>3. \A i, j \in DOMAIN air' : i + 1 = j + 1 => i = j
  BY <1>1
<1>4. owner \in Presses
  BY <1>1 DEF OneFuture, TypeOK
<1>5. \A q \in Presses : Live(q)' <=> Live(q)
  BY <1>1 DEF Live
<1>6. ReadsHead'
  BY <1>1, <1>5 DEF Ordered, ReadsHead
<1>7. StaleFirst'
  BY <1>1 DEF Ordered, StaleFirst
<1>8. OneYes'
  <2>1. Live(owner)
    BY DEF Live
  <2>2. air[1].valid => /\ code[owner] = Head(pool) /\ code[air[1].press] = Head(pool)
                        /\ Head(pool) \in ToSet(pool) \ usable
                        /\ \A i \in DOMAIN air' : ~air'[i].valid
    BY <1>1, <1>2, <1>4, <2>1 DEF Ordered, OneYes, ReadsHead
  <2>3. \A i \in DOMAIN air' : air'[i].valid =>
           /\ code[air'[i].press] = Head(pool) /\ Head(pool) \in ToSet(pool) \ usable
           /\ \A p \in Presses : Live(p)' => code[p] \in ToSet(pool)
    BY <1>1, <1>5 DEF Ordered, OneYes
  <2>4. \A i, j \in DOMAIN air' : air'[i].valid /\ air'[j].valid => i = j
    BY <1>1, <1>3 DEF Ordered, OneYes
  <2> QED BY <1>1, <2>2, <2>3, <2>4 DEF OneYes
<1> QED BY <1>6, <1>7, <1>8 DEF Ordered

\* The mailbox accepts a code: the head of the pool, which no answer is about yet.
LEMMA OrderAccepted ==
    ASSUME TypeOK, OneFuture, SentOnce, Pools, Ordered, Kept, OneTime,
           NEW p \in Presses, Accepted(p)
    PROVE  Ordered' /\ code[p] = Head(pool)
<1>1. /\ UNCHANGED <<pool, code, owner, queue, future, answerer>> /\ owner = p
      /\ code[p] \in usable /\ usable' = usable \ {code[p]}
  BY DEF Accepted, Sends
<1>2. code[p] \in ToSet(InitialPool)
  BY <1>1 DEF Live, Ordered, ReadsHead
<1>3. code[p] \in ToSet(pool)
  BY <1>1, <1>2 DEF Kept
<1>4. code[p] = Head(pool)
  BY <1>1, <1>3 DEF Live, Ordered, ReadsHead
<1>5. /\ \A i \in DOMAIN air : ~air[i].valid
      /\ future # "yes"
  BY <1>1, <1>4 DEF Ordered, OneYes
<1>6. \A q \in Presses : Live(q) => code[q] \in ToSet(pool)
  <2>1. \A i \in DOMAIN queue : code[queue[i]] \in ToSet(pool)
    BY <1>1, <1>3, OpenDoorAssumption DEF Ordered, StaleFirst
  <2> QED BY <1>1, <1>3, <2>1 DEF Live
<1>7. \A q \in Presses : Live(q)' <=> Live(q)
  BY <1>1 DEF Live
<1>8. \A i \in DOMAIN air' :
          \/ i \in DOMAIN air /\ air'[i] = air[i]
          \/ i = Len(air) + 1 /\ air'[i].press = p
  BY AirAppend DEF Accepted
<1>9. ReadsHead'
  BY <1>1, <1>7 DEF Ordered, ReadsHead
<1>10. StaleFirst'
  BY <1>1 DEF Ordered, StaleFirst
<1>11. OneYes'
  <2>1. \A i \in DOMAIN air' : air'[i].valid => i = Len(air) + 1 /\ air'[i].press = p
    BY <1>5, <1>8
  <2> QED BY <1>1, <1>3, <1>4, <1>5, <1>6, <1>7, <2>1 DEF OneYes
<1> QED BY <1>4, <1>9, <1>10, <1>11 DEF Ordered

\* It refuses one.
LEMMA OrderRejected ==
    ASSUME TypeOK, Pools, Ordered, NEW p \in Presses, Rejected(p)
    PROVE  Ordered'
<1>1. UNCHANGED <<pool, usable, code, owner, queue, future, answerer>>
  BY DEF Rejected, Sends
<1>2. \A q \in Presses : Live(q)' <=> Live(q)
  BY <1>1 DEF Live
<1>3. \A i \in DOMAIN air' :
          \/ i \in DOMAIN air /\ air'[i] = air[i]
          \/ i = Len(air) + 1 /\ air'[i].valid = FALSE
  BY AirAppend DEF Rejected
<1>4. \A i \in DOMAIN air' : air'[i].valid => i \in DOMAIN air /\ air'[i] = air[i]
  BY <1>3
<1>5. ReadsHead'
  BY <1>1, <1>2 DEF Ordered, ReadsHead
<1>6. StaleFirst'
  BY <1>1 DEF Ordered, StaleFirst
<1>7. OneYes'
  <2>1. \A i \in DOMAIN air' : air'[i].valid =>
           /\ code[air'[i].press] = Head(pool) /\ Head(pool) \in ToSet(pool) \ usable
           /\ \A q \in Presses : Live(q)' => code[q] \in ToSet(pool)
    BY <1>2, <1>4 DEF Ordered, OneYes
  <2>2. \A i, j \in DOMAIN air' : air'[i].valid /\ air'[j].valid => i = j
    BY <1>4 DEF Ordered, OneYes
  <2>3. future = "yes" =>
           /\ code[owner] = Head(pool) /\ code[answerer] = Head(pool)
           /\ Head(pool) \in ToSet(pool) \ usable
           /\ \A i \in DOMAIN air' : ~air'[i].valid
    BY <1>4 DEF Ordered, OneYes
  <2> QED BY <1>1, <2>1, <2>2, <2>3 DEF OneYes
<1> QED BY <1>5, <1>6, <1>7 DEF Ordered

\* The head of the pool is retired: all those that wait have read it or an older
\* one, and no positive answer is left for them.
LEMMA OrderRetires ==
    ASSUME TypeOK, OneFuture, SentOnce, Pools, Ordered, OneTime,
           NEW p \in Presses, Retires(p)
    PROVE  Ordered'
<1>1. /\ UNCHANGED <<usable, code, queue>> /\ owner' = NoPress /\ future' = "none"
      /\ AirShrinks
  BY DEF Retires, LetsGo
<1>2. /\ ToSet(pool') = ToSet(pool) \ {Head(pool)}
      /\ \A i \in DOMAIN air : ~air[i].valid
  BY RetireHead DEF Ordered
<1>3. \A i \in DOMAIN air' : ~air'[i].valid
  BY <1>1, <1>2 DEF AirShrinks
<1>4. \A q \in Presses : Live(q)' => Live(q)
  BY <1>1, OpenDoorAssumption DEF Live
<1>5. \A i \in DOMAIN queue : queue[i] \in Presses /\ code[queue[i]] \notin ToSet(pool')
  <2> SUFFICES ASSUME NEW i \in DOMAIN queue
               PROVE  queue[i] \in Presses /\ code[queue[i]] \notin ToSet(pool')
    OBVIOUS
  <2>1. queue[i] \in Presses /\ Live(queue[i])
    BY ElementOfSeq DEF TypeOK, Live
  <2> QED BY <1>2, <2>1 DEF Ordered, ReadsHead
<1>6. ReadsHead'
  BY <1>1, <1>2, <1>4 DEF Ordered, ReadsHead
<1>7. StaleFirst'
  BY <1>1, <1>5 DEF StaleFirst
<1>8. OneYes'
  BY <1>1, <1>3 DEF OneYes
<1> QED BY <1>6, <1>7, <1>8 DEF Ordered

\* A press without a code to retire is not told yes.
LEMMA NothingToRetire ==
    ASSUME Ordered, OneTime, NEW p \in Presses, Uses(p)
    PROVE  FALSE
  BY DEF Uses, LetsGo, Ordered, OneYes

\* A crash forgets the presses and the answers.
LEMMA OrderCrash ==
    ASSUME Crash PROVE Ordered'
<1>1. DOMAIN queue' = {} /\ DOMAIN air' = {} /\ owner' = NoPress /\ future' = "none"
  BY DEF Crash
<1>2. \A q \in Presses : ~Live(q)'
  BY <1>1, OpenDoorAssumption DEF Live
<1>3. ReadsHead'
  BY <1>2 DEF ReadsHead
<1>4. StaleFirst'
  BY <1>1 DEF StaleFirst
<1>5. OneYes'
  BY <1>1 DEF OneYes
<1> QED BY <1>3, <1>4, <1>5 DEF Ordered

LEMMA OrderedStep ==
    ASSUME TypeOK, OneFuture, LineUp, SentOnce, Pools, Ordered, Kept, OneTime, Shape
    PROVE  Ordered'
<1>1. CASE Quiet
  BY <1>1, OrderQuiet DEF Quiet
<1>2. CASE Handed
  BY <1>2, OrderHanded
<1>3. CASE Settles
  BY <1>3, OrderSettles
<1>4. CASE Crash
  BY <1>4, OrderCrash
<1>5. ASSUME NEW p \in Presses, PressShape(p) PROVE Ordered'
  <2>1. CASE Empties(p)
    BY <2>1, OrderQuiet, AirSame DEF Empties
  <2>2. CASE Waits(p)
    BY <2>2, OrderWaits
  <2>3. CASE Enters(p)
    BY <2>3, OrderEnters
  <2>4. CASE Accepted(p)
    BY <2>4, OrderAccepted
  <2>5. CASE Rejected(p)
    BY <2>5, OrderRejected
  <2>6. CASE GivesUp(p)
    BY <2>6, OrderQuiet DEF GivesUp, LetsGo
  <2>7. CASE Retires(p)
    BY <2>7, OrderRetires
  <2>8. CASE Uses(p)
    BY <2>8, NothingToRetire
  <2>9. CASE Saves(p)
    BY <2>9, OrderQuiet, AirSame DEF Saves
  <2> QED BY <1>5, <2>1, <2>2, <2>3, <2>4, <2>5, <2>6, <2>7, <2>8, <2>9 DEF PressShape
<1> QED BY <1>1, <1>2, <1>3, <1>4, <1>5 DEF Shape

-----------------------------------------------------------------------------
\* No code the mailbox still accepts leaves the pool or the store.
LEMMA KeptStep ==
    ASSUME TypeOK, OneFuture, SentOnce, Pools, Ordered, Kept, OneTime, Shape
    PROVE  Kept'
<1>1. usable' \subseteq usable
  BY DEF Shape, Quiet, Handed, Settles, Crash, PressShape, Waits, Enters, Reads, Empties,
         Accepted, Rejected, Sends, GivesUp, Uses, Retires, LetsGo, Saves
<1>2. CASE UNCHANGED <<pool, disk>>
  BY <1>1, <1>2 DEF Kept
<1>3. CASE Crash
  BY <1>1, <1>3 DEF Kept, Crash
<1>4. ASSUME NEW p \in Presses, Saves(p) PROVE Kept'
  BY <1>1, <1>4 DEF Kept, Saves
<1>5. ASSUME NEW p \in Presses, Retires(p) PROVE Kept'
  <2>1. ToSet(pool') = ToSet(pool) \ {Head(pool)} /\ Head(pool) \notin usable
    BY <1>5, RetireHead DEF Ordered
  <2>2. UNCHANGED disk
    BY <1>5 DEF Retires, LetsGo
  <2> QED BY <1>1, <2>1, <2>2 DEF Kept
<1>6. \/ UNCHANGED <<pool, disk>> \/ Crash
      \/ \E p \in Presses : Saves(p) \/ Retires(p)
  BY DEF Shape, Quiet, Handed, Settles, PressShape, Waits, Enters, Reads, Empties,
         Accepted, Rejected, Sends, GivesUp, Uses, LetsGo
<1> QED BY <1>2, <1>3, <1>4, <1>5, <1>6

\* No retired code comes back.
LEMMA RetiredStep ==
    ASSUME TypeOK, OneFuture, LineUp, SentOnce, Pools, Ordered, Retired, OneTime, Shape
    PROVE  Retired'
<1> USE DEF TypeOK
<1>1. ASSUME NEW p \in Presses, NEW label, pc' = [pc EXCEPT ![p] = label],
             label # "saving", UNCHANGED <<pool, disk>>,
             \A q \in Presses : q # p => code'[q] = code[q],
             \/ \E r : r # "opened" /\ outcome' = [outcome EXCEPT ![p] = r]
             \/ UNCHANGED <<code, outcome>>
             \/ UNCHANGED outcome /\ outcome[p] = "none"
      PROVE  Retired'
  BY <1>1 DEF Retired
<1>2. CASE Quiet
  BY <1>1, <1>2 DEF Quiet, Retired, LockedPC, HeldPC, TempPC
<1>3. CASE Handed
  <2>1. Head(queue) \in Presses
    BY <1>3 DEF Handed
  <2>2. PICK label : label # "saving" /\ pc' = [pc EXCEPT ![Head(queue)] = label]
    BY <1>3 DEF Handed, Begin, Goto
  <2> QED BY <1>1, <1>3, <2>1, <2>2 DEF Handed
<1>4. CASE Settles
  BY <1>4 DEF Settles, Retired
<1>5. CASE Crash
  BY <1>5 DEF Crash, Retired
<1>6. ASSUME NEW p \in Presses, PressShape(p) PROVE Retired'
  <2>1. CASE Empties(p)
    BY <1>1, <2>1 DEF Empties, Report, Goto
  <2>2. CASE Waits(p) \/ Enters(p)
    <3>1. outcome[p] = "none" /\ Reads(p)
      BY <2>2 DEF Waits, Enters, Reads, LineUp
    <3>2. \A q \in Presses : q # p => code'[q] = code[q]
      BY <3>1, ReadChangesOne
    <3> QED BY <1>1, <2>2, <3>1, <3>2 DEF Waits, Enters, Reads, Begin, Goto
  <2>3. CASE Accepted(p) \/ Rejected(p)
    <3>1. Sends(p)
      BY <2>3 DEF Accepted, Rejected
    <3>2. PICK label \in {"written", "tempWritten"} : pc' = [pc EXCEPT ![p] = label]
      BY <3>1 DEF Sends, Goto
    <3> QED BY <1>1, <3>1, <3>2 DEF Sends
  <2>4. CASE GivesUp(p)
    BY <1>1, <2>4 DEF GivesUp, LetsGo, Report, Goto
  <2>5. CASE Retires(p)
    <3>1. /\ ToSet(pool') = ToSet(pool) \ {Head(pool)} /\ code[p] = Head(pool)
      BY <2>5, RetireHead DEF Ordered
    <3>2. UNCHANGED <<disk, code, outcome>> /\ pc' = [pc EXCEPT ![p] = "saving"]
      BY <2>5 DEF Retires, LetsGo, Goto
    <3>3. outcome[p] # "opened"
      BY <2>5 DEF Retires, LetsGo, LineUp, LockedPC, HeldPC, TempPC
    <3> QED BY <3>1, <3>2, <3>3 DEF Retired
  <2>6. CASE Uses(p)
    BY <2>6, NothingToRetire
  <2>7. CASE Saves(p)
    BY <2>7 DEF Saves, Report, Goto, Retired
  <2> QED BY <1>6, <2>1, <2>2, <2>3, <2>4, <2>5, <2>6, <2>7 DEF PressShape
<1> QED BY <1>2, <1>3, <1>4, <1>5, <1>6 DEF Shape

-----------------------------------------------------------------------------
\* The inductive invariant.  Its parts lean on one another: that a code leaves the
\* pool only once spent needs that there is one positive answer at most, which
\* needs that presses read the codes and take the lock in the same order, which
\* needs that a code the mailbox accepts is still in the pool.
IInv ==
    /\ TypeOK /\ OneFuture /\ LineUp /\ SentOnce /\ Earned
    /\ Pools /\ PoolOrder

LEMMA IInvInit == Init => IInv
<1> USE OpenDoorAssumption
<1> SUFFICES ASSUME Init PROVE IInv
  OBVIOUS
<1> USE DEF Init
<1>1. TypeOK /\ OneFuture
  BY DEF TypeOK, OneFuture, PC, Outcome, LockedPC, HeldPC, TempPC
<1>2. LineUp /\ SentOnce
  BY DEF LineUp, Distinct, SentOnce
<1>3. Earned
  <2>1. Claimants = {} /\ Unclaimed = {}
    BY DEF Claimants, Unclaimed
  <2> QED BY <2>1, FS_EmptySet DEF Earned
<1>4. Pools
  BY DEF Pools, Distinct
<1>5. DOMAIN queue = {} /\ DOMAIN air = {} /\ \A p \in Presses : ~Live(p)
  BY DEF Live
<1>6. PoolOrder
  BY <1>5 DEF PoolOrder, Ordered, ReadsHead, StaleFirst, OneYes, Retired, Kept
<1> QED BY <1>1, <1>2, <1>3, <1>4, <1>6 DEF IInv

LEMMA IInvStep == IInv /\ [Next]_vars => IInv'
<1> SUFFICES ASSUME IInv, [Next]_vars PROVE IInv'
  OBVIOUS
<1> USE DEF IInv
<1>1. Shape
  BY NextShape
<1>2. TypeOK' /\ OneFuture'
  BY TypeStep, FutureStep
<1>3. LineUp'
  BY <1>1, LineUpStep
<1>4. SentOnce'
  BY <1>1, SentOnceStep
<1>5. Earned'
  BY <1>1, <1>4, EarnedStep
<1>6. Pools'
  BY <1>1, PoolsStep
<1>7. PoolOrder'
  BY <1>1, OrderedStep, RetiredStep, KeptStep DEF PoolOrder
<1> QED BY <1>2, <1>3, <1>4, <1>5, <1>6, <1>7

LEMMA IInvHolds == Spec => []IInv
  BY IInvInit, IInvStep, PTL DEF Spec

\* Presses report an opening at most as often as the mailbox has opened: the
\* answer of a press that gave up may tell another one that it has opened, but
\* no answer is counted twice (_on_app_notify, async_open_door).
THEOREM SuccessIsEarnedHolds == Spec => []SuccessIsEarned
<1>1. IInv => SuccessIsEarned
  <2> SUFFICES ASSUME IInv PROVE SuccessIsEarned
    OBVIOUS
  <2>1. /\ IsFiniteSet(opened) /\ IsFiniteSet(Claimants) /\ IsFiniteSet(Unclaimed)
        /\ Cardinality(Claimants) + Cardinality(Unclaimed) <= Cardinality(opened)
    BY FS_Subset DEF IInv, Earned
  <2>2. Cardinality(Claimants) <= Cardinality(opened)
    BY <2>1, FS_CardinalityType
  <2> QED BY <2>2 DEF SuccessIsEarned, Claimants
<1> QED BY <1>1, IInvHolds, PTL

\* No failure, lost answer or crash wastes a code: one the mailbox still accepts is
\* in the pool and in the store (OtpPool.async_commit_use, called on a positive
\* answer only).
THEOREM UnspentIsKeptHolds == Spec => []UnspentIsKept
<1>1. IInv => UnspentIsKept
  BY DEF IInv, PoolOrder, Kept, UnspentIsKept
<1> QED BY <1>1, IInvHolds, PTL

\* Once a press has reported an opening, its one-time code is out of the pool and
\* of the store for good: no crash brings it back (async_open_door awaits
\* async_commit_use before it returns).
THEOREM RetiredIsDurableHolds == Spec => []RetiredIsDurable
<1>1. IInv => RetiredIsDurable
  BY DEF IInv, PoolOrder, Retired, RetiredIsDurable
<1> QED BY <1>1, IInvHolds, PTL

\* With a pool there is one positive answer at most between the mailbox and the
\* pool, and it is about the spent code at the head: a press may use the answer
\* to another one, never one about another code (async_open_door reads the code
\* before it asks for _open_lock, whose waiters are served in order).
THEOREM OneYesHolds == Spec => [](OneTime => OneYes)
<1>1. IInv => (OneTime => OneYes)
  BY DEF IInv, PoolOrder, Ordered
<1> QED BY <1>1, IInvHolds, PTL

-----------------------------------------------------------------------------
(* OpenDoor implements OtpLedger: every step uses a code, retires a spent one, *)
(* recovers spent ones or changes nothing of the ledger.                      *)

\* A step that opens nothing, and reads no code of a press that has opened.
LEMMA SpentSame ==
    ASSUME TypeOK, OneFuture, LineUp, SentOnce, UNCHANGED opened,
           UNCHANGED code \/ \E p \in Presses : Reads(p)
    PROVE  SpentCodes' = SpentCodes
<1>1. \A q \in opened : code'[q] = code[q]
  BY ReadChangesOne DEF TypeOK
<1> QED BY <1>1 DEF SpentCodes

\* Home Assistant is killed in Crash and nowhere else.
LEMMA OnlyCrashKills == [Next]_vars => Crash \/ UNCHANGED crashes
<1> SUFFICES ASSUME [Next]_vars PROVE Crash \/ UNCHANGED crashes
  OBVIOUS
<1>1. ASSUME NEW p \in Presses, Press(p) \/ HeldWritten(p) \/ HeldFails(p) \/ HeldAnswered(p)
      PROVE  UNCHANGED crashes
  BY <1>1 DEF Press, HeldWritten, HeldFails, HeldAnswered, Receive
<1>2. ASSUME NEW p \in Presses, Step(p) PROVE UNCHANGED crashes
  BY <1>1, <1>2 DEF Step, HeldReceive, Save, ConnectFails, Connect, Subscribe, TempReceive,
     TempWritten, TempAnswered, TempFails, Close, CloseRaises, Receive
<1>3. ASSUME Acquire \/ Deliver \/ HeldConnect \/ HeldSubscribe \/ HeldDrop
      PROVE  UNCHANGED crashes
  BY <1>3 DEF Acquire, Deliver, HeldConnect, HeldSubscribe, HeldDrop
<1> QED BY <1>1, <1>2, <1>3 DEF Next, vars

LEMMA LedgerStep ==
    ASSUME IInv, Shape, Crash \/ UNCHANGED crashes
    PROVE  Ledger!Next \/ UNCHANGED <<ToSet(pool), usable, SpentCodes, crashes>>
<1> USE DEF IInv
<1>1. ASSUME UNCHANGED <<pool, usable, opened, crashes>>,
             UNCHANGED code \/ \E p \in Presses : Reads(p)
      PROVE  UNCHANGED <<ToSet(pool), usable, SpentCodes, crashes>>
  BY <1>1, SpentSame
<1>2. CASE UNCHANGED crashes /\ (Quiet \/ Handed \/ Settles)
  BY <1>1, <1>2 DEF Quiet, Handed, Settles
<1>3. CASE Crash
  <2>1. UNCHANGED <<usable, SpentCodes>> /\ pool' = disk
    BY <1>3 DEF Crash, SpentCodes
  <2>2. /\ ToSet(disk) \ ToSet(pool) \in SUBSET SpentCodes
        /\ ToSet(pool') = ToSet(pool) \cup (ToSet(disk) \ ToSet(pool))
    BY <2>1 DEF Pools
  <2>3. Ledger!Recover(ToSet(disk) \ ToSet(pool))
    BY <1>3, <2>1, <2>2 DEF Crash, Ledger!Recover, SpentCodes
  <2> QED BY <2>2, <2>3 DEF Ledger!Next, SpentCodes
<1>4. ASSUME UNCHANGED crashes, NEW p \in Presses, PressShape(p)
      PROVE  Ledger!Next \/ UNCHANGED <<ToSet(pool), usable, SpentCodes, crashes>>
  <2>1. CASE Empties(p) \/ Waits(p) \/ Enters(p)
    BY <1>1, <1>4, <2>1 DEF Empties, Waits, Enters, Reads
  <2>2. CASE Rejected(p) \/ GivesUp(p) \/ Uses(p) \/ Saves(p)
    BY <1>1, <1>4, <2>2 DEF Rejected, Sends, GivesUp, Uses, LetsGo, Saves
  <2>3. CASE Accepted(p)
    <3>1. PICK c \in Codes : c = code[p]
      BY DEF TypeOK
    <3>2. /\ UNCHANGED <<pool, code>> /\ c \in usable
          /\ opened' = opened \cup {p}
          /\ usable' \in {usable, usable \ {c}}
      BY <2>3, <3>1 DEF Accepted, Sends
    <3>3. SpentCodes' = SpentCodes \cup {c}
      BY <3>1, <3>2 DEF SpentCodes
    <3>4. Ledger!Use(c)
      BY <1>4, <3>2, <3>3 DEF Ledger!Use, SpentCodes
    <3> QED BY <3>4 DEF Ledger!Next
  <2>4. CASE Retires(p)
    <3>1. OneTime /\ UNCHANGED <<usable, code, opened>>
      BY <2>4 DEF Retires, LetsGo
    <3>2. /\ ToSet(pool') = ToSet(pool) \ {Head(pool)}
          /\ Head(pool) \in ToSet(pool) \cap SpentCodes
          /\ code[p] = Head(pool)
      BY <2>4, <3>1, RetireHead DEF PoolOrder, Ordered
    <3>3. SpentCodes' = SpentCodes
      BY <3>1, SpentSame
    <3>4. PICK c \in Codes : c = Head(pool)
      BY <3>2 DEF TypeOK
    <3>5. Ledger!Retire(c)
      BY <1>4, <3>1, <3>2, <3>3, <3>4 DEF Ledger!Retire, SpentCodes
    <3> QED BY <3>5 DEF Ledger!Next
  <2> QED BY <1>4, <2>1, <2>2, <2>3, <2>4 DEF PressShape
<1> QED BY <1>2, <1>3, <1>4 DEF Shape

\* Through crashes, lost answers and answers to other presses, the pool keeps its
\* promise: a code leaves it only once the mailbox has accepted it, and comes
\* back only by a crash (otp_store.py, TODO.md subject 5).
THEOREM ImplementsLedger == Spec => KeepsLedger
<1>1. Init => Ledger!Init
  <2> SUFFICES ASSUME Init PROVE Ledger!Init
    OBVIOUS
  <2>1. ToSet(pool) \subseteq Codes
    BY OpenDoorAssumption DEF Init, ToSet
  <2> QED BY <2>1 DEF Init, Ledger!Init
<1>2. IInv /\ [Next]_vars => [Ledger!Next]_(Ledger!vars)
  <2> SUFFICES ASSUME IInv, [Next]_vars PROVE [Ledger!Next]_(Ledger!vars)
    OBVIOUS
  <2>1. Shape
    BY NextShape DEF IInv
  <2> QED BY <2>1, LedgerStep, OnlyCrashKills DEF Ledger!vars, SpentCodes
<1> QED BY <1>1, <1>2, IInvHolds, PTL DEF Spec, KeepsLedger, Ledger!Spec

-----------------------------------------------------------------------------
\* What PressEnds rests on besides fairness: whoever waits for the lock is in its
\* line, in one place (_open_lock; LineUp has the other half).
InLine == \A p \in Presses : pc[p] = "queued" => \E i \in DOMAIN queue : queue[i] = p

LEMMA InLineStep ==
    ASSUME TypeOK, OneFuture, LineUp, InLine, Shape
    PROVE  InLine'
<1> USE DEF TypeOK
\* A step that leaves the line alone queues nobody.
<1>1. ASSUME UNCHANGED queue, \A p \in Presses : pc'[p] = "queued" => pc[p] = "queued"
      PROVE  InLine'
  BY <1>1 DEF InLine
<1>2. CASE Quiet \/ Settles
  <2>1. UNCHANGED queue /\ \A p \in Presses : pc'[p] = "queued" => pc[p] = "queued"
    BY <1>2 DEF Quiet, Settles, LockedPC, HeldPC, TempPC
  <2> QED BY <1>1, <2>1
<1>3. CASE Handed
  <2> SUFFICES ASSUME NEW p \in Presses, pc'[p] = "queued"
               PROVE  \E i \in DOMAIN queue' : queue'[i] = p
    BY DEF InLine
  <2>1. queue # <<>> /\ queue' = Tail(queue) /\ Head(queue) \in Presses
    BY <1>3 DEF Handed
  <2>2. pc[p] = "queued" /\ p # Head(queue)
    BY <1>3, <2>1 DEF Handed, Begin, Goto
  <2>3. PICK i \in DOMAIN queue : queue[i] = p
    BY <2>2 DEF InLine
  <2>4. /\ i \in Nat \ {0} /\ (i = 1 => p = Head(queue))
        /\ i # 1 => i - 1 \in DOMAIN Tail(queue) /\ Tail(queue)[i - 1] = queue[i]
    BY <2>1, <2>3
  <2> QED BY <2>1, <2>2, <2>3, <2>4
<1>4. CASE Crash
  BY <1>4 DEF Crash, InLine
<1>5. ASSUME NEW p \in Presses, PressShape(p) PROVE InLine'
  <2>1. CASE Waits(p)
    <3>1. queue' = Append(queue, p) /\ pc' = [pc EXCEPT ![p] = "queued"]
      BY <2>1 DEF Waits, Goto
    <3>2. /\ \A i \in DOMAIN queue : i \in DOMAIN queue' /\ queue'[i] = queue[i]
          /\ Len(queue) + 1 \in DOMAIN queue' /\ queue'[Len(queue) + 1] = p
      BY <3>1
    <3> QED BY <3>1, <3>2 DEF InLine
  <2>2. CASE ~Waits(p)
    <3>1. UNCHANGED queue
      BY <1>5, <2>2 DEF PressShape, Empties, Enters, Accepted, Rejected, Sends,
         GivesUp, Retires, Uses, LetsGo, Saves
    <3>2. \E label : label # "queued" /\ pc' = [pc EXCEPT ![p] = label]
      BY <1>5, <2>2 DEF PressShape, Empties, Enters, Begin, Accepted, Rejected, Sends,
         GivesUp, Retires, Uses, Saves, Report, Goto
    <3> QED BY <1>1, <3>1, <3>2
  <2> QED BY <2>1, <2>2
<1> QED BY <1>2, <1>3, <1>4, <1>5 DEF Shape

\* No press is left out: one that waits for the lock has exactly one place in its
\* line, through hand-overs, failures and crashes (async_open_door, _open_lock).
THEOREM WaiterIsInLine ==
    Spec => [](\A p \in Presses : pc[p] = "queued" =>
                  \E i \in DOMAIN queue : queue[i] = p /\ \A j \in DOMAIN queue : queue[j] = p => i = j)
<1>1. Init => InLine
  BY DEF Init, InLine
<1>2. IInv /\ InLine /\ [Next]_vars => InLine'
  BY NextShape, InLineStep DEF IInv
<1>3. IInv /\ InLine => \A p \in Presses : pc[p] = "queued" =>
          \E i \in DOMAIN queue : queue[i] = p /\ \A j \in DOMAIN queue : queue[j] = p => i = j
  BY DEF IInv, LineUp, InLine, Distinct
<1> QED BY <1>1, <1>2, <1>3, IInvHolds, PTL DEF Spec
=============================================================================
