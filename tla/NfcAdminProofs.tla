--------------------------- MODULE NfcAdminProofs ---------------------------
(***************************************************************************)
(* Administration calls run one at a time: proofs for any number of calls  *)
(* and badges, and for any commands they may send.                         *)
(***************************************************************************)
EXTENDS NfcAdmin, TLAPS

\* An answer of the mailbox is added to the ones in the air, or lost.
LEMMA PushType ==
    ASSUME TypeOK, NEW kind, NEW uid \in Badges, Push(kind, uid),
           kind \in {"found", "exists", "scanTimeout", "registered", "already",
                     "unregistered", "unauthorized"}
    PROVE  air' \in Seq(Answer)
<1>1. [kind |-> kind, uid |-> uid] \in Answer
  BY DEF Answer
<1> QED BY <1>1 DEF Push, TypeOK

\* Leaving the lock keeps the types.
LEMMA LeaveType ==
    ASSUME TypeOK, NEW o \in Ops, NEW report \in Result, Leave(o, report)
    PROVE  /\ owner' \in Ops \cup {NoOp} /\ answer' \in Answer \cup {None, Pending}
           /\ pc' \in [Ops -> PC] /\ outcome' \in [Ops -> Result]
           /\ temp' \subseteq Ops /\ shown' \in BOOLEAN
BY DEF Leave, Goto, TypeOK, PC

\* So does the end of a body.
LEMMA FinishType ==
    ASSUME TypeOK, NEW o \in Ops, NEW report \in Result, Finish(o, report)
    PROVE  /\ owner' \in Ops \cup {NoOp} /\ answer' \in Answer \cup {None, Pending}
           /\ pc' \in [Ops -> PC] /\ outcome' \in [Ops -> Result]
           /\ result' \in [Ops -> Result]
           /\ temp' \subseteq Ops /\ shown' \in BOOLEAN
<1>1. CASE o \in temp
  BY <1>1 DEF Finish, Goto, TypeOK, PC, LockedPC
<1>2. CASE o \notin temp
  BY <1>2, LeaveType DEF Finish, TypeOK
<1> QED BY <1>1, <1>2

\* What the mailbox does with a command keeps its types.
LEMMA ObeyType ==
    ASSUME TypeOK, NEW o \in Ops, Obey(o)
    PROVE  /\ tags' \subseteq Badges /\ vigik' \in BOOLEAN /\ scanning' \in BOOLEAN
           /\ air' \in Seq(Answer)
<1>0. Target \in Badges /\ badge[o] \in Badges
  BY NfcAdminAssumption DEF TypeOK
<1>1. CASE ~keyOk
  BY <1>0, <1>1, PushType DEF Obey, TypeOK
<1>2. CASE keyOk /\ command[o] = "scan"
  BY <1>2 DEF Obey, TypeOK
<1>3. CASE keyOk /\ command[o] = "register"
  BY <1>0, <1>3, PushType DEF Obey, TypeOK
<1>4. CASE keyOk /\ command[o] = "unregister"
  BY <1>0, <1>4, PushType DEF Obey, TypeOK
<1>5. CASE keyOk /\ command[o] \notin {"scan", "register", "unregister"}
  BY <1>5 DEF Obey, TypeOK
<1> QED BY <1>1, <1>2, <1>3, <1>4, <1>5

\* Every action keeps the types.
LEMMA TypeStep == TypeOK /\ [Next]_vars => TypeOK'
<1> SUFFICES ASSUME TypeOK, [Next]_vars PROVE TypeOK'
  OBVIOUS
<1> USE DEF box, link, calls
<1>1. ASSUME NEW o \in Ops, Call(o) PROVE TypeOK'
  <2>1. \A first \in First : first \in Command
    BY NfcAdminAssumption DEF Command
  <2> QED BY <1>1, <2>1 DEF Call, Goto, TypeOK, PC
<1>2. ASSUME NEW o \in Ops, Acquire(o) PROVE TypeOK'
  BY <1>2 DEF Acquire, Enter, Goto, TypeOK, PC, LockedPC, WritePC
<1>3. ASSUME NEW o \in Ops, ConnectFails(o) PROVE TypeOK'
  <2>1. "failed" \in Result
    BY DEF Result
  <2> QED BY <1>3, <2>1, LeaveType DEF ConnectFails, TypeOK
<1>4. ASSUME NEW o \in Ops, Connect(o) PROVE TypeOK'
  BY <1>4 DEF Connect, Goto, TypeOK, PC, LockedPC
<1>5. ASSUME NEW o \in Ops, Subscribe(o) PROVE TypeOK'
  BY <1>5 DEF Subscribe, Goto, TypeOK, PC, LockedPC, WritePC
<1>6. ASSUME NEW o \in Ops, Write(o) PROVE TypeOK'
  BY <1>6, ObeyType DEF Write, Goto, TypeOK, PC, LockedPC, WritePC
<1>7. ASSUME NEW o \in Ops, Written(o) PROVE TypeOK'
  BY <1>7 DEF Written, Goto, TypeOK, PC, LockedPC, WritePC
<1>8. ASSUME NEW o \in Ops, LinkFails(o) PROVE TypeOK'
  <2>1. "failed" \in Result
    BY DEF Result
  <2> QED BY <1>8, <2>1, FinishType DEF LinkFails, TypeOK
<1>9. ASSUME NEW o \in Ops, Timeout(o) PROVE TypeOK'
  <2>1. PICK report \in Result : Finish(o, report)
    BY <1>9 DEF Timeout, Result
  <2> QED BY <1>9, <2>1, FinishType DEF Timeout, TypeOK
<1>10. ASSUME NEW o \in Ops, Found(o) PROVE TypeOK'
  <2>1. answer.uid \in Badges
    BY <1>10 DEF Found, Answered, Settled, Answer
  <2> QED BY <1>10, <2>1 DEF Found, Goto, TypeOK, PC, LockedPC, WritePC, Command
<1>11. ASSUME NEW o \in Ops, Conclude(o) PROVE TypeOK'
  <2>1. Verdict(o) \in Result
    BY DEF Verdict, Result
  <2> QED BY <1>11, <2>1, FinishType DEF Conclude, TypeOK
<1>12. ASSUME NEW o \in Ops, Close(o) PROVE TypeOK'
  <2>1. PICK report \in Result : Leave(o, report)
    BY <1>12 DEF Close, TypeOK, Result
  <2> QED BY <1>12, <2>1, LeaveType DEF Close, TypeOK
<1>13. ASSUME NEW uid \in Badges, Present(uid) PROVE TypeOK'
  <2>1. air' \in Seq(Answer)
    BY <1>13, PushType DEF Present
  <2>2. seen' \in [Ops -> SUBSET Badges]
    BY <1>13 DEF Present, TypeOK
  <2> QED BY <1>13, <2>1, <2>2 DEF Present, TypeOK
<1>14. CASE ScanEnds
  <2>1. air' \in Seq(Answer)
    BY <1>14, PushType, NfcAdminAssumption DEF ScanEnds
  <2> QED BY <1>14, <2>1 DEF ScanEnds, TypeOK
<1>15. CASE Deliver
  <2>1. air' \in Seq(Answer) /\ Head(air) \in Answer
    BY <1>15 DEF Deliver, TypeOK
  <2> QED BY <1>15, <2>1 DEF Deliver, TypeOK
<1>16. CASE HeldMoves
  <2>1. held' \in {"down", "up", "sub"} /\ lost' \subseteq Ops
    BY <1>16 DEF HeldMoves, TypeOK
  <2>3. air' = air \/ air' = <<>>
    BY <1>16 DEF HeldMoves
  <2>4. air' \in Seq(Answer)
    <3>1. air \in Seq(Answer) /\ <<>> \in Seq(Answer)
      BY DEF TypeOK
    <3> QED BY <2>3, <3>1
  <2>2. UNCHANGED <<box, owner, answer, pc, command, temp, badge, result, outcome, shown,
                   reboot, seen>>
    BY <1>16 DEF HeldMoves
  <2> QED BY <2>1, <2>2, <2>4 DEF TypeOK
<1>17. CASE UNCHANGED vars
  BY <1>17 DEF vars, TypeOK
<1>18. CASE Reboot \/ RebootEnds
  BY <1>18 DEF Reboot, RebootEnds, TypeOK
<1>19. CASE Restarts
  <2>1. lost' \subseteq Ops /\ <<>> \in Seq(Answer)
    BY <1>19 DEF Restarts, TypeOK
  <2> QED BY <1>19, <2>1 DEF Restarts, TypeOK
<1> QED
  BY <1>1, <1>2, <1>3, <1>4, <1>5, <1>6, <1>7, <1>8, <1>9, <1>10, <1>11, <1>12,
     <1>13, <1>14, <1>15, <1>16, <1>17, <1>18, <1>19 DEF Next, Step

-----------------------------------------------------------------------------
(* One operation.  A step moves one call: it takes the lock, stays in it or *)
(* leaves it.                                                               *)

Stays(o) ==
    /\ pc[o] \in LockedPC /\ pc'[o] \in LockedPC
    /\ \A p \in Ops \ {o} : pc'[p] = pc[p]
    /\ owner' = owner

Leaves(o) ==
    /\ pc[o] \in LockedPC /\ pc'[o] \notin LockedPC
    /\ \A p \in Ops \ {o} : pc'[p] = pc[p]
    /\ owner' = NoOp /\ answer' = None

LEMMA StaysKeeps ==
    ASSUME OneOperation, NEW o \in Ops, Stays(o) PROVE OneOperation'
BY NfcAdminAssumption DEF OneOperation, Stays

LEMMA LeavesKeeps ==
    ASSUME OneOperation, NEW o \in Ops, Leaves(o) PROVE OneOperation'
BY NfcAdminAssumption DEF OneOperation, Leaves

\* The end of a body leaves the lock, or closes the session first.
LEMMA FinishMoves ==
    ASSUME TypeOK, NEW o \in Ops, NEW report, Finish(o, report), pc[o] \in LockedPC
    PROVE  Stays(o) \/ Leaves(o)
BY DEF Finish, Leave, Goto, Stays, Leaves, TypeOK, LockedPC, WritePC

LEMMA LeaveMoves ==
    ASSUME TypeOK, NEW o \in Ops, NEW report, Leave(o, report), pc[o] \in LockedPC
    PROVE  Leaves(o)
BY DEF Leave, Goto, Leaves, TypeOK, LockedPC, WritePC

\* A call inside the lock stays in it or leaves it.
LEMMA StepMoves ==
    ASSUME TypeOK, NEW o \in Ops, Step(o), ~Acquire(o)
    PROVE  Stays(o) \/ Leaves(o)
<1> USE DEF box, link
<1>1. CASE ConnectFails(o)
  BY <1>1, LeaveMoves DEF ConnectFails, LockedPC
<1>2. CASE Connect(o) \/ Subscribe(o) \/ Written(o) \/ Write(o)
  BY <1>2 DEF Connect, Subscribe, Written, Write, Goto, Stays, TypeOK, LockedPC, WritePC
<1>3. CASE LinkFails(o)
  BY <1>3, FinishMoves DEF LinkFails, LockedPC, WritePC
<1>4. CASE Timeout(o)
  <2>1. pc[o] \in LockedPC
    BY <1>4 DEF Timeout, InTime, LockedPC, WritePC
  <2> QED BY <1>4, <2>1, FinishMoves DEF Timeout
<1>5. CASE Found(o)
  BY <1>5 DEF Found, Answered, Goto, Stays, TypeOK, LockedPC, WritePC
<1>6. CASE Conclude(o)
  <2>1. pc[o] \in LockedPC
    BY <1>6 DEF Conclude, Answered, LockedPC, WritePC
  <2> QED BY <1>6, <2>1, FinishMoves DEF Conclude
<1>7. CASE Close(o)
  BY <1>7, LeaveMoves DEF Close, LockedPC
<1> QED BY <1>1, <1>2, <1>3, <1>4, <1>5, <1>6, <1>7 DEF Step

LEMMA OneStep == TypeOK /\ OneOperation /\ [Next]_vars => OneOperation'
<1> SUFFICES ASSUME TypeOK, OneOperation, [Next]_vars PROVE OneOperation'
  OBVIOUS
<1> USE DEF box, link, calls
<1>1. ASSUME NEW o \in Ops, Call(o) PROVE OneOperation'
  BY <1>1 DEF Call, Goto, OneOperation, TypeOK, LockedPC, WritePC
<1>2. ASSUME NEW o \in Ops, Acquire(o) PROVE OneOperation'
  BY <1>2, NfcAdminAssumption DEF Acquire, Enter, Goto, OneOperation, TypeOK, LockedPC, WritePC
<1>3. ASSUME NEW o \in Ops, Step(o), ~Acquire(o) PROVE OneOperation'
  BY <1>3, StepMoves, StaysKeeps, LeavesKeeps
<1>4. ASSUME NEW uid \in Badges, Present(uid) PROVE OneOperation'
  BY <1>4 DEF Present, OneOperation
<1>5. CASE ScanEnds \/ HeldMoves \/ Reboot \/ Restarts \/ RebootEnds
  BY <1>5 DEF ScanEnds, HeldMoves, Reboot, Restarts, RebootEnds, OneOperation
<1>6. CASE Deliver
  <2>1. answer' # None => answer # None
    <3>1. None # Pending
      BY DEF None, Pending
    <3> QED BY <1>6, <3>1 DEF Deliver
  <2> QED BY <1>6, <2>1 DEF Deliver, OneOperation
<1>7. CASE UNCHANGED vars
  BY <1>7 DEF vars, OneOperation
<1> QED
  BY <1>1, <1>2, <1>3, <1>4, <1>5, <1>6, <1>7 DEF Next

LEMMA BothHold == Spec => [](TypeOK /\ OneOperation)
<1>1. Init => TypeOK /\ OneOperation
  <2> SUFFICES ASSUME Init PROVE TypeOK /\ OneOperation
    OBVIOUS
  <2>1. "idle" \in PC /\ "none" \in Command /\ "none" \in Result /\ <<>> \in Seq(Answer)
    BY DEF PC, Command, Result
  <2>2. TypeOK
    BY <2>1, NfcAdminAssumption DEF Init, TypeOK
  <2>3. OneOperation
    BY NfcAdminAssumption DEF Init, OneOperation, LockedPC, WritePC
  <2> QED BY <2>2, <2>3
<1>2. TypeOK /\ OneOperation /\ [Next]_vars => (TypeOK /\ OneOperation)'
  BY TypeStep, OneStep
<1> QED BY <1>1, <1>2, PTL DEF Spec

-----------------------------------------------------------------------------
(* What a call reports of a badge.  A mailbox that refuses the key has nothing *)
(* to say but that; one that accepts it has obeyed every command that was      *)
(* acknowledged, and no other call has sent one since.                         *)

BoxInv ==
    ~keyOk => /\ ~scanning
              /\ answer \in Answer => answer.kind = "unauthorized"
              /\ \A i \in DOMAIN air : air[i].kind = "unauthorized"

Registered == {"registered", "already"}

OpInv(o) ==
    /\ pc[o] \in {"written", "waiting"} /\ keyOk =>
          /\ command[o] = "register" => badge[o] \in tags
          /\ command[o] = "unregister" => Target \notin tags
    /\ pc[o] = "closing" =>
          /\ result[o] \in Registered => badge[o] \in tags
          /\ result[o] = "revoked" => Target \notin tags

AdminInv == BoxInv /\ \A o \in Ops : OpInv(o)

\* What a call may report, given what the mailbox holds.
Earned(o, report) ==
    /\ report \in Registered => badge[o] \in tags
    /\ report = "revoked" => Target \notin tags

\* Only one call is inside the lock.
LEMMA Alone ==
    ASSUME OneOperation, NEW o \in Ops, NEW p \in Ops,
           pc[o] \in LockedPC, pc[p] \in LockedPC
    PROVE  o = p
BY DEF OneOperation

\* A call outside the lock has nothing to say.
LEMMA OutsideKeeps ==
    ASSUME NEW o, pc'[o] \notin LockedPC PROVE OpInv(o)'
BY DEF OpInv, LockedPC, WritePC

\* The others are outside, before and after a step of the one inside.
LEMMA OthersKeep ==
    ASSUME TypeOK, OneOperation, NEW o \in Ops, pc[o] \in LockedPC,
           \A p \in Ops \ {o} : pc'[p] = pc[p], OpInv(o)'
    PROVE  \A p \in Ops : OpInv(p)'
<1> SUFFICES ASSUME NEW p \in Ops, p # o PROVE OpInv(p)'
  OBVIOUS
<1>1. pc'[p] \notin LockedPC
  BY Alone
<1> QED BY <1>1, OutsideKeeps

\* A call reports what it has earned when it closes its session or leaves.
LEMMA FinishKeeps ==
    ASSUME TypeOK, NEW o \in Ops, NEW report, Finish(o, report), Earned(o, report),
           UNCHANGED <<tags, badge>>
    PROVE  OpInv(o)' /\ \A p \in Ops \ {o} : pc'[p] = pc[p]
<1>1. CASE o \in temp
  BY <1>1 DEF Finish, Goto, Earned, OpInv, TypeOK, Registered
<1>2. CASE o \notin temp
  BY <1>2 DEF Finish, Leave, Goto, OpInv, TypeOK
<1> QED BY <1>1, <1>2

\* An answer other than a refusal comes from a mailbox that accepts the key.
LEMMA VerdictEarned ==
    ASSUME AdminInv, NEW o \in Ops, Answered(o) PROVE Earned(o, Verdict(o))
<1>1. CASE keyOk
  BY <1>1 DEF AdminInv, OpInv, Answered, Verdict, Earned, Registered
<1>2. CASE ~keyOk
  <2>1. answer.kind = "unauthorized"
    BY <1>2 DEF AdminInv, BoxInv, Answered, Settled
  <2> QED BY <2>1 DEF Verdict, Earned, Registered
<1> QED BY <1>1, <1>2

\* What the mailbox sends agrees with its key.
LEMMA PushKeeps ==
    ASSUME TypeOK, BoxInv, NEW kind, NEW uid, Push(kind, uid), keyOk' = keyOk,
           keyOk \/ (kind = "unauthorized" /\ scanning' = scanning), answer' = answer
    PROVE  BoxInv'
<1>1. CASE keyOk
  BY <1>1 DEF BoxInv
<1>2. CASE ~keyOk
  <2>1. \A i \in DOMAIN air' : air'[i].kind = "unauthorized"
    <3>1. CASE air' = air
      BY <1>2, <3>1 DEF BoxInv
    <3>2. CASE air' = Append(air, [kind |-> kind, uid |-> uid])
      BY <1>2, <3>2 DEF BoxInv, TypeOK
    <3> QED BY <3>1, <3>2 DEF Push
  <2> QED BY <1>2, <2>1 DEF BoxInv
<1> QED BY <1>1, <1>2

\* The command of a call is obeyed before its write is acknowledged.
LEMMA WriteKeeps ==
    ASSUME TypeOK, OneOperation, AdminInv, NEW o \in Ops, Write(o) PROVE AdminInv'
<1>0. keyOk' = keyOk /\ UNCHANGED <<answer, command, badge, result>>
  BY DEF Write
<1>1. pc[o] \in LockedPC /\ pc'[o] = "written" /\ \A p \in Ops \ {o} : pc'[p] = pc[p]
  BY DEF Write, Goto, TypeOK, LockedPC, WritePC
<1>2. BoxInv'
  <2>1. CASE keyOk
    BY <1>0, <2>1 DEF BoxInv
  <2>2. CASE ~keyOk
    <3>1. Push("unauthorized", Target) /\ scanning' = scanning
      BY <2>2 DEF Write, Obey
    <3> QED BY <1>0, <3>1, PushKeeps DEF AdminInv
  <2> QED BY <2>1, <2>2
<1>3. OpInv(o)'
  <2>1. keyOk /\ command[o] = "register" => badge[o] \in tags'
    BY DEF Write, Obey
  <2>2. keyOk /\ command[o] = "unregister" => Target \notin tags'
    BY DEF Write, Obey
  <2> QED BY <1>0, <1>1, <2>1, <2>2 DEF OpInv
<1> QED BY <1>1, <1>2, <1>3, OthersKeep DEF AdminInv

\* No other step of a call changes the mailbox.
LEMMA CallKeeps ==
    ASSUME TypeOK, OneOperation, AdminInv, NEW o \in Ops, Step(o), ~Acquire(o), ~Write(o)
    PROVE  AdminInv'
<1> USE DEF box, link, calls
<1>0. UNCHANGED <<keyOk, tags, scanning>> /\ (air' = air \/ air' = <<>>)
  BY DEF Step, ConnectFails, Connect, Subscribe, Written, LinkFails, Timeout, Found,
         Conclude, Close
<1>1. answer' \in {answer, None, Pending}
  BY DEF Step, ConnectFails, Connect, Subscribe, Written, LinkFails, Timeout, Found,
         Conclude, Close, Finish, Leave
<1>2. BoxInv'
  <2>1. None \notin Answer /\ Pending \notin Answer
    BY DEF None, Pending, Answer
  <2>2. answer' \in Answer => answer' = answer
    BY <1>1, <2>1
  <2>3. DOMAIN <<>> = {}
    OBVIOUS
  <2> QED BY <1>0, <2>2, <2>3 DEF AdminInv, BoxInv
<1>3. pc[o] \in LockedPC
  BY StepMoves DEF Stays, Leaves
<1>4. \A p \in Ops \ {o} : pc'[p] = pc[p]
  BY StepMoves DEF Stays, Leaves
<1>5. OpInv(o)'
  <2>1. CASE pc'[o] \notin LockedPC
    BY <2>1, OutsideKeeps
  <2>2. CASE Connect(o) \/ Subscribe(o)
    BY <2>2 DEF Connect, Subscribe, Goto, TypeOK, OpInv
  <2>3. CASE Written(o)
    BY <2>3 DEF Written, Goto, TypeOK, OpInv, AdminInv
  <2>4. CASE Found(o)
    BY <2>4 DEF Found, Goto, TypeOK, OpInv
  <2>5. CASE LinkFails(o)
    BY <2>5, FinishKeeps DEF LinkFails, Earned, Registered
  <2>6. CASE Timeout(o)
    BY <2>6, FinishKeeps DEF Timeout, Earned, Registered
  <2>7. CASE Conclude(o)
    BY <2>7, FinishKeeps, VerdictEarned DEF Conclude
  <2>8. CASE ConnectFails(o) \/ Close(o)
    BY <2>1, <2>8 DEF ConnectFails, Close, Leave, Goto, TypeOK, LockedPC, WritePC
  <2> QED BY <2>1, <2>2, <2>3, <2>4, <2>5, <2>6, <2>7, <2>8 DEF Step
<1> QED BY <1>2, <1>3, <1>4, <1>5, OthersKeep DEF AdminInv

\* Steps outside the calls leave the badges, and what the calls say of them.
LEMMA AroundKeeps ==
    ASSUME AdminInv, BoxInv', UNCHANGED <<keyOk, tags, command, badge, result>>,
           \A o \in Ops : pc'[o] = pc[o] \/ pc'[o] \notin {"written", "waiting", "closing"}
    PROVE  AdminInv'
BY DEF AdminInv, OpInv

LEMMA AdminStep == TypeOK /\ OneOperation /\ AdminInv /\ [Next]_vars => AdminInv'
<1> SUFFICES ASSUME TypeOK, OneOperation, AdminInv, [Next]_vars PROVE AdminInv'
  OBVIOUS
<1> USE DEF box, link, calls
<1>1. ASSUME NEW o \in Ops, Call(o) PROVE AdminInv'
  <2>1. BoxInv'
    BY <1>1 DEF Call, AdminInv, BoxInv
  <2>2. \A p \in Ops : OpInv(p)'
    BY <1>1 DEF Call, Goto, AdminInv, OpInv, TypeOK
  <2> QED BY <2>1, <2>2 DEF AdminInv
<1>2. ASSUME NEW o \in Ops, Acquire(o) PROVE AdminInv'
  <2>1. BoxInv'
    <3>1. Pending \notin Answer
      BY DEF Pending, Answer
    <3> QED BY <1>2, <3>1 DEF Acquire, Enter, AdminInv, BoxInv
  <2>2. \A p \in Ops : pc'[p] = pc[p] \/ pc'[p] \notin {"written", "waiting", "closing"}
    BY <1>2 DEF Acquire, Enter, Goto, TypeOK
  <2> QED BY <1>2, <2>1, <2>2, AroundKeeps DEF Acquire, Enter
<1>3. ASSUME NEW o \in Ops, Step(o), ~Acquire(o) PROVE AdminInv'
  BY <1>3, WriteKeeps, CallKeeps
<1>4. ASSUME NEW uid \in Badges, Present(uid) PROVE AdminInv'
  <2>1. BoxInv'
    BY <1>4 DEF Present, AdminInv, BoxInv
  <2> QED BY <1>4, <2>1, AroundKeeps DEF Present
<1>5. CASE ScanEnds
  <2>1. BoxInv'
    BY <1>5 DEF ScanEnds, AdminInv, BoxInv
  <2> QED BY <1>5, <2>1, AroundKeeps DEF ScanEnds
<1>6. CASE Deliver
  <2>1. CASE keyOk
    <3>1. BoxInv'
      BY <1>6, <2>1 DEF Deliver, BoxInv
    <3> QED BY <1>6, <3>1, AroundKeeps DEF Deliver
  <2>2. CASE ~keyOk
    <3>1. Head(air).kind = "unauthorized"
      BY <1>6, <2>2 DEF Deliver, AdminInv, BoxInv, TypeOK
    <3>2. \A i \in DOMAIN air' : air'[i].kind = "unauthorized"
      BY <1>6, <2>2 DEF Deliver, AdminInv, BoxInv, TypeOK
    <3>3. BoxInv'
      BY <1>6, <2>2, <3>1, <3>2 DEF Deliver, AdminInv, BoxInv
    <3> QED BY <1>6, <3>3, AroundKeeps DEF Deliver
  <2> QED BY <2>1, <2>2
<1>7. CASE HeldMoves \/ Reboot \/ RebootEnds \/ Restarts \/ UNCHANGED vars
  <2>1. /\ UNCHANGED <<keyOk, tags, answer, pc, command, badge, result>>
        /\ scanning' \in {scanning, FALSE}
        /\ air' = air \/ air' = <<>>
    BY <1>7 DEF HeldMoves, Reboot, RebootEnds, Restarts, vars
  <2>2. DOMAIN <<>> = {}
    OBVIOUS
  <2>3. BoxInv'
    BY <2>1, <2>2 DEF AdminInv, BoxInv
  <2> QED BY <2>1, <2>3, AroundKeeps
<1> QED
  BY <1>1, <1>2, <1>3, <1>4, <1>5, <1>6, <1>7 DEF Next

LEMMA AdminInvHolds == Spec => []AdminInv
<1>1. Init => AdminInv
  BY DEF Init, AdminInv, BoxInv, OpInv, None, Answer
<1> QED BY <1>1, AdminStep, BothHold, PTL DEF Spec

\* A step in which a call reports is one in which it has earned its report.
LEMMA ReportEarned ==
    ASSUME TypeOK, OneOperation, AdminInv, [Next]_vars, NEW o \in Ops,
           outcome'[o] # outcome[o]
    PROVE  Earned(o, outcome'[o]) /\ tags' = tags
<1> USE DEF box, link, calls
<1>1. PICK p \in Ops : ConnectFails(p) \/ LinkFails(p) \/ Timeout(p) \/ Conclude(p) \/ Close(p)
  BY DEF Next, vars, Step, Call, Acquire, Enter, Connect, Subscribe, Write, Written, Found,
         Present, ScanEnds, Deliver, HeldMoves, Reboot, Restarts, RebootEnds
<1>2. tags' = tags
  BY <1>1 DEF ConnectFails, LinkFails, Timeout, Conclude, Close
<1>3. ASSUME NEW report, Leave(p, report), Earned(p, report)
      PROVE  Earned(o, outcome'[o])
  BY <1>3 DEF Leave, TypeOK
<1>4. ASSUME NEW report, Finish(p, report), Earned(p, report)
      PROVE  Earned(o, outcome'[o])
  BY <1>3, <1>4 DEF Finish
<1>5. Earned(p, "failed") /\ Earned(p, "set")
  BY DEF Earned, Registered
<1>6. CASE ConnectFails(p) \/ LinkFails(p) \/ Timeout(p)
  BY <1>3, <1>4, <1>5, <1>6 DEF ConnectFails, LinkFails, Timeout
<1>7. CASE Conclude(p)
  BY <1>4, <1>7, VerdictEarned DEF Conclude
<1>8. CASE Close(p)
  <2>1. Earned(p, result[p])
    BY <1>8 DEF Close, AdminInv, OpInv, Earned
  <2> QED BY <1>3, <1>5, <1>8, <2>1 DEF Close
<1> QED BY <1>1, <1>2, <1>6, <1>7, <1>8

-----------------------------------------------------------------------------
(* The theorems. *)

\* The types of the calls, the answers and the mailbox.
THEOREM TypeCorrect == Spec => []TypeOK
BY BothHold, PTL

\* The lock has one holder, and the future is his.
THEOREM OneOperationHolds == Spec => []OneOperation
BY BothHold, PTL

\* A badge reported as enrolled is one the mailbox accepts (async_register_nfc_tag),
\* whatever other calls do, and whenever the mailbox leaves or is rebooted.
THEOREM EnrolledIsInHolds == Spec => EnrolledIsIn
<1>1. TypeOK /\ OneOperation /\ AdminInv /\ [Next]_vars =>
        [ \A o \in Ops : /\ outcome'[o] \in {"registered", "already"}
                         /\ outcome[o] = "none"
                         => badge[o] \in tags' ]_vars
  BY ReportEarned DEF Earned, Registered
<1> QED BY <1>1, BothHold, AdminInvHolds, PTL DEF Spec, EnrolledIsIn

\* A badge reported as revoked is one it no longer accepts (async_unregister_nfc_tag).
THEOREM RevokedIsGoneHolds == Spec => RevokedIsGone
<1>1. TypeOK /\ OneOperation /\ AdminInv /\ [Next]_vars =>
        [ \A o \in Ops : outcome'[o] = "revoked" /\ outcome[o] = "none"
                         => Target \notin tags' ]_vars
  BY ReportEarned DEF Earned
<1> QED BY <1>1, BothHold, AdminInvHolds, PTL DEF Spec, RevokedIsGone
=============================================================================
