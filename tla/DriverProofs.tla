---------------------------- MODULE DriverProofs ----------------------------
(***************************************************************************)
(* What the PlatformDriver under the dispatch loop adds to the contract of *)
(* a platform: what it promises about staged images and floors.            *)
(***************************************************************************)
EXTENDS PlatformDriver, BatchProofs

\* A leaf that names no prover is tried with these, in this order, for so many seconds
\* each.  The repeated SMT only matters on a loaded machine, where one attempt can stall.
USE SMTT(30), SMTT(31), ZenonT(30), SMTT(32)

----------------------------------------------------------------------------
(***************************************************************************)
(* The invariant of the driver under the loop.  FloorBelowRunning says     *)
(* nothing of a component on its way out of reset: the verdict that        *)
(* releases it travels through the queue, and then ReleaseReset through    *)
(* the batch, and nothing may overtake it on the way.                      *)
(***************************************************************************)

\* c's last verdict was a pass, at or above its floor.
Sound(c) == verified_svn[c] # None /\ floors[c] <= verified_svn[c]

\* Whoever is about to be released, or has just passed, passed for good.
Vouched ==
    \A c \in Comp :
        Has(sink, "ReleaseReset", c) \/ Queued(pending, About("VerificationPassed", c)) => Sound(c)

BoardTypes ==
    /\ lines \subseteq Comp
    /\ floors \in [Comp -> Svn]
    /\ verified_svn \in [Comp -> Svn \cup {None}]

DriverInv ==
    /\ LoopInv
    /\ BatchInv
    /\ BoardTypes
    /\ StagedWhenVerified
    /\ FloorBelowRunning
    /\ Live => Settled(released, sink, lines) /\ OneAtATime /\ Vouched

\* A batch in which VerifyFirmware comes next is at its ReadFirmware.
LEMMA ReadPrecedes ==
    ASSUME NEW q \in Seq(Effect), q # <<>>, NEW c, Shaped(q, c), Tail(q) # <<>>,
           Head(Tail(q)).op = "VerifyFirmware"
    PROVE  Head(q) = Fx("ReadFirmware", c) /\ Head(Tail(q)).id = c
<1> DEFINE t == Tail(q)
<1>1. /\ Head(q) = q[1] /\ t \in Seq(Effect)
      /\ \A i \in 1..Len(t) : i + 1 \in 1..Len(q) /\ t[i] = q[i + 1]
  BY Front
<1>2. Head(t) = t[1] /\ 1 \in 1..Len(t)
  <2>1. Head(t) = t[1] /\ Len(t) \in Nat \ {0}
    BY <1>1, Front
  <2> QED
    BY <2>1
<1>3. 2 \in 1..Len(q) /\ Head(t) = q[2]
  BY <1>1, <1>2
<1> HIDE DEF t
<1>4. q[2].op = "VerifyFirmware" /\ q[2].id = Head(t).id
  BY <1>3 DEF t
<1>5. q[2].id = c /\ (2 > 1 => q[2 - 1] = Fx("ReadFirmware", c))
  BY ZenonT(30), <1>3, <1>4 DEF Shaped
<1> QED
  BY <1>1, <1>4, <1>5 DEF t

\* A batch the reducer has just handed over does not start with VerifyFirmware.
LEMMA VerifyComesLater ==
    ASSUME Shapes, sink' # <<>>
    PROVE  Head(sink').op # "VerifyFirmware"
<1> SUFFICES ASSUME Head(sink').op = "VerifyFirmware" PROVE FALSE
  OBVIOUS
<1> DEFINE q == sink'
           c == cursor'
<1>1. q \in Seq(Effect) /\ q # <<>> /\ Shaped(q, c) /\ Head(q).op = "VerifyFirmware"
  BY DEF Shapes
<1>2. Has(q, "VerifyFirmware", c) => Fx("ReadFirmware", c) \in Elems(q)
  BY DEF Shapes
<1> HIDE DEF q, c
<1>3. Tail(q) = <<>> /\ Head(q).id = c
  BY <1>1, ShapedTail
<1>4. Elems(q) = {Head(q)} \cup Elems(Tail(q)) /\ Elems(<<>>) = {}
  BY <1>1, Front, ElemsShort
<1>5. Elems(q) = {Head(q)}
  BY ZenonT(30), <1>3, <1>4
<1>6. Fx("ReadFirmware", c) = Head(q)
  BY ZenonT(30), <1>1, <1>2, <1>3, <1>5 DEF Has
<1>7. Fx("ReadFirmware", c).op = "ReadFirmware"
  BY DEF Fx
<1> QED
  BY ZenonT(30), <1>1, <1>6, <1>7

\* The part of the invariant that holds in a run that failed or locked too.
LEMMA DriverDead ==
    ASSUME LoopInv', BatchInv', BoardTypes', StagedWhenVerified', FloorBelowRunning',
           failed' \/ state' = "Locked"
    PROVE  DriverInv'
BY DEF DriverInv, Live

\* An executor fails: the run has failed.
LEMMA DriverErr ==
    ASSUME DriverInv, ExecuteErr, BoardTypes', FloorBelowRunning'
    PROVE  DriverInv'
<1>1. /\ sink # <<>> /\ Abandon /\ sink' = <<>> /\ failed' = TRUE /\ UNCHANGED reducer
  BY DEF ExecuteErr, External, Abandon
<1>2. LoopInv /\ BatchInv
  BY DEF DriverInv
<1>3. LoopInv'
  BY ZenonT(30), <1>1, <1>2, AbandonInv
<1>4. BatchInv'
  BY ZenonT(30), <1>1, <1>2, ExecuteBatch
<1>5. StagedWhenVerified'
  BY <1>1 DEF StagedWhenVerified
<1> QED
  BY ZenonT(30), <1>1, <1>3, <1>4, <1>5, DriverDead

\* An executor returns Ok(None).
LEMMA DriverOk ==
    ASSUME DriverInv, ExecuteOk, BoardTypes', FloorBelowRunning',
           Drives(Head(sink), lines, lines'), \A c \in Comp : Sound(c) => Sound(c)',
           Head(sink).op = "ReadFirmware" => staged' = Head(sink).id
    PROVE  DriverInv'
<1>1. /\ sink # <<>> /\ sink' = Tail(sink) /\ pending' = pending /\ failed' = failed
      /\ UNCHANGED reducer
  BY DEF ExecuteOk, External, SinkTail
<1>2. LoopInv /\ BatchInv
  BY DEF DriverInv
<1>3. sink \in Seq(Effect) /\ Shaped(sink, cursor)
  BY <1>2 DEF BatchInv
<1>4. Elems(sink) = {Head(sink)} \cup Elems(Tail(sink))
  BY ZenonT(30), <1>1, <1>3, Front
<1>5. LoopInv'
  BY ZenonT(30), <1>1, <1>2, ConsumeInv DEF LoopInv, LoopTypeOK
<1>6. BatchInv'
  BY <1>1, <1>2, ExecuteBatch
<1>7. StagedWhenVerified'
  <2> SUFFICES ASSUME Tail(sink) # <<>>, Head(Tail(sink)).op = "VerifyFirmware"
               PROVE  staged' = Head(Tail(sink)).id
    BY ZenonT(30), <1>1 DEF StagedWhenVerified
  <2>1. Head(sink) = Fx("ReadFirmware", cursor) /\ Head(Tail(sink)).id = cursor
    BY ZenonT(30), <1>1, <1>3, ReadPrecedes
  <2>2. Head(sink).op = "ReadFirmware" /\ Head(sink).id = cursor
    BY <2>1, FxIs
  <2> QED
    BY <2>1, <2>2
<1>8. CASE Live
  <2>1. Settled(released, sink, lines) /\ OneAtATime /\ Vouched
    BY <1>8 DEF DriverInv
  <2>2. Settled(released, sink, lines)'
    <3>1. Settled(released, Tail(sink), lines')
      BY ZenonT(30), <1>1, <1>3, <2>1, SettledTail
    <3>2. released' = released
      BY <1>1 DEF reducer
    <3> QED
      BY ZenonT(30), <1>1, <3>1, <3>2
  <2>3. OneAtATime'
    BY <1>1, <1>4, <2>1 DEF OneAtATime
  <2>4. Vouched'
    <3>1. \A c : Has(Tail(sink), "ReleaseReset", c) => Has(sink, "ReleaseReset", c)
      BY ZenonT(30), <1>1, <1>3, FrontHas
    <3> QED
      BY ZenonT(30), <1>1, <2>1, <3>1 DEF Vouched
  <2> QED
    BY ZenonT(30), <1>5, <1>6, <1>7, <2>2, <2>3, <2>4 DEF DriverInv
<1>9. CASE ~Live
  <2>1. failed' \/ state' = "Locked"
    BY ZenonT(30), <1>1, <1>9 DEF Live, reducer
  <2> QED
    BY ZenonT(30), <1>5, <1>6, <1>7, <2>1, DriverDead
<1> QED
  BY <1>8, <1>9

\* Queueing an event from the batch, when the queue is empty.
LEMMA Joins ==
    ASSUME pending = <<>>, NEW ev, Enqueue(ev)
    PROVE  pending' = <<ev>> /\ sink' = Tail(sink) /\ failed' = failed
<1>1. Len(pending) = 0 /\ 0 < PendingCap /\ 0 # PendingCap
  BY PendingCapAssumption
<1>2. \A e : Append(<<>>, e) = <<e>>
  OBVIOUS
<1>3. pending' = Append(pending, ev) /\ sink' = Tail(sink) /\ failed' = failed
  BY <1>1 DEF Enqueue
<1> QED
  BY ZenonT(30), <1>2, <1>3

\* The last effect of a batch puts an event into the queue.
LEMMA DriverJoin ==
    ASSUME DriverInv, sink # <<>>, Head(sink).op \in {"VerifyFirmware", "Emit"},
           NEW ev \in Event, Enqueue(ev), UNCHANGED <<reducer, lines>>, BoardTypes',
           FloorBelowRunning', \A c \in Comp : ev = About("VerificationPassed", c) => Sound(c)'
    PROVE  DriverInv'
<1>1. LoopInv /\ BatchInv
  BY DEF DriverInv
<1>2. Head(sink).op # "LatchLockdown"
  OBVIOUS
<1>3. Live /\ sink \in Seq(Effect) /\ Shaped(sink, cursor) /\ Head(sink) \in Elems(sink)
  BY ZenonT(30), <1>1, <1>2, FrontIsLive
<1>4. Settled(released, sink, lines) /\ OneAtATime
  BY <1>3 DEF DriverInv
<1>5. Tail(sink) = <<>>
  BY ZenonT(30), <1>3, ShapedTail
<1>6. pending = <<>>
  BY <1>3, <1>4 DEF OneAtATime, Spawns
<1>7. pending' = <<ev>> /\ sink' = <<>> /\ failed' = failed
  BY ZenonT(30), <1>5, <1>6, Joins
<1>8. LoopInv'
  BY ZenonT(30), <1>1, EnqueueInv
<1>9. BatchInv'
  BY ZenonT(30), <1>1, <1>7, ExecuteBatch
<1>10. Elems(<<>>) = {} /\ \A op, c : ~Has(<<>>, op, c)
  <2>1. Elems(<<>>) = {}
    BY ElemsShort
  <2> QED
    BY <2>1 DEF Has
<1>11. Settled(released, sink, lines)'
  <2>1. Drives(Head(sink), lines, lines')
    BY DEF Drives
  <2>2. Settled(released, Tail(sink), lines')
    BY ZenonT(30), <1>3, <1>4, <2>1, SettledTail
  <2>3. released' = released
    BY DEF reducer
  <2> QED
    BY ZenonT(30), <1>5, <1>7, <2>2, <2>3
<1>12. OneAtATime'
  <2>1. Len(<<ev>>) <= 1
    OBVIOUS
  <2> QED
    BY ZenonT(30), <1>7, <1>10, <2>1 DEF OneAtATime
<1>13. Vouched'
  <2>1. \A x : Queued(pending', x) => x = ev
    BY ZenonT(30), <1>7, QueuedOnly
  <2> QED
    BY ZenonT(30), <1>7, <1>10, <2>1 DEF Vouched
<1>14. StagedWhenVerified'
  BY ZenonT(30), <1>7 DEF StagedWhenVerified
<1> QED
  BY ZenonT(30), <1>8, <1>9, <1>11, <1>12, <1>13, <1>14 DEF DriverInv

\* verify_firmware: it judges a component that is held, so no running one
\* loses its verdict.
LEMMA DriverVerifies ==
    ASSUME DriverInv, External, Head(sink).op = "VerifyFirmware", VerifyFirmware(Head(sink).id)
    PROVE  DriverInv'
<1>1. UNCHANGED <<lines, floors>> /\ sink # <<>>
  BY DEF VerifyFirmware, board, External
<1>2. LoopInv /\ BatchInv /\ BoardTypes /\ FloorBelowRunning
  BY DEF DriverInv
<1>3. PICK c \in Comp : c = Head(sink).id /\ c \in lines
  <2>1. Live => Settled(released, sink, lines)
    BY DEF DriverInv
  <2> QED
    BY ZenonT(30), <1>1, <1>2, <2>1, AtRest
<1>4. c \in Ids
  BY ChainAssumption DEF Comp, Ids
<1>5. CASE ExecuteErr /\ UNCHANGED verified_svn
  <2>1. BoardTypes' /\ FloorBelowRunning'
    BY ZenonT(30), <1>1, <1>2, <1>5 DEF BoardTypes, FloorBelowRunning
  <2> QED
    BY ZenonT(30), <1>5, <2>1, DriverErr
<1>6. ASSUME NEW svn \in Svn, svn >= floors[c],
             verified_svn' = [verified_svn EXCEPT ![c] = svn],
             ExecuteReply(About("VerificationPassed", c))
      PROVE  DriverInv'
  <2>1. /\ \A d \in Comp \ {c} : verified_svn'[d] = verified_svn[d]
        /\ verified_svn'[c] = svn /\ verified_svn' \in [Comp -> Svn \cup {None}]
    BY ZenonT(30), <1>2, <1>3, <1>6 DEF BoardTypes
  <2>2. BoardTypes' /\ FloorBelowRunning'
    BY ZenonT(30), <1>1, <1>2, <1>3, <2>1 DEF BoardTypes, FloorBelowRunning
  <2>3. svn # None /\ floors'[c] <= svn
    <3>1. svn \in Nat /\ floors[c] \in Nat
      BY ZenonT(30), <1>2, <1>3, BoardAssumption DEF BoardTypes
    <3>2. svn # None
      BY ZenonT(30), <3>1, BoardAssumption DEF None
    <3> QED
      BY ZenonT(30), <1>1, <1>6, <3>1, <3>2
  <2>4. Sound(c)'
    BY ZenonT(30), <2>1, <2>3 DEF Sound
  <2>5. About("VerificationPassed", c) \in Event
    BY <1>4 DEF About, Event, ComponentEvents
  <2>6. \A d \in Comp : About("VerificationPassed", c) = About("VerificationPassed", d) => Sound(d)'
    <3>1. \A d : About("VerificationPassed", c) = About("VerificationPassed", d) => d = c
      BY ZenonT(30) DEF About
    <3> QED
      BY <2>4, <3>1
  <2> QED
    BY ZenonT(30), <1>1, <1>6, <2>2, <2>5, <2>6, DriverJoin DEF ExecuteReply
<1>7. ASSUME verified_svn' = [verified_svn EXCEPT ![c] = None],
             ExecuteReply(About("VerificationFailed", c))
      PROVE  DriverInv'
  <2>1. /\ \A d \in Comp \ {c} : verified_svn'[d] = verified_svn[d]
        /\ verified_svn' \in [Comp -> Svn \cup {None}]
    BY ZenonT(30), <1>2, <1>3, <1>7 DEF BoardTypes
  <2>2. BoardTypes' /\ FloorBelowRunning'
    BY ZenonT(30), <1>1, <1>2, <1>3, <2>1 DEF BoardTypes, FloorBelowRunning
  <2>3. About("VerificationFailed", c) \in Event
    BY <1>4 DEF About, Event, ComponentEvents
  <2>4. \A d : About("VerificationFailed", c) # About("VerificationPassed", d)
    BY ZenonT(30) DEF About
  <2> QED
    BY ZenonT(30), <1>1, <1>7, <2>2, <2>3, <2>4, DriverJoin DEF ExecuteReply
<1> QED
  BY ZenonT(30), <1>3, <1>5, <1>6, <1>7 DEF VerifyFirmware

\* commit_svn_floor never moves a floor past the image verified last.
LEMMA CommitKeepsSound ==
    ASSUME BoardTypes, NEW c \in Comp, CommitSvnFloor(c)
    PROVE  BoardTypes' /\ \A d \in Comp : Sound(d) => Sound(d)'
<1>1. UNCHANGED <<lines, verified_svn>>
  BY DEF CommitSvnFloor, driver
<1>2. CASE UNCHANGED floors
  BY <1>1, <1>2 DEF BoardTypes, Sound
<1>3. CASE /\ verified_svn[c] # None
           /\ floors' = [floors EXCEPT ![c] = IF verified_svn[c] > @ THEN verified_svn[c] ELSE @]
  <2>1. verified_svn[c] \in Svn /\ floors[c] \in Svn /\ Svn \subseteq Nat
    BY ZenonT(30), <1>3, BoardAssumption DEF BoardTypes
  <2>2. /\ \A d \in Comp \ {c} : floors'[d] = floors[d]
        /\ floors'[c] \in {floors[c], verified_svn[c]}
        /\ floors' \in [Comp -> Svn]
    BY ZenonT(30), <1>3, <2>1 DEF BoardTypes
  <2>3. ASSUME NEW d \in Comp, Sound(d) PROVE Sound(d)'
    <3>1. verified_svn'[d] = verified_svn[d]
      BY <1>1
    <3>2. floors[d] <= verified_svn[d] /\ verified_svn[d] # None
      BY ZenonT(30), <2>3 DEF Sound
    <3>3. floors'[d] <= verified_svn[d]
      <4>1. CASE d = c
        <5>1. verified_svn[c] \in Nat
          BY ZenonT(30), <2>1
        <5>2. verified_svn[c] <= verified_svn[c]
          BY <5>1
        <5>3. floors'[c] = floors[c] \/ floors'[c] = verified_svn[c]
          BY <2>2
        <5> QED
          BY ZenonT(30), <3>2, <4>1, <5>2, <5>3
      <4>2. CASE d # c
        BY <2>2, <2>3, <3>2, <4>2, ZenonT(30)
      <4> QED
        BY <4>1, <4>2
    <3> QED
      BY ZenonT(30), <3>1, <3>2, <3>3 DEF Sound
  <2> QED
    BY ZenonT(30), <1>1, <2>2, <2>3 DEF BoardTypes
<1> QED
  BY ZenonT(30), <1>2, <1>3 DEF CommitSvnFloor

\* Every other executor returns Ok(None), or fails.
LEMMA DriverExecutes ==
    ASSUME DriverInv, Execute
    PROVE  DriverInv'
<1> DEFINE e == Head(sink)
<1>1. External /\ sink # <<>> /\ LoopInv /\ BatchInv /\ BoardTypes /\ FloorBelowRunning
  BY DEF Execute, External, DriverInv
<1>2. e \in Effect
  BY ZenonT(30), <1>1, Front DEF BatchInv
<1>3. ASSUME UNCHANGED <<lines, floors, verified_svn>>
      PROVE  BoardTypes' /\ FloorBelowRunning' /\ \A c \in Comp : Sound(c) => Sound(c)'
  BY ZenonT(30), <1>1, <1>3 DEF BoardTypes, FloorBelowRunning, Sound
<1>4. CASE e.op = "ReadFirmware" /\ StageFirmware(e.id)
  <2>1. UNCHANGED <<lines, floors, verified_svn>>
    BY ZenonT(30), <1>4 DEF StageFirmware, board
  <2>2. Drives(e, lines, lines')
    BY ZenonT(30), <1>4, <2>1 DEF Drives
  <2>3. CASE ExecuteErr
    BY ZenonT(30), <1>3, <2>1, <2>3, DriverErr
  <2>4. CASE ExecuteOk /\ staged' = e.id
    BY ZenonT(30), <1>3, <2>1, <2>2, <2>4, DriverOk
  <2> QED
    BY ZenonT(30), <1>4, <2>3, <2>4 DEF StageFirmware
<1>5. CASE e.op = "VerifyFirmware" /\ VerifyFirmware(e.id)
  BY ZenonT(30), <1>1, <1>5, DriverVerifies
<1>6. CASE e.op = "ReleaseReset" /\ ReleaseReset(e.id)
  <2>1. UNCHANGED <<floors, verified_svn>> /\ e.id \in Comp
    BY <1>2, <1>6, EffectIs DEF ReleaseReset
  <2>2. Sound(e.id)
    <3>1. Live /\ e \in Elems(sink)
      BY ZenonT(30), <1>1, <1>6, FrontIsLive
    <3>2. Has(sink, "ReleaseReset", e.id)
      BY ZenonT(30), <1>6, <3>1 DEF Has
    <3>3. Vouched
      BY <3>1 DEF DriverInv
    <3> QED
      BY ZenonT(30), <2>1, <3>2, <3>3 DEF Vouched
  <2>3. lines' \in {lines, lines \ {e.id}}
    BY ZenonT(30), <1>6 DEF ReleaseReset
  <2>4. BoardTypes' /\ \A c \in Comp : Sound(c) => Sound(c)'
    BY ZenonT(30), <1>1, <2>1, <2>3 DEF BoardTypes, Sound
  <2>5. FloorBelowRunning'
    BY ZenonT(30), <1>1, <2>1, <2>2, <2>3 DEF FloorBelowRunning, Sound
  <2>6. CASE ExecuteErr
    BY ZenonT(30), <2>4, <2>5, <2>6, DriverErr
  <2>7. CASE ExecuteOk /\ lines' = lines \ {e.id}
    <3>1. Drives(e, lines, lines')
      BY ZenonT(30), <1>6, <2>7 DEF Drives
    <3> QED
      BY ZenonT(30), <1>6, <2>4, <2>5, <2>7, <3>1, DriverOk
  <2> QED
    BY ZenonT(30), <1>6, <2>6, <2>7 DEF ReleaseReset
<1>7. CASE e.op = "AssertReset" /\ AssertReset(e.id)
  <2>1. UNCHANGED <<floors, verified_svn>> /\ e.id \in Comp
    BY ZenonT(30), <1>2, <1>7, EffectIs DEF AssertReset
  <2>2. lines' \in {lines, lines \cup {e.id}}
    BY ZenonT(30), <1>7 DEF AssertReset
  <2>3. BoardTypes' /\ FloorBelowRunning' /\ \A c \in Comp : Sound(c) => Sound(c)'
    BY ZenonT(30), <1>1, <2>1, <2>2 DEF BoardTypes, FloorBelowRunning, Sound
  <2>4. CASE ExecuteErr
    BY ZenonT(30), <2>3, <2>4, DriverErr
  <2>5. CASE ExecuteOk /\ lines' = lines \cup {e.id}
    <3>1. Drives(e, lines, lines')
      BY ZenonT(30), <1>7, <2>5 DEF Drives
    <3> QED
      BY ZenonT(30), <1>7, <2>3, <2>5, <3>1, DriverOk
  <2> QED
    BY ZenonT(30), <1>7, <2>4, <2>5 DEF AssertReset
<1>8. CASE e.op = "CommitSvnFloor" /\ CommitSvnFloor(e.id)
  <2>1. UNCHANGED <<lines, verified_svn>> /\ (ExecuteOk \/ ExecuteErr)
    BY <1>8 DEF CommitSvnFloor, driver
  <2>2. PICK c \in Comp : c = e.id
    BY ZenonT(30), <1>2, <1>8, EffectIs
  <2>3. BoardTypes' /\ \A d \in Comp : Sound(d) => Sound(d)'
    BY ZenonT(30), <1>1, <1>8, <2>2, CommitKeepsSound
  <2>4. FloorBelowRunning'
    BY ZenonT(30), <1>1, <2>1, <2>3 DEF FloorBelowRunning, Sound
  <2>5. Drives(e, lines, lines')
    BY ZenonT(30), <1>8, <2>1 DEF Drives
  <2> QED
    BY ZenonT(30), <1>8, <2>1, <2>3, <2>4, <2>5, DriverErr, DriverOk
<1>9. CASE e.op \in Reports /\ ExecuteOk /\ UNCHANGED <<board, driver, judged>>
  <2>1. UNCHANGED <<lines, floors, verified_svn>> /\ e.op # "ReadFirmware"
    BY ZenonT(30), <1>9 DEF Reports, board, driver
  <2>2. Drives(e, lines, lines')
    BY <1>9, <2>1 DEF Drives, Reports
  <2> QED
    BY ZenonT(30), <1>3, <1>9, <2>1, <2>2, DriverOk
<1>10. CASE e.op \in Uncomposed /\ ExecuteErr /\ UNCHANGED <<board, driver, judged>>
  <2>1. UNCHANGED <<lines, floors, verified_svn>>
    BY <1>10 DEF board, driver
  <2> QED
    BY ZenonT(30), <1>3, <1>10, <2>1, DriverErr
<1> QED
  BY ZenonT(30), <1>4, <1>5, <1>6, <1>7, <1>8, <1>9, <1>10 DEF Execute

\* Emit, the only effect that is not the platform's.
LEMMA DriverEmits ==
    ASSUME DriverInv, EmitFront, UNCHANGED <<board, driver>>
    PROVE  DriverInv'
<1>1. sink # <<>> /\ UNCHANGED <<reducer, lines, floors, verified_svn>>
  BY DEF EmitFront, board, driver
<1>2. PICK ev \in Event : Head(sink) = [op |-> "Emit", event |-> ev] /\ Enqueue(ev)
  BY DEF EmitFront
<1>3. BatchInv /\ BoardTypes /\ FloorBelowRunning
  BY DEF DriverInv
<1>4. Head(sink) \in Effect
  BY ZenonT(30), <1>1, <1>3, Front DEF BatchInv
<1>5. Head(sink).op = "Emit" /\ Head(sink).event = ev
  BY <1>2
<1>6. ev.type = "RecoveryFailed"
  <2>1. Head(sink) = Emit("RecoveryFailed")
    BY ZenonT(30), <1>4, <1>5, EffectIs
  <2>2. Emit("RecoveryFailed").event.type = "RecoveryFailed"
    BY DEF Emit
  <2> QED
    BY ZenonT(30), <1>5, <2>1, <2>2
<1>7. \A c : ev # About("VerificationPassed", c)
  BY <1>6 DEF About
<1>8. BoardTypes' /\ FloorBelowRunning'
  BY ZenonT(30), <1>1, <1>3 DEF BoardTypes, FloorBelowRunning
<1> QED
  BY ZenonT(30), <1>1, <1>2, <1>5, <1>7, <1>8, DriverJoin

\* The reducer settles the event at the front: whoever the batch releases is
\* the component the verdict was about.
LEMMA DriverSettles ==
    ASSUME DriverInv, SettleFront, UNCHANGED <<board, driver>>
    PROVE  DriverInv'
<1> DEFINE ev == Head(pending)
<1>1. /\ sink = <<>> /\ pending # <<>> /\ Step(ev) /\ pending' = Tail(pending)
      /\ failed' = failed /\ UNCHANGED <<lines, floors, staged, verified_svn>>
  BY DEF SettleFront, board, driver
<1>2. LoopInv /\ BatchInv /\ BoardTypes /\ FloorBelowRunning
  BY DEF DriverInv
<1>3. IInv /\ TypeOK /\ pending \in Seq(Event) /\ failed \in BOOLEAN
  BY <1>2 DEF LoopInv, LoopTypeOK
<1>4. LoopInv'
  BY ZenonT(30), <1>2, SettleInv
<1>5. BoardTypes' /\ FloorBelowRunning'
  BY ZenonT(30), <1>1, <1>2 DEF BoardTypes, FloorBelowRunning
<1>6. CASE state = "Locked"
  <2>1. sink' = <<>> /\ state' = "Locked"
    BY ZenonT(30), <1>1, <1>6, LockedDrops DEF Drop, Report
  <2>2. BatchInv'
    <3>1. <<>> \in Seq(Effect) /\ Quiet(<<>>)
      BY EmptyInert, InertProfile DEF Quiet
    <3>2. Shaped(<<>>, cursor') /\ ~Has(<<>>, "VerifyFirmware", cursor')
      BY <3>1, QuietShaped
    <3> QED
      BY ZenonT(30), <2>1, <3>1, <3>2 DEF BatchInv
  <2>3. StagedWhenVerified'
    BY <2>1 DEF StagedWhenVerified
  <2> QED
    BY ZenonT(30), <1>4, <1>5, <2>1, <2>2, <2>3, DriverDead
<1>7. CASE state # "Locked" /\ state' = "Locked" /\ sink' = Latched
  <2>1. BatchInv'
    BY ZenonT(30), <1>7, LatchedBatch DEF BatchInv
  <2>2. StagedWhenVerified'
    <3>1. Head(Latched).op = "LatchLockdown"
      BY FxIs DEF Latched
    <3> QED
      BY <1>7, <3>1 DEF StagedWhenVerified
  <2> QED
    BY ZenonT(30), <1>4, <1>5, <1>7, <2>1, <2>2, DriverDead
<1>8. CASE state # "Locked" /\ Batch(ev)
  <2>1. BatchInv'
    BY <1>8 DEF Batch, Shapes, BatchInv
  <2>2. StagedWhenVerified'
    BY ZenonT(30), <1>8, VerifyComesLater DEF Batch, StagedWhenVerified
  <2>3. CASE failed
    BY ZenonT(30), <1>1, <1>4, <1>5, <2>1, <2>2, <2>3, DriverDead
  <2>4. CASE ~failed
    <3>1. Settled(released, <<>>, lines) /\ OneAtATime /\ Vouched /\ Agrees
      BY <1>1, <1>8, <2>4 DEF DriverInv, Live, Batch
    <3>2. pending = <<ev>> /\ Tail(pending) = <<>>
      BY <1>1, <1>3, <3>1, OneIs, ZenonT(30) DEF OneAtATime
    <3>3. Settled(released, sink, lines)'
      BY ZenonT(30), <1>1, <3>1, SettledBatch
    <3>4. OneAtATime'
      <4>1. Len(<<>>) <= 1
        OBVIOUS
      <4> QED
        BY ZenonT(30), <1>1, <3>2, <4>1 DEF OneAtATime
    <3>5. Vouched'
      <4>1. \A x : ~Queued(pending', x)
        <5>1. pending' = <<>>
          BY ZenonT(30), <1>1, <3>2
        <5> QED
          BY ZenonT(30), <5>1, QueuedOnly
      <4>2. ASSUME NEW c \in Comp, Has(sink', "ReleaseReset", c) PROVE Sound(c)'
        <5>1. state \in Walking /\ c = cursor /\ c \in released'
          BY ZenonT(30), <3>1, <4>2 DEF Agrees
        <5>2. c \notin released
          BY <1>3, <5>1, ChainAssumption DEF IInv, WalkPrefix, Comp
        <5>3. ev.type = "VerificationPassed" /\ ev.id = c
          BY ZenonT(30), <1>1, <5>1, <5>2, ReleasedByVerdict
        <5>4. ev \in Event
          BY <1>1, <1>3
        <5>5. ev = About("VerificationPassed", c)
          BY ZenonT(30), <5>3, <5>4, VerdictIs
        <5>6. Queued(pending, About("VerificationPassed", c))
          BY ZenonT(30), <3>2, <5>5, QueuedOnly
        <5>7. Sound(c)
          BY ZenonT(30), <3>1, <5>6 DEF Vouched
        <5> QED
          BY ZenonT(30), <1>1, <5>7 DEF Sound
      <4> QED
        BY ZenonT(30), <4>1, <4>2 DEF Vouched
    <3> QED
      BY ZenonT(30), <1>4, <1>5, <2>1, <2>2, <3>3, <3>4, <3>5 DEF DriverInv
  <2> QED
    BY <2>3, <2>4
<1> QED
  BY ZenonT(30), <1>1, <1>3, <1>6, <1>7, <1>8, StepOutcome DEF Outcome

\* A run starts with an event that is no verdict.
LEMMA DriverStarts ==
    ASSUME DriverInv, NEW ev \in Event, Start(ev), ev.type # "VerificationPassed",
           UNCHANGED <<lines, floors, staged, verified_svn>>
    PROVE  DriverInv'
<1>1. /\ pending = <<>> /\ sink = <<>> /\ pending' = <<ev>> /\ failed' = FALSE
      /\ UNCHANGED vars /\ sink' = <<>>
  BY DEF Start, Idle, vars
<1>2. LoopInv /\ BatchInv /\ BoardTypes /\ FloorBelowRunning
  BY DEF DriverInv
<1>3. LoopInv'
  BY ZenonT(30), <1>2, LoopNextInv DEF LoopNext
<1>4. BatchInv'
  BY ZenonT(30), <1>1, <1>2 DEF BatchInv, vars
<1>5. BoardTypes' /\ FloorBelowRunning' /\ StagedWhenVerified'
  BY ZenonT(30), <1>1, <1>2 DEF BoardTypes, FloorBelowRunning, StagedWhenVerified
<1>6. ASSUME state # "Locked" PROVE Settled(released, sink, lines)' /\ OneAtATime' /\ Vouched'
  <2>1. Live
    BY ZenonT(30), <1>1, <1>2, <1>6 DEF Live, LoopInv
  <2>2. Settled(released, sink, lines)
    BY <2>1 DEF DriverInv
  <2>3. Settled(released, sink, lines)'
    <3>1. released' = released /\ sink' = sink /\ lines' = lines
      BY <1>1 DEF vars
    <3> QED
      BY ZenonT(30), <2>2, <3>1 DEF Settled
  <2>4. Elems(<<>>) = {}
    BY ElemsShort
  <2>5. OneAtATime'
    <3>1. Len(<<ev>>) <= 1
      OBVIOUS
    <3> QED
      BY ZenonT(30), <1>1, <2>4, <3>1 DEF OneAtATime
  <2>6. Vouched'
    <3>1. \A x : Queued(pending', x) => x = ev
      BY ZenonT(30), <1>1, QueuedOnly
    <3>2. \A c : About("VerificationPassed", c) # ev
      BY DEF About
    <3>3. \A c : ~Has(sink', "ReleaseReset", c)
      BY <1>1, <2>4 DEF Has
    <3> QED
      BY ZenonT(30), <3>1, <3>2, <3>3 DEF Vouched
  <2> QED
    BY <2>3, <2>5, <2>6
<1>7. state' = state
  BY <1>1 DEF vars
<1> QED
  BY ZenonT(30), <1>3, <1>4, <1>5, <1>6, <1>7 DEF DriverInv, Live

\* What the run loop dispatches.
LEMMA DriverDispatches ==
    ASSUME DriverInv, Dispatch \/ \E c \in Comp : PollBootWalks(c)
    PROVE  DriverInv'
<1>1. UNCHANGED <<lines, floors, staged, verified_svn>>
  BY DEF Dispatch, PollBootWalks, board, driver
<1>2. Comp \subseteq Ids
  BY ChainAssumption DEF Comp, Ids
<1>3. CASE Dispatch
  <2>1. PICK ev \in [type : {"PowerGood"}, result : PowerOnResults]
                      \cup [type : {"CorruptionDetected"}, id : Ids]
                      \cup [type : {"BootConfirmed"}, id : Comp \ lines]
                      \cup {Plain("AttestationChallenge"), Plain("UpdateRequest")} : Start(ev)
    BY <1>3 DEF Dispatch
  <2>2. ev \in Event /\ ev.type # "VerificationPassed"
    BY <1>2, <2>1 DEF Event, ComponentEvents, PlainEvents, Plain
  <2> QED
    BY ZenonT(30), <1>1, <2>1, <2>2, DriverStarts
<1>4. ASSUME NEW c \in Comp, PollBootWalks(c) PROVE DriverInv'
  <2>1. ASSUME NEW type \in {"ComponentReady", "Booted"}
        PROVE  About(type, c) \in Event /\ About(type, c).type # "VerificationPassed"
    BY ZenonT(30), <1>2, <2>1 DEF About, Event, ComponentEvents
  <2>2. ASSUME NEW kind \in BootFailureKinds
        PROVE  /\ [type |-> "BootFailed", id |-> c, kind |-> kind] \in Event
               /\ [type |-> "BootFailed", id |-> c, kind |-> kind].type # "VerificationPassed"
    BY ZenonT(30), <1>2, <2>2 DEF Event
  <2>3. (IF Kind[c] = "Active" THEN "ComponentReady" ELSE "Booted") \in {"ComponentReady", "Booted"}
    OBVIOUS
  <2>4. \E ev \in Event : Start(ev) /\ ev.type # "VerificationPassed"
    BY ZenonT(30), <1>4, <2>1, <2>2, <2>3 DEF PollBootWalks
  <2> QED
    BY ZenonT(30), <1>1, <2>4, DriverStarts
<1> QED
  BY ZenonT(30), <1>3, <1>4

\* Every step of the driver under the loop keeps the invariant.
LEMMA DriverNextInv ==
    ASSUME DriverInv, [DriverNext]_pvars
    PROVE  DriverInv'
<1>1. CASE DriverNext
  BY ZenonT(30), <1>1, DriverDispatches, DriverSettles, DriverEmits, DriverExecutes DEF DriverNext, Loop
<1>2. CASE UNCHANGED pvars
  <2>1. LoopInv'
    BY <1>2, LoopNextInv DEF DriverInv, pvars
  <2> QED
    BY ZenonT(30), <1>2, <2>1 DEF pvars, board, driver, lvars, vars, DriverInv, BoardTypes,
       BatchInv, Live,
                      Settled, OneAtATime, Vouched, Sound, StagedWhenVerified, FloorBelowRunning
<1> QED
  BY ZenonT(30), <1>1, <1>2

\* An orchestrator just built, on a board with every component in reset.
LEMMA DriverInitInv ==
    ASSUME DriverInit
    PROVE  DriverInv
<1>1. /\ LoopInit /\ lines = Comp /\ floors \in [Comp -> Svn]
      /\ verified_svn = [c \in Comp |-> None]
  BY DEF DriverInit
<1>2. LoopInv
  BY ZenonT(30), <1>1, LoopInitInv
<1>3. state = "PowerOnReset" /\ released = {} /\ sink = <<>> /\ pending = <<>>
  BY <1>1 DEF LoopInit, Init
<1>4. BatchInv
  <2>1. <<>> \in Seq(Effect) /\ Quiet(<<>>)
    BY EmptyInert, InertProfile DEF Quiet
  <2>2. Shaped(<<>>, cursor) /\ ~Has(<<>>, "VerifyFirmware", cursor)
    BY <2>1, QuietShaped
  <2> QED
    BY ZenonT(30), <1>3, <2>1, <2>2 DEF BatchInv
<1>5. BoardTypes /\ StagedWhenVerified /\ FloorBelowRunning
  BY ZenonT(30), <1>1, <1>3 DEF BoardTypes, StagedWhenVerified, FloorBelowRunning
<1>6. Elems(<<>>) = {}
  BY ElemsShort
<1>7. Settled(released, sink, lines)
  BY ZenonT(30), <1>1, <1>3, <1>6 DEF Settled, Has, Cuts
<1>8. OneAtATime
  <2>1. Len(<<>>) <= 1
    OBVIOUS
  <2> QED
    BY <1>3, <2>1 DEF OneAtATime
<1>9. Vouched
  <2>1. \A x : ~Queued(pending, x)
    BY ZenonT(30), <1>3, QueuedOnly
  <2>2. \A c : ~Has(sink, "ReleaseReset", c)
    BY <1>3, <1>6 DEF Has
  <2> QED
    BY ZenonT(30), <2>1, <2>2 DEF Vouched
<1> QED
  BY ZenonT(30), <1>2, <1>4, <1>5, <1>7, <1>8, <1>9 DEF DriverInv

\* The invariant, for every chain, board and history.
THEOREM DriverInvariance == DriverSpec => []DriverInv
<1>1. DriverInit => DriverInv
  BY DriverInitInv
<1>2. DriverInv /\ [DriverNext]_pvars => DriverInv'
  BY DriverNextInv
<1> QED
  BY <1>1, <1>2, PTL DEF DriverSpec

\* execute(VerifyFirmware) never meets PlatformError::NotStaged, whatever the
\* board's executors fail at.
THEOREM AlwaysStagedWhenVerified == DriverSpec => []StagedWhenVerified
<1>1. DriverInv => StagedWhenVerified
  BY ZenonT(30) DEF DriverInv
<1> QED
  BY <1>1, DriverInvariance, PTL

\* Whatever runs was authenticated at or above its floor, also after a run
\* that failed half-way or locked.
THEOREM FloorsNeverPassRunning == DriverSpec => []FloorBelowRunning
<1>1. DriverInv => FloorBelowRunning
  BY DEF DriverInv
<1> QED
  BY <1>1, DriverInvariance, PTL
====
