--------------------------- MODULE PlatformProofs ---------------------------
(***************************************************************************)
(* Proofs about the platform under the orchestrator, for any value of the  *)
(* constants.                                                              *)
(*                                                                         *)
(* The two watchdogs of a boot: TimerManager, for any set of components,   *)
(* any capacity and any clock width, and CheckpointWalk, for any number of *)
(* checkpoints, any windows and any clock width, where the inductive       *)
(* invariant adds to the types what the history variables record of a walk *)
(* in flight.                                                              *)
(*                                                                         *)
(* The PlatformDriver keeps the contract that DispatchProofs assumes of a  *)
(* platform, so that what is proved there holds of it.  Contract!X is      *)
(* OrchestratorDispatch's X with the driver's reset lines for `held`, its  *)
(* verdicts for `checked`, its boot walks for what is owed, and nothing    *)
(* staged: no update executor is composed.                                 *)
(***************************************************************************)
EXTENDS PlatformContract, TimerManager, CheckpointWalk, FiniteSetTheorems, TLAPS

\* A leaf that names no prover is tried with these, in this order, for so many seconds
\* each.  The repeated SMT only matters on a loaded machine, where one attempt can stall.
USE SMTT(30), SMTT(31), ZenonT(30), SMTT(32)

----------------------------------------------------------------------------
(* The timers *)

\* Typing alone is not inductive: swap_remove and the refinement need that no
\* component is in the vector twice.
IInv == TimerTypeOK /\ OneWatchdogEach

Entry == [id : Id, at : Time]

\* Every non-empty set of naturals has a least element.
LEMMA NatHasMin ==
    ASSUME NEW T \in SUBSET Nat, T # {}
    PROVE  \E m \in T : \A t \in T : m <= t
<1>1. PICK m \in T : \A t \in T : ~(<<t, m>> \in OpToRel(<, Nat))
  BY NatLessThanWellFounded, WFMin, ZenonT(30)
<1>2. \A t \in T : ~(t < m)
  BY ZenonT(30), <1>1 DEF OpToRel
<1> QED
  BY <1>2

\* The entries of the vector are typed.
LEMMA EntryTyped ==
    ASSUME IInv, NEW k \in DOMAIN boot
    PROVE  /\ boot[k] \in Entry
           /\ boot[k].id \in Id
           /\ boot[k].at \in Time
           /\ boot[k].at \in Nat
           /\ k \in Nat
<1>1. boot \in Seq(Entry)
  BY DEF IInv, TimerTypeOK, Entry
<1>2. k \in 1..Len(boot) /\ Len(boot) \in Nat
  BY <1>1
<1>3. boot[k] \in Entry
  BY <1>1, <1>2
<1>4. boot[k].id \in Id /\ boot[k].at \in Time
  BY <1>3 DEF Entry
<1> QED
  BY <1>2, <1>3, <1>4, TimerAssumption DEF Time

\* min_by on a non-empty set of due watchdogs finds one: the first of those
\* with the least deadline.
LEMMA EarliestIsDue ==
    ASSUME IInv, Due # {}
    PROVE  /\ Earliest \in Due
           /\ \A j \in Due : boot[Earliest].at <= boot[j].at
<1>1. \A k \in Due : boot[k].at \in Nat /\ k \in Nat
  BY EntryTyped DEF Due
<1> DEFINE Ats == {boot[k].at : k \in Due}
<1>2. PICK m \in Ats : \A t \in Ats : m <= t
  BY ZenonT(30), <1>1, NatHasMin
<1> DEFINE First == {k \in Due : boot[k].at = m}
<1>3. PICK f \in First : \A k \in First : f <= k
  <2>1. First # {} /\ First \in SUBSET Nat
    BY <1>1, <1>2
  <2> HIDE DEF First
  <2> QED
    BY <2>1, NatHasMin
<1>4. \A j \in Due : boot[f].at < boot[j].at \/ (boot[f].at = boot[j].at /\ f <= j)
  BY <1>1, <1>2, <1>3
<1>5. /\ Earliest \in Due
      /\ \A j \in Due : boot[Earliest].at < boot[j].at
                         \/ (boot[Earliest].at = boot[j].at /\ Earliest <= j)
  BY <1>3, <1>4 DEF Earliest
<1> QED
  BY <1>1, <1>5

\* deadline_in saturates within the clock.
LEMMA DeadlineInIsTime ==
    ASSUME IInv, NEW after \in Windows
    PROVE  DeadlineIn(after) \in Time
BY TimerAssumption DEF IInv, TimerTypeOK, DeadlineIn, Time

\* swap_remove keeps the type, makes room and duplicates nobody.
LEMMA SwapRemoveKeeps ==
    ASSUME IInv, NEW i \in DOMAIN boot
    PROVE  /\ SwapRemove(boot, i) \in Seq(Entry)
           /\ Len(SwapRemove(boot, i)) = Len(boot) - 1
           /\ \A j, k \in DOMAIN SwapRemove(boot, i) :
                SwapRemove(boot, i)[j].id = SwapRemove(boot, i)[k].id => j = k
<1>1. boot \in Seq(Entry) /\ Len(boot) \in Nat /\ i \in 1..Len(boot)
  BY DEF IInv, TimerTypeOK, Entry
<1>2. Len(boot) - 1 \in Nat /\ Len(boot) \in 1..Len(boot)
  BY <1>1
<1>3. \A j \in 1..(Len(boot) - 1) :
        (IF j = i THEN boot[Len(boot)] ELSE boot[j]) \in Entry
  BY <1>1, <1>2
<1>4. /\ SwapRemove(boot, i) \in Seq(Entry)
      /\ Len(SwapRemove(boot, i)) = Len(boot) - 1
      /\ DOMAIN SwapRemove(boot, i) = 1..(Len(boot) - 1)
  BY <1>2, <1>3 DEF SwapRemove
<1>5. ASSUME NEW j \in 1..(Len(boot) - 1), NEW k \in 1..(Len(boot) - 1),
             SwapRemove(boot, i)[j].id = SwapRemove(boot, i)[k].id
      PROVE  j = k
  <2>1. j \in 1..Len(boot) /\ k \in 1..Len(boot) /\ j # Len(boot) /\ k # Len(boot)
    BY <1>1
  <2>2. \A a, b \in 1..Len(boot) : boot[a].id = boot[b].id => a = b
    BY <1>1 DEF IInv, OneWatchdogEach
  <2> QED
    BY ZenonT(30), <1>1, <1>2, <1>5, <2>1, <2>2 DEF SwapRemove
<1> QED
  BY <1>4, <1>5

\* Removing a watchdog keeps the invariant.
LEMMA RemovalInv ==
    ASSUME IInv, NEW i \in DOMAIN boot, boot' = SwapRemove(boot, i),
           UNCHANGED <<commit, now>>,
           result' \in [kind : {"Ok", "Full", "Timeout", "CommitTimeout", "None"},
                        id : Id \cup {NoId}]
    PROVE  IInv'
<1>1. Len(boot) \in Nat /\ Capacity \in Nat
  BY TimerAssumption DEF IInv, TimerTypeOK
<1>2. /\ boot' \in Seq([id : Id, at : Time])
      /\ Len(boot') <= Capacity
  BY <1>1, SwapRemoveKeeps DEF IInv, TimerTypeOK, Entry
<1>3. TimerTypeOK'
  BY <1>2 DEF IInv, TimerTypeOK
<1>4. OneWatchdogEach'
  BY SwapRemoveKeeps DEF OneWatchdogEach
<1> QED
  BY <1>3, <1>4 DEF IInv

\* arm_boot preserves the invariant: it replaces, appends or refuses.
LEMMA ArmBootInv ==
    ASSUME IInv, NEW id \in Id, NEW after \in Windows, ArmBoot(id, after)
    PROVE  IInv'
<1>0. /\ DeadlineIn(after) \in Time
      /\ boot \in Seq(Entry) /\ Len(boot) \in Nat
  BY DeadlineInIsTime DEF IInv, TimerTypeOK, Entry
<1>1. CASE Armed(id) /\ boot' = [boot EXCEPT ![Slot(id)].at = DeadlineIn(after)] /\ Ok
  <2>1. Slot(id) \in DOMAIN boot
    BY <1>1 DEF Armed, Slot
  <2>2. /\ boot' \in Seq(Entry) /\ Len(boot') = Len(boot)
        /\ \A k \in DOMAIN boot : boot'[k].id = boot[k].id
        /\ DOMAIN boot' = DOMAIN boot
    <3> DEFINE moved == [boot[Slot(id)] EXCEPT !.at = DeadlineIn(after)]
    <3>1. moved \in Entry /\ moved.id = boot[Slot(id)].id
      BY <1>0, <2>1, EntryTyped DEF Entry
    <3>2. boot' = [boot EXCEPT ![Slot(id)] = moved]
      BY <1>1
    <3> HIDE DEF moved
    <3> QED
      BY <1>0, <2>1, <3>1, <3>2
  <2>3. TimerTypeOK'
    BY <1>1, <2>2 DEF ArmBoot, IInv, TimerTypeOK, Ok, Outcome, Entry
  <2>4. OneWatchdogEach'
    BY <2>2 DEF IInv, OneWatchdogEach
  <2> QED
    BY <2>3, <2>4 DEF IInv
<1>2. CASE /\ ~Armed(id)
           /\ Len(boot) < Capacity
           /\ boot' = Append(boot, [id |-> id, at |-> DeadlineIn(after)])
           /\ Ok
  <2>1. /\ boot' \in Seq(Entry) /\ Len(boot') = Len(boot) + 1
        /\ \A k \in 1..Len(boot) : boot'[k] = boot[k]
        /\ boot'[Len(boot) + 1].id = id
        /\ DOMAIN boot' = 1..(Len(boot) + 1)
    BY <1>0, <1>2 DEF Entry
  <2>2. TimerTypeOK'
    BY <1>0, <1>2, <2>1, TimerAssumption DEF ArmBoot, IInv, TimerTypeOK, Ok, Outcome, Entry
  <2>3. OneWatchdogEach'
    BY <1>0, <1>2, <2>1 DEF IInv, OneWatchdogEach, Armed
  <2> QED
    BY <2>2, <2>3 DEF IInv
<1>3. CASE result' = Outcome("Full", NoId) /\ UNCHANGED boot
  BY <1>3 DEF ArmBoot, IInv, TimerTypeOK, OneWatchdogEach, Outcome
<1> QED
  BY <1>1, <1>2, <1>3 DEF ArmBoot

\* A TimerManager just built satisfies the invariant.
LEMMA InitInv == TimerInit => IInv
BY TimerAssumption DEF TimerInit, IInv, TimerTypeOK, OneWatchdogEach, Outcome, Time

\* Every call on the watchdogs, and the clock, preserve the invariant.
LEMMA NextInv ==
    ASSUME IInv, [TimerNext]_tvars
    PROVE  IInv'
<1>1. CASE \E id \in Id : \E after \in Windows : ArmBoot(id, after)
  BY <1>1, ArmBootInv
<1>2. CASE \E after \in Windows : ArmCommit(after)
  BY <1>2, DeadlineInIsTime DEF ArmCommit, Ok, Outcome, IInv, TimerTypeOK, OneWatchdogEach
<1>3. CASE CancelCommit
  BY <1>3 DEF CancelCommit, Ok, Outcome, IInv, TimerTypeOK, OneWatchdogEach
<1>4. ASSUME NEW id \in Id, CancelBoot(id) PROVE IInv'
  <2>1. CASE Armed(id)
    <3>1. Slot(id) \in DOMAIN boot
      BY <2>1 DEF Armed, Slot
    <3> QED
      BY <1>4, <2>1, <3>1, RemovalInv DEF CancelBoot, Ok, Outcome
  <2>2. CASE ~Armed(id)
    BY <1>4, <2>2 DEF CancelBoot, Ok, Outcome, IInv, TimerTypeOK, OneWatchdogEach
  <2> QED
    BY <2>1, <2>2
<1>5. CASE PollBoot
  <2>1. Earliest \in DOMAIN boot
    BY <1>5, EarliestIsDue DEF PollBoot, Due
  <2>2. boot[Earliest].id \in Id
    BY <2>1, EntryTyped
  <2> QED
    BY <1>5, <2>1, <2>2, RemovalInv DEF PollBoot, Outcome
<1>6. CASE PollCommit
  BY <1>6 DEF PollCommit, Outcome, IInv, TimerTypeOK, OneWatchdogEach
<1>7. CASE PollNone
  BY <1>7 DEF PollNone, Outcome, IInv, TimerTypeOK, OneWatchdogEach
<1>8. CASE Tick
  BY <1>8, TimerAssumption DEF Tick, IInv, TimerTypeOK, OneWatchdogEach, Time
<1>9. CASE UNCHANGED tvars
  BY <1>9 DEF tvars, IInv, TimerTypeOK, OneWatchdogEach
<1> QED
  BY ZenonT(30), <1>1, <1>2, <1>3, <1>4, <1>5, <1>6, <1>7, <1>8, <1>9
  DEF TimerNext, Arming, Cancelling

\* No sequence of arms, cancels, polls and ticks leaves the invariant.
THEOREM Invariance == TimerSpec => []IInv
BY InitInv, NextInv, PTL DEF TimerSpec

\* The vector never exceeds Capacity and every deadline is an instant of the clock.
THEOREM TypeCorrect == TimerSpec => []TimerTypeOK
<1>1. IInv => TimerTypeOK
  BY DEF IInv
<1> QED
  BY <1>1, Invariance, PTL

\* arm_boot never stacks a second watchdog for a component.
THEOREM NoStacking == TimerSpec => []OneWatchdogEach
<1>1. IInv => OneWatchdogEach
  BY DEF IInv
<1> QED
  BY <1>1, Invariance, PTL

\* After a poll that found nothing the loop sleeps until the nearest deadline,
\* which is ahead of the clock.
THEOREM SleepIsSafe == TimerSpec => SleepsUntilNearest
<1> DEFINE Safe == result'.kind = "None" /\ result.kind # "None"
                     => \A t \in Pending : now < WaitDeadline /\ WaitDeadline <= t
<1>1. ASSUME IInv, [TimerNext]_tvars PROVE Safe
  <2>1. SUFFICES ASSUME result'.kind = "None", result.kind # "None", NEW t \in Pending
                 PROVE  now < WaitDeadline /\ WaitDeadline <= t
    OBVIOUS
  <2>2. PollNone
    <3>1. \A kind, id : result' = Outcome(kind, id) => kind = "None"
      BY <2>1 DEF Outcome
    <3>2. ~Ok
      BY <3>1 DEF Ok
    <3>3. result' # result
      BY <2>1
    <3> QED
      BY ZenonT(30), <1>1, <3>1, <3>2, <3>3 DEF TimerNext, Arming, Cancelling, ArmBoot, ArmCommit,
         CancelBoot, CancelCommit, PollBoot, PollCommit, Tick, tvars
  <2>3. Pending \in SUBSET Nat /\ now \in Nat
    BY <1>1, EntryTyped, TimerAssumption DEF IInv, TimerTypeOK, Pending, Time, Unarmed
  <2>4. \A u \in Pending : now < u
    BY <1>1, <2>2, <2>3 DEF PollNone, Due, CommitDue, Pending
  <2>5. PICK m \in Pending : \A u \in Pending : m <= u
    BY <2>1, <2>3, NatHasMin
  <2>6. WaitDeadline \in Pending /\ \A u \in Pending : WaitDeadline <= u
    BY <2>1, <2>5 DEF WaitDeadline
  <2> QED
    BY <2>1, <2>4, <2>6
<1>2. IInv /\ [TimerNext]_tvars => [Safe]_tvars
  BY <1>1
<1> QED
  BY <1>2, Invariance, PTL DEF TimerSpec, SleepsUntilNearest

----------------------------------------------------------------------------
(* The refinement of Watchdogs. *)

\* An entry of the vector is the deadline of its component.
LEMMA DeadlineOfEntry ==
    ASSUME IInv, NEW k \in DOMAIN boot
    PROVE  /\ Armed(boot[k].id)
           /\ Slot(boot[k].id) = k
           /\ Deadlines[boot[k].id] = boot[k].at
           /\ Deadlines[boot[k].id] # Unarmed
<1>1. Armed(boot[k].id) /\ Slot(boot[k].id) = k
  BY DEF Armed, Slot, IInv, OneWatchdogEach
<1>2. boot[k].id \in Id /\ boot[k].at # Unarmed
  BY EntryTyped DEF Unarmed
<1> QED
  BY <1>1, <1>2 DEF Deadlines

\* The vector holds one entry for each armed component and no other, so that
\* its length counts them.
LEMMA ArmedIds ==
    ASSUME IInv
    PROVE  /\ W!Armed = {boot[k].id : k \in DOMAIN boot}
           /\ \A id \in Id : id \in W!Armed <=> Armed(id)
           /\ \A id \in Id : ~Armed(id) => Deadlines[id] = Unarmed
           /\ W!Cardinality(W!Armed) = Len(boot)
<1>1. \A id \in Id : ~Armed(id) => Deadlines[id] = Unarmed
  BY DEF Deadlines
<1>2. \A id \in Id : id \in W!Armed <=> Armed(id)
  BY <1>1, DeadlineOfEntry DEF W!Armed, Armed
<1>3. W!Armed = {boot[k].id : k \in DOMAIN boot}
  BY <1>2, EntryTyped DEF W!Armed, Armed
<1>4. Len(boot) \in Nat /\ DOMAIN boot = 1..Len(boot)
  BY DEF IInv, TimerTypeOK
<1> DEFINE S == {boot[k].id : k \in DOMAIN boot}
           f == [k \in 1..Len(boot) |-> boot[k].id]
<1>5. f \in Bijection(1..Len(boot), S)
  BY <1>4 DEF Bijection, Injection, Surjection, IsInjective, IInv, OneWatchdogEach
<1>6. Cardinality(S) = Len(boot)
  <2> HIDE DEF S, f
  <2> QED
    BY <1>4, <1>5, FS_CountingElements DEF ExistsBijection
<1>7. W!Cardinality(S) = Cardinality(S)
  BY ZenonT(30) DEF Cardinality, W!Cardinality, IsFiniteSet, W!IsFiniteSet
<1> QED
  BY <1>1, <1>2, <1>3, <1>6, <1>7

\* What a removal does to the deadlines.
LEMMA RemovalDeadlines ==
    ASSUME IInv, IInv', NEW i \in DOMAIN boot, boot' = SwapRemove(boot, i)
    PROVE  Deadlines' = [Deadlines EXCEPT ![boot[i].id] = Unarmed]
<1>1. Len(boot) \in Nat /\ DOMAIN boot = 1..Len(boot) /\ i \in 1..Len(boot)
  BY DEF IInv, TimerTypeOK
<1>2. DOMAIN boot' = 1..(Len(boot) - 1)
  BY <1>1 DEF SwapRemove
<1>3. \A j \in DOMAIN boot' : boot'[j] = IF j = i THEN boot[Len(boot)] ELSE boot[j]
  BY <1>1, <1>2 DEF SwapRemove
<1>4. \A a, b \in DOMAIN boot : boot[a].id = boot[b].id => a = b
  BY DEF IInv, OneWatchdogEach
<1>5. ASSUME NEW id \in Id, id # boot[i].id
      PROVE  Deadlines'[id] = Deadlines[id]
  <2>1. CASE Armed(id)
    <3>1. PICK k \in DOMAIN boot : boot[k].id = id
      BY <2>1 DEF Armed
    <3>2. k # i
      BY <1>5, <3>1
    <3> DEFINE j == IF k = Len(boot) THEN i ELSE k
    <3>3. j \in DOMAIN boot' /\ boot'[j] = boot[k]
      BY <1>1, <1>2, <1>3, <3>1, <3>2
    <3>4. Deadlines[id] = boot[k].at
      BY <3>1, DeadlineOfEntry
    <3>5. Armed(id)' /\ Slot(id)' = j
      <4>1. boot'[j].id = id
        BY <3>1, <3>3
      <4> HIDE DEF j
      <4> QED
        BY <3>3, <4>1 DEF Armed, Slot, IInv, OneWatchdogEach
    <3> QED
      BY <1>5, <3>3, <3>4, <3>5 DEF Deadlines
  <2>2. CASE ~Armed(id)
    <3>1. ~Armed(id)'
      BY <1>1, <1>2, <1>3, <2>2 DEF Armed
    <3> QED
      BY <2>2, <3>1 DEF Deadlines
  <2> QED
    BY ZenonT(30), <2>1, <2>2
<1>6. boot[i].id \in Id /\ Deadlines'[boot[i].id] = Unarmed
  <2>1. \A j \in DOMAIN boot' : boot'[j].id # boot[i].id
    BY <1>1, <1>2, <1>3, <1>4
  <2> QED
    BY <2>1, EntryTyped DEF Deadlines, Armed
<1> QED
  BY ZenonT(30), <1>5, <1>6 DEF Deadlines

\* An empty vector is a set of watchdogs none of which is armed.
LEMMA InitRefines == TimerInit => W!Init
BY DEF TimerInit, W!Init, Deadlines, Armed, Outcome, W!Outcome

\* arm_boot arms or refuses as the set of watchdogs does.
LEMMA ArmBootRefines ==
    ASSUME IInv, IInv', NEW id \in Id, NEW after \in Windows, ArmBoot(id, after)
    PROVE  W!Next
<1> DEFINE d == DeadlineIn(after)
<1>0. d = W!In(after)
  BY DEF DeadlineIn, W!In
<1>1. CASE Armed(id) /\ boot' = [boot EXCEPT ![Slot(id)].at = d] /\ Ok
  <2>1. Slot(id) \in DOMAIN boot /\ boot[Slot(id)].id = id
    BY <1>1 DEF Armed, Slot
  <2>2. /\ DOMAIN boot' = DOMAIN boot
        /\ boot'[Slot(id)].at = d
        /\ \A k \in DOMAIN boot : boot'[k].id = boot[k].id
        /\ \A k \in DOMAIN boot : k # Slot(id) => boot'[k].at = boot[k].at
    <3>1. boot[Slot(id)] \in Entry
      BY <2>1, EntryTyped
    <3> HIDE DEF d
    <3> QED
      BY ZenonT(30), <1>1, <2>1, <3>1 DEF Entry
  <2>3. \A x \in Id : /\ Armed(x)' <=> Armed(x)
                      /\ Slot(x)' = Slot(x)
    BY <2>2 DEF Armed, Slot
  <2>4. \A x \in Id : Armed(x) => Slot(x) \in DOMAIN boot /\ boot[Slot(x)].id = x
    BY DEF Armed, Slot
  <2>5. Deadlines' = [Deadlines EXCEPT ![id] = d]
    <3>1. \A x \in Id : x # id => Deadlines'[x] = Deadlines[x]
      BY ZenonT(30), <2>1, <2>2, <2>3, <2>4 DEF Deadlines
    <3>2. Deadlines'[id] = d
      BY <1>1, <2>2, <2>3 DEF Deadlines
    <3> QED
      BY ZenonT(30), <3>1, <3>2 DEF Deadlines
  <2>6. id \in W!Armed
    BY <1>1, ArmedIds
  <2>7. W!Arm(id, after)
    BY ZenonT(30), <1>0, <1>1, <2>5, <2>6 DEF W!Arm, ArmBoot, Ok, Outcome, W!Outcome
  <2> QED
    BY <2>7 DEF W!Next
<1>2. CASE /\ ~Armed(id)
           /\ Len(boot) < Capacity
           /\ boot' = Append(boot, [id |-> id, at |-> d])
           /\ Ok
  <2>1. /\ Len(boot) \in Nat /\ DOMAIN boot = 1..Len(boot)
        /\ DOMAIN boot' = 1..(Len(boot) + 1)
        /\ \A k \in DOMAIN boot : k \in DOMAIN boot' /\ boot'[k] = boot[k]
        /\ boot'[Len(boot) + 1] = [id |-> id, at |-> d]
    <3> HIDE DEF d
    <3>1. boot \in Seq(Entry) /\ Len(boot) \in Nat
      BY DEF IInv, TimerTypeOK, Entry
    <3> QED
      BY <1>2, <3>1
  <2>2. Deadlines'[id] = d
    <3>1. Len(boot) + 1 \in DOMAIN boot' /\ boot'[Len(boot) + 1].id = id
          /\ boot'[Len(boot) + 1].at = d
      BY <2>1
    <3>2. Armed(id)' /\ Slot(id)' = Len(boot) + 1
      <4> HIDE DEF d
      <4> QED
        BY <3>1 DEF Armed, Slot, IInv, OneWatchdogEach
    <3> QED
      BY <3>1, <3>2 DEF Deadlines
  <2>3. ASSUME NEW x \in Id, x # id PROVE Deadlines'[x] = Deadlines[x]
    <3>1. CASE Armed(x)
      <4>1. PICK k \in DOMAIN boot : boot[k].id = x
        BY ZenonT(30), <3>1 DEF Armed
      <4>2. Armed(x)' /\ Slot(x)' = k
        BY <2>1, <4>1 DEF Armed, Slot, IInv, OneWatchdogEach
      <4>3. Deadlines[x] = boot[k].at
        BY ZenonT(30), <4>1, DeadlineOfEntry
      <4> QED
        BY <2>1, <4>2, <4>3 DEF Deadlines
    <3>2. CASE ~Armed(x)
      <4>1. ~Armed(x)'
        <5>1. ASSUME NEW k \in DOMAIN boot' PROVE boot'[k].id # x
          <6>1. CASE k \in DOMAIN boot
            BY ZenonT(30), <2>1, <3>2, <6>1 DEF Armed
          <6>2. CASE k = Len(boot) + 1
            <7> HIDE DEF d
            <7> QED
              BY <2>1, <2>3, <6>2
          <6> QED
            BY <2>1, <6>1, <6>2
        <5> QED
          BY ZenonT(30), <5>1 DEF Armed
      <4> QED
        BY ZenonT(30), <3>2, <4>1 DEF Deadlines
    <3> QED
      BY ZenonT(30), <3>1, <3>2
  <2>4. Deadlines' = [Deadlines EXCEPT ![id] = d]
    BY ZenonT(30), <2>2, <2>3 DEF Deadlines
  <2>5. W!Cardinality(W!Armed) < Capacity
    BY <1>2, ArmedIds
  <2>6. W!Arm(id, after)
    BY ZenonT(30), <1>0, <1>2, <2>4, <2>5 DEF W!Arm, ArmBoot, Ok, Outcome, W!Outcome
  <2> QED
    BY <2>6 DEF W!Next
<1>3. CASE /\ ~Armed(id)
           /\ Len(boot) = Capacity
           /\ result' = Outcome("Full", NoId)
           /\ UNCHANGED boot
  <2>1. id \notin W!Armed /\ W!Cardinality(W!Armed) = Capacity
    BY <1>3, ArmedIds
  <2>2. Deadlines' = Deadlines
    BY <1>3 DEF Deadlines, Armed, Slot
  <2>3. W!Refuse(id)
    BY ZenonT(30), <1>3, <2>1, <2>2 DEF W!Refuse, ArmBoot, Outcome, W!Outcome
  <2> QED
    BY <2>3 DEF W!Next
<1> QED
  BY <1>1, <1>2, <1>3 DEF ArmBoot

\* The watchdogs due in the vector are those due in the abstract one.
LEMMA DueMatches ==
    ASSUME IInv
    PROVE  /\ W!DueIds = {boot[k].id : k \in Due}
           /\ \A k \in Due : Deadlines[boot[k].id] = boot[k].at
           /\ W!CommitIsDue <=> CommitDue
<1>1. \A k \in Due : k \in DOMAIN boot /\ Deadlines[boot[k].id] = boot[k].at
  BY DeadlineOfEntry DEF Due
<1>2. W!DueIds = {boot[k].id : k \in Due}
  BY ArmedIds, DeadlineOfEntry DEF W!DueIds, Due
<1> QED
  BY <1>1, <1>2 DEF W!CommitIsDue, CommitDue

\* Every call on the vector is a step of the set of watchdogs, or stutters.
LEMMA NextRefines ==
    ASSUME IInv, IInv', [TimerNext]_tvars
    PROVE  [W!Next]_(W!wvars)
<1>0. UNCHANGED boot => UNCHANGED Deadlines
  BY DEF Deadlines, Armed, Slot
<1>1. CASE \E id \in Id : \E after \in Windows : ArmBoot(id, after)
  BY ZenonT(30), <1>1, ArmBootRefines
<1>2. CASE \E after \in Windows : ArmCommit(after)
  BY <1>0, <1>2 DEF ArmCommit, Ok, Outcome, DeadlineIn,
                    W!Next, W!SetCommit, W!In, W!Outcome
<1>3. CASE CancelCommit
  BY <1>0, <1>3 DEF CancelCommit, Ok, Outcome, W!Next, W!SetCommit, W!Outcome
<1>4. ASSUME NEW id \in Id, CancelBoot(id) PROVE W!Next
  <2>1. Deadlines' = [Deadlines EXCEPT ![id] = Unarmed]
    <3>1. CASE Armed(id)
      <4>1. Slot(id) \in DOMAIN boot /\ boot[Slot(id)].id = id
        BY ZenonT(30), <3>1 DEF Armed, Slot
      <4> QED
        BY ZenonT(30), <1>4, <3>1, <4>1, RemovalDeadlines DEF CancelBoot
    <3>2. CASE ~Armed(id)
      BY <1>0, <1>4, <3>2 DEF CancelBoot, Deadlines
    <3> QED
      BY <3>1, <3>2
  <2>2. W!Cancel(id)
    BY ZenonT(30), <1>4, <2>1 DEF CancelBoot, Ok, Outcome, W!Cancel, W!Outcome
  <2> QED
    BY <2>2 DEF W!Next
<1>5. CASE PollBoot
  <2>1. /\ Earliest \in Due /\ Earliest \in DOMAIN boot
        /\ \A j \in Due : boot[Earliest].at <= boot[j].at
    BY ZenonT(30), <1>5, EarliestIsDue DEF PollBoot, Due
  <2> DEFINE i == boot[Earliest].id
  <2>2. i \in Id /\ i \in W!DueIds /\ Deadlines[i] = boot[Earliest].at
    BY ZenonT(30), <2>1, EntryTyped, DueMatches
  <2>3. \A j \in W!DueIds : Deadlines[i] <= Deadlines[j]
    BY <2>1, <2>2, DueMatches
  <2>4. Deadlines' = [Deadlines EXCEPT ![i] = Unarmed]
    BY ZenonT(30), <1>5, <2>1, RemovalDeadlines DEF PollBoot
  <2>5. W!FireBoot(i)
    BY ZenonT(30), <1>5, <2>2, <2>3, <2>4, DueMatches DEF PollBoot, Outcome, W!FireBoot, W!Outcome
  <2> QED
    BY ZenonT(30), <2>2, <2>5 DEF W!Next
<1>6. CASE PollCommit
  <2>1. \A j \in W!DueIds : commit < Deadlines[j]
    <3>1. ASSUME NEW k \in Due PROVE commit < boot[k].at
      <4>1. /\ Earliest \in DOMAIN boot /\ k \in DOMAIN boot
            /\ boot[Earliest].at <= boot[k].at
        BY EarliestIsDue DEF Due
      <4>2. commit < boot[Earliest].at
        BY ZenonT(30), <1>6 DEF PollCommit
      <4>3. commit \in Nat /\ boot[Earliest].at \in Nat /\ boot[k].at \in Nat
        <5>1. commit \in Time
          BY ZenonT(30), <1>6 DEF PollCommit, CommitDue, IInv, TimerTypeOK
        <5>2. boot[Earliest].at \in Time /\ boot[k].at \in Time
          BY ZenonT(30), <4>1, EntryTyped
        <5> QED
          BY <5>1, <5>2, TimerAssumption DEF Time
      <4> QED
        BY <4>1, <4>2, <4>3
    <3> QED
      BY <3>1, DueMatches
  <2>2. W!FireCommit
    BY ZenonT(30), <1>0, <1>6, <2>1, DueMatches DEF PollCommit, Outcome, W!FireCommit, W!Outcome
  <2> QED
    BY <2>2 DEF W!Next
<1>7. CASE PollNone
  <2>1. W!Nothing
    BY ZenonT(30), <1>0, <1>7, DueMatches DEF PollNone, Outcome, W!Nothing, W!Outcome
  <2> QED
    BY ZenonT(30), <2>1 DEF W!Next
<1>8. CASE Tick
  BY <1>0, <1>8 DEF Tick, W!Next, W!Tick
<1>9. CASE UNCHANGED tvars
  BY <1>0, <1>9 DEF tvars, W!wvars
<1> QED
  BY ZenonT(30), <1>1, <1>2, <1>3, <1>4, <1>5, <1>6, <1>7, <1>8, <1>9
  DEF TimerNext, Arming, Cancelling

\* TimerManager's bounded vector implements the set of watchdogs: no arm is
\* refused early, no swap_remove drops another component's deadline, and poll
\* reports the nearest due watchdog.
THEOREM ImplementsWatchdogs == TimerSpec => RefinesWatchdogs
BY InitRefines, NextRefines, Invariance, PTL DEF TimerSpec, RefinesWatchdogs, W!Spec

-----------------------------------------------------------------------------
\* A walk in flight has passed exactly the checkpoints before its walk_cursor, and
\* its deadline is the end of the window it opened.
InFlight ==
    /\ phase = "Armed" => passed = <<>>
    /\ phase = "Walking" =>
          /\ passed = [k \in 1..(walk_cursor - 1) |-> k]
          /\ opened <= clock
          /\ deadline = SaturatingAdd(opened, Millis(walk_cursor))

WalkInv == WalkTypeOK /\ InFlight

\* What `as u64` keeps of a number: a remainder, the number itself when it fits.
LEMMA ModBelow ==
    ASSUME NEW t \in Nat, NEW m \in Nat \ {0}
    PROVE  t % m \in 0..(m - 1) /\ (t < m => t % m = t)
OBVIOUS

\* `as u64` of a window yields a time, and the window itself when it fits.
LEMMA MillisIsTime ==
    ASSUME NEW k \in 1..K
    PROVE  /\ Millis(k) \in WalkTime
           /\ Timeout[k] <= U64Max => Millis(k) = Timeout[k]
<1>1. Timeout[k] \in Nat /\ U64Max + 1 \in Nat \ {0}
  BY WalkAssumption
<1>2. /\ Timeout[k] % (U64Max + 1) \in 0..((U64Max + 1) - 1)
      /\ Timeout[k] < U64Max + 1 => Timeout[k] % (U64Max + 1) = Timeout[k]
  BY ZenonT(30), <1>1, ModBelow
<1>3. U64Max \in Nat
  BY WalkAssumption
<1> QED
  BY <1>1, <1>2, <1>3 DEF Millis, WalkTime

\* saturating_add of two u64 values is a u64.
LEMMA SaturatingAddIsTime ==
    ASSUME NEW t \in WalkTime, NEW d \in WalkTime
    PROVE  SaturatingAdd(t, d) \in WalkTime
BY WalkAssumption DEF SaturatingAdd, WalkTime

\* The walk that a poll judges is well-formed whether or not the poll opened
\* it.
LEMMA Judged ==
    ASSUME WalkInv, phase # "Idle"
    PROVE  /\ At \in 1..K
           /\ Until \in WalkTime
           /\ Since \in WalkTime
           /\ Since <= clock
           /\ Until = SaturatingAdd(Since, Millis(At))
           /\ passed = [k \in 1..(At - 1) |-> k]
<1>1. CASE phase = "Armed"
  <2>1. 1 \in 1..K
    BY WalkAssumption
  <2>2. clock \in WalkTime /\ Millis(1) \in WalkTime
    BY <2>1, MillisIsTime DEF WalkInv, WalkTypeOK
  <2>3. At = 1 /\ Since = clock /\ Until = SaturatingAdd(clock, Millis(1))
    BY <1>1 DEF At, Since, Until, Window
  <2>4. passed = [k \in 1..(1 - 1) |-> k]
    BY <1>1 DEF WalkInv, InFlight
  <2> QED
    BY <2>1, <2>2, <2>3, <2>4, SaturatingAddIsTime DEF WalkTime
<1>2. CASE phase = "Walking"
  <2>1. At = walk_cursor /\ Since = opened /\ Until = deadline
    BY <1>2 DEF At, Since, Until
  <2>2. walk_cursor \in 1..K
    BY <1>2, WalkAssumption DEF WalkInv, WalkTypeOK
  <2> QED
    BY <1>2, <2>1, <2>2 DEF WalkInv, WalkTypeOK, InFlight
<1> QED
  BY <1>1, <1>2 DEF WalkInv, WalkTypeOK

\* Starting to wait for checkpoint k keeps the invariant.
LEMMA AwaitInv ==
    ASSUME WalkInv, NEW k \in 1..K, NEW since \in WalkTime, since <= clock,
           Await(k, SaturatingAdd(since, Millis(k)), since),
           UNCHANGED clock, passed' = [j \in 1..(k - 1) |-> j]
    PROVE  WalkInv'
<1>1. SaturatingAdd(since, Millis(k)) \in WalkTime
  BY MillisIsTime, SaturatingAddIsTime
<1>2. passed' \in Seq(1..K)
  BY WalkAssumption
<1>3. verdict' \in [kind : VerdictKinds, checkpoint : 0..K, deadline : WalkTime]
  BY <1>1, WalkAssumption DEF Await, Waiting, Verdict, VerdictKinds
<1>4. WalkTypeOK'
  BY <1>1, <1>2, <1>3, WalkAssumption DEF WalkInv, WalkTypeOK, Await
<1>5. InFlight'
  BY DEF InFlight, Await, SaturatingAdd, Millis
<1> QED
  BY <1>4, <1>5 DEF WalkInv

\* A terminal verdict keeps it.
LEMMA EndInv ==
    ASSUME WalkInv, phase # "Idle", NEW v \in [kind : VerdictKinds, checkpoint : 0..K, deadline : WalkTime],
           End(v), UNCHANGED clock, passed' \in Seq(1..K)
    PROVE  WalkInv'
<1>1. Since \in WalkTime
  BY Judged
<1>2. WalkTypeOK'
  BY <1>1, WalkAssumption DEF WalkInv, WalkTypeOK, End, WalkTime
<1>3. InFlight'
  BY DEF InFlight, End
<1> QED
  BY <1>2, <1>3 DEF WalkInv

\* A walk just built satisfies the invariant.
LEMMA WalkInitInv == WalkInit => WalkInv
BY WalkAssumption DEF WalkInit, WalkInv, WalkTypeOK, InFlight, Waiting, Verdict, VerdictKinds, WalkTime

\* Reading Booted appends the awaited checkpoint.
LEMMA AppendNext ==
    ASSUME NEW n \in 1..K, NEW s, s = [j \in 1..(n - 1) |-> j]
    PROVE  /\ Append(s, n) = [j \in 1..n |-> j]
           /\ Append(s, n) \in Seq(1..K)
           /\ Len(Append(s, n)) > Len(s)
<1>1. n \in Nat /\ n - 1 \in Nat /\ K \in Nat
  BY WalkAssumption
<1>2. s \in Seq(1..K) /\ Len(s) = n - 1
  BY <1>1
<1>3. Append(s, n) = [j \in 1..n |-> j]
  BY <1>1, <1>2
<1> QED
  BY <1>1, <1>2, <1>3

\* What a poll that reads evidence does, as facts about the walk it judged.
LEMMA PollReadInv ==
    ASSUME WalkInv, NEW status \in Evidence, PollRead(status)
    PROVE  WalkInv'
<1>1. /\ phase # "Idle"
      /\ UNCHANGED clock
  BY DEF PollRead
<1>2. /\ At \in 1..K
      /\ Since \in WalkTime
      /\ Since <= clock
      /\ Until = SaturatingAdd(Since, Millis(At))
      /\ passed = [k \in 1..(At - 1) |-> k]
  BY <1>1, Judged
<1>3. CASE Await(At, Until, Since) /\ UNCHANGED passed
  BY <1>1, <1>2, <1>3, AwaitInv
<1>4. CASE /\ passed' = Append(passed, At)
           /\ IF At = K
              THEN End(Complete)
              ELSE Await(At + 1, SaturatingAdd(clock, Millis(At + 1)), clock)
  <2>1. /\ passed' = [k \in 1..At |-> k]
        /\ passed' \in Seq(1..K)
    BY ZenonT(30), <1>2, <1>4, AppendNext
  <2>2. CASE At = K
    <3>1. Complete \in [kind : VerdictKinds, checkpoint : 0..K, deadline : WalkTime]
      BY WalkAssumption DEF Complete, Verdict, VerdictKinds, WalkTime
    <3> QED
      BY ZenonT(30), <1>1, <1>4, <2>1, <2>2, <3>1, EndInv
  <2>3. CASE At # K
    <3>1. At + 1 \in 1..K /\ (At + 1) - 1 = At
      BY <1>2, <2>3, WalkAssumption
    <3>2. clock \in WalkTime /\ clock <= clock
      BY WalkAssumption DEF WalkInv, WalkTypeOK, WalkTime
    <3> QED
      BY ZenonT(30), <1>1, <1>4, <2>1, <2>3, <3>1, <3>2, AwaitInv
  <2> QED
    BY <2>2, <2>3
<1>5. CASE /\ \E cause \in {"DeviceRetriable", "DeviceFatal"} : End(Failed(At, cause))
           /\ UNCHANGED passed
  <2>1. PICK cause \in {"DeviceRetriable", "DeviceFatal"} : End(Failed(At, cause))
    BY <1>5
  <2>2. Failed(At, cause) \in [kind : VerdictKinds, checkpoint : 0..K, deadline : WalkTime]
    BY <1>2, <2>1, WalkAssumption DEF Failed, Verdict, VerdictKinds, WalkTime
  <2> QED
    BY ZenonT(30), <1>1, <1>5, <2>1, <2>2, EndInv DEF WalkInv, WalkTypeOK
<1> QED
  BY <1>3, <1>4, <1>5 DEF PollRead, Window

\* arm, every arm of poll, and the clock preserve the invariant.
LEMMA WalkNextInv ==
    ASSUME WalkInv, [WalkNext]_wvars
    PROVE  WalkInv'
<1>1. CASE Arm
  BY <1>1, WalkAssumption DEF Arm, WalkInv, WalkTypeOK, InFlight, WalkTime
<1>2. CASE PollUnarmed
  <2>1. verdict' \in [kind : VerdictKinds, checkpoint : 0..K, deadline : WalkTime]
    BY <1>2, WalkAssumption DEF PollUnarmed, Waiting, Verdict, VerdictKinds, WalkTime
  <2> QED
    BY ZenonT(30), <1>2, <2>1 DEF PollUnarmed, WalkInv, WalkTypeOK, InFlight
<1>3. CASE PollLapsed
  <2>1. phase # "Idle" /\ End(Failed(At, "TimedOut")) /\ UNCHANGED <<clock, passed>>
    BY <1>3 DEF PollLapsed
  <2>2. At \in 1..K
    BY <2>1, Judged
  <2>3. Failed(At, "TimedOut") \in [kind : VerdictKinds, checkpoint : 0..K, deadline : WalkTime]
    BY <2>2, WalkAssumption DEF Failed, Verdict, VerdictKinds, WalkTime
  <2> QED
    BY <2>1, <2>3, EndInv DEF WalkInv, WalkTypeOK
<1>4. CASE \E status \in Evidence : PollRead(status)
  BY ZenonT(30), <1>4, PollReadInv
<1>5. CASE WalkTick
  BY <1>5, WalkAssumption DEF WalkTick, WalkInv, WalkTypeOK, InFlight, WalkTime
<1>6. CASE UNCHANGED wvars
  BY ZenonT(30), <1>6 DEF wvars, WalkInv, WalkTypeOK, InFlight
<1> QED
  BY ZenonT(30), <1>1, <1>2, <1>3, <1>4, <1>5, <1>6 DEF WalkNext, Poll

\* The types and the history of a walk in flight hold for ever, whatever the
\* evidence, the polls and the clock.
THEOREM WalkInvariance == WalkSpec => []WalkInv
BY WalkInitInv, WalkNextInv, PTL DEF WalkSpec

\* WalkTypeOK: in particular no deadline overflows u64.
THEOREM WalkTypeCorrect == WalkSpec => []WalkTypeOK
<1>1. WalkInv => WalkTypeOK
  BY DEF WalkInv
<1> QED
  BY <1>1, WalkInvariance, PTL

----------------------------------------------------------------------------
(* What a step may do *)

\* The windows that `as u64` leaves as they were declared.
WindowsFit == \A k \in 1..K : Timeout[k] <= U64Max

\* Only a poll ends an attempt or passes a checkpoint.
LEMMA OnlyPollsJudge ==
    ASSUME WalkInv, [WalkNext]_wvars, Ended \/ Advanced \/ (phase' = "Walking" /\ verdict' # verdict)
    PROVE  PollLapsed \/ \E status \in Evidence : PollRead(status)
<1>1. ~Arm
  BY DEF Arm, Ended, Advanced, WalkInv, WalkTypeOK
<1>2. ~PollUnarmed
  BY DEF PollUnarmed, Ended, Advanced
<1>3. ~WalkTick
  BY DEF WalkTick, Ended, Advanced
<1>4. ~UNCHANGED wvars
  BY DEF wvars, Ended, Advanced
<1> QED
  BY ZenonT(30), <1>1, <1>2, <1>3, <1>4 DEF WalkNext, Poll

\* Complete is earned: when poll returns it, every checkpoint was read as
\* Booted since the last arm, in declaration order.
THEOREM CompletionEarned == WalkSpec => CompleteIsEarned
<1>1. ASSUME WalkInv, [WalkNext]_wvars, Ended, verdict'.kind = "Complete"
      PROVE  passed' = [k \in 1..K |-> k]
  <2>1. CASE PollLapsed
    BY ZenonT(30), <1>1, <2>1 DEF PollLapsed, End, Failed, Verdict
  <2>2. CASE \E status \in Evidence : PollRead(status)
    <3>1. At \in 1..K /\ passed = [k \in 1..(At - 1) |-> k]
      BY ZenonT(30), <1>1, Judged DEF Ended
    <3>2. At = K /\ passed' = Append(passed, At)
      BY <1>1, <2>2 DEF PollRead, Ended, Await, End, Failed, Verdict
    <3> QED
      BY <3>1, <3>2, AppendNext
  <2> QED
    BY ZenonT(30), <1>1, <2>1, <2>2, OnlyPollsJudge
<1>2. WalkInv /\ [WalkNext]_wvars
        => [Ended /\ verdict'.kind = "Complete" => passed' = [k \in 1..K |-> k]]_wvars
  BY <1>1
<1> QED
  BY <1>2, WalkInvariance, PTL DEF WalkSpec, CompleteIsEarned

\* The window a poll judges ends where it was declared to, or at the end of
\* the clock.
LEMMA WindowEnd ==
    ASSUME WalkInv, WindowsFit, phase # "Idle"
    PROVE  /\ clock >= Until => clock - Since >= Timeout[At] \/ clock = U64Max
           /\ clock < Until => clock - Since < Timeout[At]
<1>1. /\ At \in 1..K
      /\ Since \in WalkTime
      /\ Until = SaturatingAdd(Since, Millis(At))
  BY Judged
<1>2. Millis(At) = Timeout[At] /\ Timeout[At] \in Nat
  BY ZenonT(30), <1>1, MillisIsTime, WalkAssumption DEF WindowsFit
<1>3. clock \in WalkTime /\ U64Max \in Nat
  BY WalkAssumption DEF WalkInv, WalkTypeOK
<1> QED
  BY <1>1, <1>2, <1>3 DEF SaturatingAdd, WalkTime

\* The window decides: TimedOut comes only after the declared window, other
\* verdicts only inside it, when the windows fit in a u64.
THEOREM WindowDecides ==
    ASSUME WindowsFit
    PROVE  WalkSpec => JudgedByWindow
<1> DEFINE Late == Ended /\ verdict'.kind = "TimedOut"
                    => clock - Since >= Timeout[verdict'.checkpoint] \/ clock = U64Max
           Early == Advanced \/ (Ended /\ verdict'.kind # "TimedOut")
                    => clock - Since < Timeout[At]
<1>1. ASSUME WalkInv, [WalkNext]_wvars PROVE Late /\ Early
  <2>1. SUFFICES ASSUME Ended \/ Advanced PROVE Late /\ Early
    OBVIOUS
  <2>2. CASE PollLapsed
    <3>1. /\ phase # "Idle"
          /\ clock >= Until
          /\ passed' = passed
          /\ verdict'.kind = "TimedOut" /\ verdict'.checkpoint = At
      BY <2>2 DEF PollLapsed, End, Failed, Verdict
    <3> QED
      BY <1>1, <3>1, WindowEnd DEF Advanced
  <2>3. CASE \E status \in Evidence : PollRead(status)
    <3>1. phase # "Idle" /\ clock < Until
      BY ZenonT(30), <2>3 DEF PollRead
    <3>2. Ended => verdict'.kind # "TimedOut"
      BY <2>3 DEF PollRead, Ended, Await, End, Complete, Failed, Verdict
    <3> QED
      BY ZenonT(30), <1>1, <3>1, <3>2, WindowEnd
  <2> QED
    BY ZenonT(30), <1>1, <2>1, <2>2, <2>3, OnlyPollsJudge
<1>2. WalkInv /\ [WalkNext]_wvars => [Late /\ Early]_wvars
  BY <1>1
<1> QED
  BY <1>2, WalkInvariance, PTL DEF WalkSpec, JudgedByWindow

\* A live walk's deadline is ahead of the clock when poll returns it.
THEOREM DeadlinesAreAhead ==
    ASSUME WindowsFit
    PROVE  WalkSpec => DeadlineAhead
<1> DEFINE Ahead == phase' = "Walking" /\ (verdict' # verdict \/ phase = "Armed")
                      => verdict'.deadline > clock /\ verdict'.deadline = deadline'
<1>1. ASSUME WalkInv, [WalkNext]_wvars PROVE Ahead
  <2>1. SUFFICES ASSUME phase' = "Walking", verdict' # verdict \/ phase = "Armed"
                 PROVE  verdict'.deadline > clock /\ verdict'.deadline = deadline'
    OBVIOUS
  <2>2. PICK status \in Evidence : PollRead(status)
    BY ZenonT(30), <1>1, <2>1 DEF WalkNext, Poll, Arm, PollUnarmed, PollLapsed, End, WalkTick, wvars
  <2>3. phase # "Idle" /\ clock < Until /\ At \in 1..K /\ Until \in WalkTime /\ clock \in WalkTime
    BY ZenonT(30), <1>1, <2>2, Judged DEF PollRead, WalkInv, WalkTypeOK
  <2>4. CASE Await(At, Until, Since)
    BY ZenonT(30), <2>3, <2>4 DEF Await, Waiting, Verdict
  <2>5. CASE At # K /\ Await(At + 1, SaturatingAdd(clock, Millis(At + 1)), clock)
    <3>1. At + 1 \in 1..K
      BY <2>3, <2>5, WalkAssumption
    <3>2. Millis(At + 1) \in Nat \ {0}
      BY ZenonT(30), <3>1, MillisIsTime, WalkAssumption DEF WindowsFit
    <3>3. SaturatingAdd(clock, Millis(At + 1)) > clock
      BY <2>3, <3>2, WalkAssumption DEF SaturatingAdd, WalkTime
    <3> QED
      BY ZenonT(30), <2>5, <3>3 DEF Await, Waiting, Verdict
  <2> QED
    BY ZenonT(30), <2>1, <2>2, <2>4, <2>5 DEF PollRead, Window, End
<1>2. WalkInv /\ [WalkNext]_wvars => [Ahead]_wvars
  BY <1>1
<1> QED
  BY <1>2, WalkInvariance, PTL DEF WalkSpec, DeadlineAhead

\* The walk implements the BootWatch contract.
THEOREM ImplementsBootWatch == WalkSpec => RefinesBootWatch
<1>1. WalkInit => Watch!Init
  BY DEF WalkInit, Watch!Init, Waiting, Verdict
<1>2. ASSUME WalkInv, [WalkNext]_wvars
      PROVE  [Watch!Next]_<<phase # "Idle", verdict.kind>>
  <2>1. CASE Arm
    BY <2>1 DEF Arm, Watch!Next, Watch!Arm
  <2>2. CASE PollUnarmed
    BY <2>2 DEF PollUnarmed, Waiting, Verdict, Watch!Next, Watch!PollWaiting
  <2>3. CASE PollLapsed
    BY ZenonT(30), <2>3 DEF PollLapsed, End, Failed, Verdict, Watch!Next, Watch!PollTerminal, Watch!Terminal
  <2>4. CASE \E status \in Evidence : PollRead(status)
    BY <2>4 DEF PollRead, Await, End, Waiting, Complete, Failed, Verdict,
                Watch!Next, Watch!PollWaiting, Watch!PollTerminal, Watch!Terminal
  <2>5. CASE WalkTick
    BY <2>5 DEF WalkTick
  <2>6. CASE UNCHANGED wvars
    BY ZenonT(30), <2>6 DEF wvars
  <2> QED
    BY ZenonT(30), <1>2, <2>1, <2>2, <2>3, <2>4, <2>5, <2>6 DEF WalkNext, Poll
<1> QED
  BY <1>1, <1>2, WalkInvariance, PTL DEF WalkSpec, RefinesBootWatch, Watch!Spec

----------------------------------------------------------------------------
(* The contract *)

\* The reducer of the contract is the reducer.
LEMMA SameStep ==
    ASSUME NEW ev, Step(ev)
    PROVE  Contract!Step(ev)
<1> USE DEF None, Concat, IdsOf, NewDependents, Frontier, ClosedUnderDependents,
            DependentsOn, Comp, Supervised, ComponentEvents, Fx, Emit, RecoverComponent,
            ReadAndVerify, InChain, Entries, Dependents, CascadeOrder, Gates, GatedBy,
            GateOrder, GateEffects, FirstUngated, NextUngated, WalkEffects,
            QuiesceEffects, EnterPreSupervision, EnterRecovering, EnterReady,
            EnterLocked, Report, Drop, NewlyGated, Hold, HandleCorruption,
            HandleCorruptionAdvancing, ExhaustRecovery, BumpRetry, ReleaseCursor,
            ClearAwaitingBoot, FatalBootFailure, LeafArms, SupervisingArms, LeafHandles,
            PassedUp, Plain, EffectFailed, Contract!None, Contract!Concat,
            Contract!IdsOf, Contract!NewDependents, Contract!Frontier,
            Contract!ClosedUnderDependents, Contract!DependentsOn, Contract!Comp,
            Contract!Supervised, Contract!ComponentEvents, Contract!Fx, Contract!Emit,
            Contract!RecoverComponent, Contract!ReadAndVerify, Contract!InChain,
            Contract!Entries, Contract!Dependents, Contract!CascadeOrder, Contract!Gates,
            Contract!GatedBy, Contract!GateOrder, Contract!GateEffects,
            Contract!FirstUngated, Contract!NextUngated, Contract!WalkEffects,
            Contract!QuiesceEffects, Contract!EnterPreSupervision,
            Contract!EnterRecovering, Contract!EnterReady, Contract!EnterLocked,
            Contract!Report, Contract!Drop, Contract!NewlyGated, Contract!Hold,
            Contract!HandleCorruption, Contract!HandleCorruptionAdvancing,
            Contract!ExhaustRecovery, Contract!BumpRetry, Contract!ReleaseCursor,
            Contract!ClearAwaitingBoot, Contract!FatalBootFailure, Contract!LeafArms,
            Contract!SupervisingArms, Contract!LeafHandles, Contract!PassedUp,
            Contract!Plain, Contract!EffectFailed
<1>1. /\ PowerGood(ev) => Contract!PowerGood(ev)
      /\ UnsupervisedEffectFailed(ev) => Contract!UnsupervisedEffectFailed(ev)
      /\ PreSupervisionVerificationPassed(ev) => Contract!PreSupervisionVerificationPassed(ev)
      /\ PreSupervisionVerificationFailed(ev) => Contract!PreSupervisionVerificationFailed(ev)
      /\ PreSupervisionCorruptionDetected(ev) => Contract!PreSupervisionCorruptionDetected(ev)
      /\ PreSupervisionBooted(ev) => Contract!PreSupervisionBooted(ev)
      /\ PreSupervisionTimeout(ev) => Contract!PreSupervisionTimeout(ev)
      /\ PreSupervisionBootFailed(ev) => Contract!PreSupervisionBootFailed(ev)
  BY ZenonT(30) DEF PowerGood, UnsupervisedEffectFailed, PreSupervisionVerificationPassed,
               PreSupervisionVerificationFailed, PreSupervisionCorruptionDetected,
               PreSupervisionBooted, PreSupervisionTimeout, PreSupervisionBootFailed,
               Contract!PowerGood, Contract!UnsupervisedEffectFailed,
               Contract!PreSupervisionVerificationPassed,
               Contract!PreSupervisionVerificationFailed,
               Contract!PreSupervisionCorruptionDetected, Contract!PreSupervisionBooted,
               Contract!PreSupervisionTimeout, Contract!PreSupervisionBootFailed
<1>2. /\ AwaitingReadyComponentReady(ev) => Contract!AwaitingReadyComponentReady(ev)
      /\ AwaitingReadyVerificationPassed(ev) => Contract!AwaitingReadyVerificationPassed(ev)
      /\ AwaitingReadyVerificationFailed(ev) => Contract!AwaitingReadyVerificationFailed(ev)
      /\ AwaitingReadyCorruptionDetected(ev) => Contract!AwaitingReadyCorruptionDetected(ev)
      /\ AwaitingReadyBootFailed(ev) => Contract!AwaitingReadyBootFailed(ev)
  BY ZenonT(30) DEF AwaitingReadyComponentReady, AwaitingReadyVerificationPassed,
               AwaitingReadyVerificationFailed, AwaitingReadyCorruptionDetected,
               AwaitingReadyBootFailed, Contract!AwaitingReadyComponentReady,
               Contract!AwaitingReadyVerificationPassed,
               Contract!AwaitingReadyVerificationFailed,
               Contract!AwaitingReadyCorruptionDetected, Contract!AwaitingReadyBootFailed
<1>3. /\ ReadyUpdateRequest(ev) => Contract!ReadyUpdateRequest(ev)
      /\ ReadyBootConfirmed(ev) => Contract!ReadyBootConfirmed(ev)
      /\ ReadyCommitTimeout(ev) => Contract!ReadyCommitTimeout(ev)
      /\ UpdatingVerified(ev) => Contract!UpdatingVerified(ev)
      /\ UpdatingRejected(ev) => Contract!UpdatingRejected(ev)
      /\ UpdatingCorruptionDetected(ev) => Contract!UpdatingCorruptionDetected(ev)
      /\ RecoveringRestored(ev) => Contract!RecoveringRestored(ev)
      /\ RecoveringUnavailable(ev) => Contract!RecoveringUnavailable(ev)
      /\ RecoveringFailed(ev) => Contract!RecoveringFailed(ev)
  BY ZenonT(30) DEF ReadyUpdateRequest, ReadyBootConfirmed, ReadyCommitTimeout,
               UpdatingVerified, UpdatingRejected, UpdatingCorruptionDetected,
               RecoveringRestored, RecoveringUnavailable, RecoveringFailed,
               Contract!ReadyUpdateRequest, Contract!ReadyBootConfirmed,
               Contract!ReadyCommitTimeout, Contract!UpdatingVerified,
               Contract!UpdatingRejected, Contract!UpdatingCorruptionDetected,
               Contract!RecoveringRestored, Contract!RecoveringUnavailable,
               Contract!RecoveringFailed
<1>4. /\ SupervisingAttestation(ev) => Contract!SupervisingAttestation(ev)
      /\ SupervisingCorruptionDetected(ev) => Contract!SupervisingCorruptionDetected(ev)
      /\ SupervisingBootProgress(ev) => Contract!SupervisingBootProgress(ev)
      /\ SupervisingTimeout(ev) => Contract!SupervisingTimeout(ev)
      /\ SupervisingBootFailed(ev) => Contract!SupervisingBootFailed(ev)
      /\ SupervisingUpdateRequest(ev) => Contract!SupervisingUpdateRequest(ev)
      /\ SupervisingEffectFailed(ev) => Contract!SupervisingEffectFailed(ev)
      /\ Discard(ev) => Contract!Discard(ev)
  BY ZenonT(30) DEF SupervisingAttestation, SupervisingCorruptionDetected,
               SupervisingBootProgress, SupervisingTimeout, SupervisingBootFailed,
               SupervisingUpdateRequest, SupervisingEffectFailed, Discard,
               Contract!SupervisingAttestation, Contract!SupervisingCorruptionDetected,
               Contract!SupervisingBootProgress, Contract!SupervisingTimeout,
               Contract!SupervisingBootFailed, Contract!SupervisingUpdateRequest,
               Contract!SupervisingEffectFailed, Contract!Discard
<1> QED
  BY <1>1, <1>2, <1>3, <1>4, ZenonT(30) DEF Step, Handle, Contract!Step, Contract!Handle

\* So is the loop: what is left to compare is what each executor does.
LEMMA SameLoop ==
    /\ LoopInit => Contract!LoopInit
    /\ \A ev : Start(ev) => Contract!Start(ev)
    /\ SettleFront => Contract!SettleFront
    /\ EmitFront => Contract!EmitFront
    /\ ExecuteOk => Contract!ExecuteOk
    /\ ExecuteErr => Contract!ExecuteErr
    /\ \A ev : ExecuteReply(ev) => Contract!ExecuteReply(ev)
<1>1. LoopInit => Contract!LoopInit
  BY ZenonT(30) DEF LoopInit, Init, Comp, None,
               Contract!LoopInit, Contract!Init, Contract!Comp, Contract!None
<1>2. \A ev : Start(ev) => Contract!Start(ev)
  BY ZenonT(30) DEF Start, Idle, vars, Contract!Start, Contract!Idle, Contract!vars
<1>3. SettleFront => Contract!SettleFront
  BY ZenonT(30), SameStep DEF SettleFront, Contract!SettleFront
<1> USE DEF Plain, EffectFailed, Evict, Latch, Abandon, SinkTail, Enqueue, reducer, External,
            Contract!Plain, Contract!EffectFailed, Contract!Evict, Contract!Latch,
            Contract!Abandon, Contract!SinkTail, Contract!Enqueue, Contract!reducer,
            Contract!External
<1>4. EmitFront => Contract!EmitFront
  BY ZenonT(30) DEF EmitFront, Event, PowerOnResults, ComponentEvents, Ids, BootFailureKinds,
               PlainEvents, Contract!EmitFront, Contract!Event, Contract!PowerOnResults,
               Contract!ComponentEvents, Contract!Ids, Contract!BootFailureKinds,
               Contract!PlainEvents
<1>5. /\ ExecuteOk => Contract!ExecuteOk
      /\ ExecuteErr => Contract!ExecuteErr
      /\ \A ev : ExecuteReply(ev) => Contract!ExecuteReply(ev)
  BY ZenonT(30) DEF ExecuteOk, ExecuteErr, ExecuteReply,
               Contract!ExecuteOk, Contract!ExecuteErr, Contract!ExecuteReply
<1> QED
  BY ZenonT(30), <1>1, <1>2, <1>3, <1>4, <1>5

\* The boot reports the driver owes while it watches the components in cs.
Boots(cs) == {<<"Boot", c>> : c \in cs}

\* Watching one more component, or one less, adds its report or takes it away;
\* the driver never owes an answer of another kind.
LEMMA BootsAre ==
    /\ Boots({}) = {}
    /\ \A cs, c : Boots(cs \cup {c}) = Boots(cs) \cup {Contract!Boot(c)}
    /\ \A cs, c : Boots(cs \ {c}) = Boots(cs) \ {Contract!Boot(c)}
    /\ \A cs : \A c \in cs : Contract!Boot(c) \in Boots(cs)
    /\ \A cs, c : Contract!Verify(c) \notin Boots(cs)
    /\ \A cs : Contract!Commit \notin Boots(cs)
<1>1. \A c, d : (<<"Boot", c>> = <<"Boot", d>> <=> c = d)
  OBVIOUS
<1>2. /\ \A c, d : <<"Boot", c>> # <<"Verify", d>>
      /\ \A c, d : <<"Boot", c>> # <<"Commit", d>>
  OBVIOUS
<1>3. \A cs, x : (x \in Boots(cs) <=> \E d \in cs : x = <<"Boot", d>>)
  BY DEF Boots
<1>4. ASSUME NEW cs, NEW c PROVE Boots(cs \cup {c}) = Boots(cs) \cup {<<"Boot", c>>}
  BY ZenonT(30) DEF Boots
<1>5. ASSUME NEW cs, NEW c PROVE Boots(cs \ {c}) = Boots(cs) \ {<<"Boot", c>>}
  <2>1. \A x : (x \in Boots(cs \ {c}) <=> x \in Boots(cs) /\ x # <<"Boot", c>>)
    <3>1. \A x : (x \in Boots(cs) <=> \E d \in cs : x = <<"Boot", d>>)
      BY <1>3
    <3>2. \A x : (x \in Boots(cs \ {c}) <=> \E d \in cs \ {c} : x = <<"Boot", d>>)
      BY <1>3
    <3> QED
      BY <1>1, <3>1, <3>2
  <2> QED
    BY ZenonT(30), <2>1
<1>6. Boots({}) = {}
  BY ZenonT(30) DEF Boots
<1>7. /\ \A cs : \A c \in cs : Contract!Boot(c) \in Boots(cs)
      /\ \A cs, c : Contract!Verify(c) \notin Boots(cs)
      /\ \A cs : Contract!Commit \notin Boots(cs)
  BY ZenonT(30), <1>2 DEF Boots, Contract!Boot, Contract!Verify, Contract!Commit, Contract!None
<1> QED
  BY ZenonT(30), <1>4, <1>5, <1>6, <1>7 DEF Contract!Boot

\* What the contract says of the effects that have an executor.
LEMMA ContractActuates ==
    ASSUME NEW e
    PROVE  /\ e.op = "VerifyFirmware" /\ lines' = lines /\ judged' = judged \cup {e.id}
                => Contract!Actuate(e)
           /\ e.op = "ReleaseReset" /\ lines' = lines \ {e.id} /\ judged' = judged
                => Contract!Actuate(e)
           /\ e.op = "AssertReset" /\ lines' = lines \cup {e.id} /\ judged' = judged \ {e.id}
                => Contract!Actuate(e)
           /\ e.op \in {"ReadFirmware", "CommitSvnFloor"} \cup Reports /\ UNCHANGED <<lines, judged>>
                => Contract!Actuate(e)
<1>1. ASSUME e.op = "VerifyFirmware", lines' = lines, judged' = judged \cup {e.id}
      PROVE  Contract!Actuate(e)
  <2>1. e.op \notin {"AssertReset", "RecoverComponent", "ReleaseReset", "StageUpdate",
                     "ActivateUpdate", "DiscardStaged"}
    BY <1>1
  <2> QED
    BY ZenonT(30), <1>1, <2>1 DEF Contract!Actuate
<1>2. ASSUME e.op = "ReleaseReset", lines' = lines \ {e.id}, judged' = judged
      PROVE  Contract!Actuate(e)
  <2>1. e.op \notin {"AssertReset", "RecoverComponent", "VerifyFirmware", "StageUpdate",
                     "ActivateUpdate", "DiscardStaged"}
    BY <1>2
  <2> QED
    BY ZenonT(30), <1>2, <2>1 DEF Contract!Actuate
<1>3. ASSUME e.op = "AssertReset", lines' = lines \cup {e.id}, judged' = judged \ {e.id}
      PROVE  Contract!Actuate(e)
  <2>1. e.op \notin {"ReleaseReset", "VerifyFirmware", "StageUpdate", "ActivateUpdate",
                     "DiscardStaged"}
    BY <1>3
  <2> QED
    BY ZenonT(30), <1>3, <2>1 DEF Contract!Actuate
<1>4. ASSUME e.op \in {"ReadFirmware", "CommitSvnFloor"} \cup Reports,
             UNCHANGED <<lines, judged>>
      PROVE  Contract!Actuate(e)
  <2>1. e.op \notin {"AssertReset", "RecoverComponent", "ReleaseReset", "VerifyFirmware",
                     "StageUpdate", "ActivateUpdate", "DiscardStaged"}
    BY <1>4 DEF Reports
  <2> QED
    BY ZenonT(30), <1>4, <2>1 DEF Contract!Actuate
<1> QED
  BY ZenonT(30), <1>1, <1>2, <1>3, <1>4

\* And what it says they owe.
LEMMA ContractOwes ==
    ASSUME NEW e
    PROVE  /\ e.op = "VerifyFirmware" =>
                Contract!Owed(e) = Boots(watching) \cup {Contract!Verify(e.id)}
           /\ e.op = "ReleaseReset" => Contract!Owed(e) = Boots(watching \cup {e.id})
           /\ e.op = "AssertReset" => Contract!Owed(e) = Boots(watching \ {e.id})
           /\ e.op \in {"ReadFirmware", "CommitSvnFloor"} \cup Reports =>
                Contract!Owed(e) = Boots(watching)
<1>1. ASSUME e.op = "VerifyFirmware"
      PROVE  Contract!Owed(e) = Boots(watching) \cup {Contract!Verify(e.id)}
  BY ZenonT(30), <1>1 DEF Contract!Owed, Boots
<1>2. ASSUME e.op = "ReleaseReset"
      PROVE  Contract!Owed(e) = Boots(watching) \cup {Contract!Boot(e.id)}
  BY ZenonT(30), <1>2 DEF Contract!Owed, Boots
<1>3. ASSUME e.op = "AssertReset"
      PROVE  Contract!Owed(e) = Boots(watching) \ {Contract!Boot(e.id)}
  BY ZenonT(30), <1>3 DEF Contract!Owed, Boots
<1>4. ASSUME e.op = "CommitSvnFloor"
      PROVE  Contract!Owed(e) = Boots(watching) \ {Contract!Commit}
  BY ZenonT(30), <1>4 DEF Contract!Owed, Boots
<1>5. ASSUME e.op \in {"ReadFirmware"} \cup Reports
      PROVE  Contract!Owed(e) = Boots(watching)
  <2>1. e.op \notin {"VerifyFirmware", "RecoverComponent", "ReleaseReset", "AssertReset",
                     "AuthenticateUpdate", "ActivateUpdate", "CommitSvnFloor"}
    BY ZenonT(30), <1>5 DEF Reports
  <2> QED
    BY ZenonT(30), <2>1 DEF Contract!Owed, Boots
<1>6. /\ Boots(watching) \cup {Contract!Boot(e.id)} = Boots(watching \cup {e.id})
      /\ Boots(watching) \ {Contract!Boot(e.id)} = Boots(watching \ {e.id})
      /\ Boots(watching) \ {Contract!Commit} = Boots(watching)
  <2>1. /\ Boots(watching) \cup {Contract!Boot(e.id)} = Boots(watching \cup {e.id})
        /\ Boots(watching) \ {Contract!Boot(e.id)} = Boots(watching \ {e.id})
        /\ Contract!Commit \notin Boots(watching)
    BY ZenonT(30), BootsAre
  <2> QED
    BY <2>1
<1>7. ASSUME e.op \in {"ReadFirmware", "CommitSvnFloor"} \cup Reports
      PROVE  e.op = "CommitSvnFloor" \/ e.op \in {"ReadFirmware"} \cup Reports
  BY <1>7
<1> HIDE DEF Boots
<1> QED
  BY ZenonT(30), <1>1, <1>2, <1>3, <1>4, <1>5, <1>6, <1>7

\* What it lets the two outcomes the driver leaves owed be answered with.
LEMMA ContractAnswers ==
    ASSUME NEW c
    PROVE  /\ Contract!Answers(Contract!Verify(c)) =
                {Contract!About("VerificationPassed", c), Contract!About("VerificationFailed", c)}
           /\ Contract!Answers(Contract!Boot(c)) =
                {Contract!About(IF Kind[c] = "Active" THEN "ComponentReady" ELSE "Booted", c),
                 Contract!About("Timeout", c)}
                  \cup [type : {"BootFailed"}, id : {c}, kind : Contract!BootFailureKinds]
<1>1. \A x, y : <<x, y>>[1] = x /\ <<x, y>>[2] = y
  OBVIOUS
<1>2. Contract!Authenticate[1] = "Authenticate" /\ Contract!Commit[1] = "Commit"
  BY <1>1, ZenonT(30) DEF Contract!Authenticate, Contract!Commit
<1>3. ASSUME NEW o, o[1] = "Verify", o[2] = c
      PROVE  Contract!Answers(o) =
               {Contract!About("VerificationPassed", c), Contract!About("VerificationFailed", c)}
  <2>1. o # Contract!Authenticate /\ o # Contract!Commit
    BY <1>2, <1>3
  <2> QED
    BY <1>3, <2>1 DEF Contract!Answers
<1>4. ASSUME NEW o, o[1] = "Boot", o[2] = c
      PROVE  Contract!Answers(o) =
               {Contract!About(IF Kind[c] = "Active" THEN "ComponentReady" ELSE "Booted", c),
                Contract!About("Timeout", c)}
                 \cup [type : {"BootFailed"}, id : {c}, kind : Contract!BootFailureKinds]
  <2>1. o # Contract!Authenticate /\ o # Contract!Commit
    BY ZenonT(30), <1>2, <1>4
  <2> QED
    BY <1>4, <2>1 DEF Contract!Answers
<1>5. /\ Contract!Verify(c)[1] = "Verify" /\ Contract!Verify(c)[2] = c
      /\ Contract!Boot(c)[1] = "Boot" /\ Contract!Boot(c)[2] = c
  BY <1>1, ZenonT(30) DEF Contract!Verify, Contract!Boot
<1> QED
  BY ZenonT(30), <1>3, <1>4, <1>5

\* `execute` returns Ok(None).
LEMMA KeepsSilent ==
    ASSUME ExecuteOk, Contract!Actuate(Head(sink)),
           Boots(watching') = Contract!Owed(Head(sink))
    PROVE  Contract!DispatchNext
<1>1. Contract!ExecuteOk
  BY SameLoop
<1> QED
  BY <1>1 DEF Contract!DispatchNext, Contract!ExecuteFront, Contract!ExecuteSilent, Boots

\* `execute` returns Err.
LEMMA KeepsFailing ==
    ASSUME ExecuteErr, Contract!Actuate(Head(sink)) \/ UNCHANGED <<lines, judged>>,
           UNCHANGED watching
    PROVE  Contract!DispatchNext
<1>1. Contract!ExecuteErr
  BY ZenonT(30), SameLoop
<1> QED
  BY <1>1 DEF Contract!DispatchNext, Contract!ExecuteFront, Contract!ExecuteFailing

\* verify_firmware answers at once, or fails.
LEMMA KeepsVerifying ==
    ASSUME External, Head(sink).op = "VerifyFirmware", VerifyFirmware(Head(sink).id)
    PROVE  Contract!DispatchNext
<1> DEFINE c == Head(sink).id
           o == Contract!Verify(c)
<1>1. UNCHANGED <<lines, watching>>
  BY DEF VerifyFirmware, board
<1>2. CASE ExecuteErr /\ UNCHANGED judged
  BY <1>1, <1>2, KeepsFailing
<1>3. CASE /\ judged' = judged \cup {c}
           /\ \E type \in {"VerificationPassed", "VerificationFailed"} :
                ExecuteReply(About(type, c))
  <2>1. PICK type \in {"VerificationPassed", "VerificationFailed"} : ExecuteReply(About(type, c))
    BY <1>3
  <2>2. Contract!ExecuteReply(About(type, c)) /\ Contract!External
    <3>1. Contract!ExecuteReply(About(type, c))
      BY ZenonT(30), <2>1, SameLoop
    <3> QED
      BY ZenonT(30), <3>1 DEF Contract!ExecuteReply
  <2>3. About(type, c) \in Contract!Answers(o)
    <3>1. Contract!Answers(o) =
            {Contract!About("VerificationPassed", c), Contract!About("VerificationFailed", c)}
      BY ContractAnswers, ZenonT(30)
    <3>2. \/ About(type, c) = Contract!About("VerificationPassed", c)
          \/ About(type, c) = Contract!About("VerificationFailed", c)
      BY ZenonT(30), <2>1 DEF About, Contract!About
    <3> QED
      BY ZenonT(30), <3>1, <3>2
  <2>4. o \in Contract!Immediate(Head(sink))
    BY ZenonT(30) DEF Contract!Immediate
  <2>5. Boots(watching') = Contract!Owed(Head(sink)) \ {o}
    <3>1. Contract!Owed(Head(sink)) = Boots(watching) \cup {o} /\ o \notin Boots(watching)
      BY ZenonT(30), ContractOwes, BootsAre
    <3> QED
      BY ZenonT(30), <1>1, <3>1
  <2>6. Contract!Actuate(Head(sink))
    BY ZenonT(30), <1>1, <1>3, ContractActuates
  <2>7. Contract!ExecuteAnswering
    BY ZenonT(30), <2>2, <2>3, <2>4, <2>5, <2>6 DEF Contract!ExecuteAnswering, Boots
  <2> QED
    BY <2>7 DEF Contract!DispatchNext, Contract!ExecuteFront
<1> QED
  BY ZenonT(30), <1>2, <1>3 DEF VerifyFirmware

\* Every other executor returns Ok(None), or fails.
LEMMA KeepsExecuting ==
    ASSUME Execute
    PROVE  Contract!DispatchNext
<1> DEFINE e == Head(sink)
<1>0. External
  BY DEF Execute
<1>1. ASSUME UNCHANGED <<lines, watching, judged>>, ExecuteOk \/ ExecuteErr,
             e.op \in {"ReadFirmware", "CommitSvnFloor"} \cup Reports
      PROVE  Contract!DispatchNext
  <2>1. Contract!Actuate(e) /\ Boots(watching') = Contract!Owed(e)
    BY ZenonT(30), <1>1, ContractActuates, ContractOwes
  <2> QED
    BY ZenonT(30), <1>1, <2>1, KeepsSilent, KeepsFailing
<1>2. CASE e.op = "ReadFirmware" /\ StageFirmware(e.id)
  BY ZenonT(30), <1>1, <1>2 DEF StageFirmware, board
<1>3. CASE e.op = "VerifyFirmware" /\ VerifyFirmware(e.id)
  BY ZenonT(30), <1>0, <1>3, KeepsVerifying
<1>4. CASE e.op = "ReleaseReset" /\ ReleaseReset(e.id)
  <2>1. judged' = judged
    BY ZenonT(30), <1>4 DEF ReleaseReset
  <2>2. lines' = lines \ {e.id} => Contract!Actuate(e)
    BY ZenonT(30), <1>4, <2>1, ContractActuates
  <2>3. CASE ExecuteOk /\ lines' = lines \ {e.id} /\ watching' = watching \cup {e.id}
    BY ZenonT(30), <1>4, <2>2, <2>3, ContractOwes, KeepsSilent
  <2>4. CASE ExecuteErr /\ lines' \in {lines, lines \ {e.id}} /\ UNCHANGED watching
    BY ZenonT(30), <2>1, <2>2, <2>4, KeepsFailing
  <2> QED
    BY ZenonT(30), <1>4, <2>3, <2>4 DEF ReleaseReset
<1>5. CASE e.op = "AssertReset" /\ AssertReset(e.id)
  <2>1. lines' = lines \cup {e.id} /\ judged' = judged \ {e.id} => Contract!Actuate(e)
    BY <1>5, ContractActuates
  <2>2. CASE /\ ExecuteOk /\ lines' = lines \cup {e.id} /\ judged' = judged \ {e.id}
             /\ watching' = watching \ {e.id}
    BY ZenonT(30), <1>5, <2>1, <2>2, ContractOwes, KeepsSilent
  <2>3. CASE /\ ExecuteErr /\ UNCHANGED watching
             /\ \/ lines' = lines \cup {e.id} /\ judged' = judged \ {e.id}
                \/ UNCHANGED <<lines, judged>>
    BY ZenonT(30), <2>1, <2>3, KeepsFailing
  <2> QED
    BY ZenonT(30), <1>5, <2>2, <2>3 DEF AssertReset
<1>6. CASE e.op = "CommitSvnFloor" /\ CommitSvnFloor(e.id)
  BY ZenonT(30), <1>1, <1>6 DEF CommitSvnFloor, driver
<1>7. CASE e.op \in Reports /\ ExecuteOk /\ UNCHANGED <<board, driver, judged>>
  BY <1>1, <1>7 DEF board, driver
<1>8. CASE e.op \in Uncomposed /\ ExecuteErr /\ UNCHANGED <<board, driver, judged>>
  BY <1>8, KeepsFailing DEF board, driver
<1> QED
  BY ZenonT(30), <1>2, <1>3, <1>4, <1>5, <1>6, <1>7, <1>8 DEF Execute

\* A boot walk reports what the driver owes.
LEMMA KeepsPolling ==
    ASSUME NEW c \in Comp, PollBootWalks(c)
    PROVE  Contract!DispatchNext
<1> DEFINE o == Contract!Boot(c)
<1>1. UNCHANGED <<lines, judged>> /\ c \in watching /\ watching' = watching \ {c}
  BY DEF PollBootWalks
<1>2. o \in Boots(watching) /\ Boots(watching') = Boots(watching) \ {o}
  BY ZenonT(30), <1>1, BootsAre
<1>3. \E ev \in Contract!Answers(o) : Start(ev)
  <2>2. Contract!Answers(o) =
           {Contract!About(IF Kind[c] = "Active" THEN "ComponentReady" ELSE "Booted", c),
            Contract!About("Timeout", c)}
              \cup [type : {"BootFailed"}, id : {c}, kind : Contract!BootFailureKinds]
    BY ContractAnswers, ZenonT(30)
  <2>3. CASE Start(About(IF Kind[c] = "Active" THEN "ComponentReady" ELSE "Booted", c))
    BY ZenonT(30), <2>2, <2>3 DEF About, Contract!About
  <2>4. CASE \E kind \in BootFailureKinds :
               Start([type |-> "BootFailed", id |-> c, kind |-> kind])
    <3>1. PICK kind \in BootFailureKinds :
            Start([type |-> "BootFailed", id |-> c, kind |-> kind])
      BY <2>4
    <3>2. [type |-> "BootFailed", id |-> c, kind |-> kind]
            \in [type : {"BootFailed"}, id : {c}, kind : Contract!BootFailureKinds]
      BY <3>1 DEF BootFailureKinds, Contract!BootFailureKinds
    <3> QED
      BY ZenonT(30), <2>2, <3>1, <3>2
  <2> QED
    BY <2>3, <2>4 DEF PollBootWalks
<1>4. Contract!DispatchEvent
  BY ZenonT(30), <1>1, <1>2, <1>3, SameLoop DEF Contract!DispatchEvent, Boots
<1> QED
  BY ZenonT(30), <1>4 DEF Contract!DispatchNext

\* Power-on, requests, detections and health reports.
LEMMA KeepsDispatching ==
    ASSUME Dispatch
    PROVE  Contract!DispatchNext
<1>1. UNCHANGED <<lines, watching, judged>>
  BY ZenonT(30) DEF Dispatch, board, driver
<1>2. PICK ev \in [type : {"PowerGood"}, result : PowerOnResults]
                    \cup [type : {"CorruptionDetected"}, id : Ids]
                    \cup [type : {"BootConfirmed"}, id : Comp \ lines]
                    \cup {Plain("AttestationChallenge"), Plain("UpdateRequest")} : Start(ev)
  BY ZenonT(30) DEF Dispatch
<1>3. Contract!Start(ev)
  BY ZenonT(30), <1>2, SameLoop
<1>4. CASE ev \in [type : {"BootConfirmed"}, id : Comp \ lines]
  <2>1. ev.id \in Comp \ lines /\ ev = Contract!About("BootConfirmed", ev.id)
    BY ZenonT(30), <1>4 DEF Contract!About
  <2>2. Contract!DispatchEvent
    BY ZenonT(30), <1>1, <1>3, <2>1 DEF Contract!DispatchEvent, Contract!Comp, Comp
  <2> QED
    BY <2>2 DEF Contract!DispatchNext
<1>5. CASE ev \in Contract!Unsolicited
  BY ZenonT(30), <1>1, <1>3, <1>5 DEF Contract!DispatchNext, Contract!DispatchEvent
<1>6. ev \in [type : {"BootConfirmed"}, id : Comp \ lines] \/ ev \in Contract!Unsolicited
  BY ZenonT(30), <1>2 DEF PowerOnResults, Ids, Plain, Contract!Unsolicited, Contract!PowerOnResults,
                     Contract!Ids, Contract!Plain
<1> QED
  BY ZenonT(30), <1>4, <1>5, <1>6

\* The PlatformDriver implements the Platform contract: what DispatchProofs
\* shows of dispatch_with under the contract holds of it with this driver.
THEOREM DriverKeepsContract == DriverSpec => KeepsContract
<1>1. DriverInit => Contract!DispatchInit
  <2> SUFFICES ASSUME DriverInit PROVE Contract!DispatchInit
    OBVIOUS
  <2>1. Contract!LoopInit /\ lines = Contract!Comp /\ judged = {} /\ watching = {}
    BY SameLoop DEF DriverInit, Comp, Contract!Comp
  <2>2. {<<"Boot", c>> : c \in watching} = {}
    BY <2>1
  <2> QED
    BY <2>1, <2>2 DEF Contract!DispatchInit
<1>2. [DriverNext]_pvars => [Contract!DispatchNext]_(Contract!dvars)
  <2>1. UNCHANGED pvars => UNCHANGED Contract!dvars
    BY DEF pvars, lvars, vars, board, driver, Contract!dvars, Contract!lvars, Contract!vars,
           Contract!plant
  <2>2. Loop => Contract!DispatchNext
    <3> SUFFICES ASSUME Loop PROVE Contract!DispatchNext
      OBVIOUS
    <3>1. UNCHANGED Contract!plant
      BY DEF Loop, board, driver, Contract!plant
    <3>2. Contract!SettleFront \/ Contract!EmitFront
      BY SameLoop DEF Loop
    <3> QED
      BY <3>1, <3>2 DEF Contract!DispatchNext, Contract!Settle, Contract!ExecuteFront,
                        Contract!ExecuteEmit
  <2> QED
    BY ZenonT(30), <2>1, <2>2, KeepsExecuting, KeepsPolling, KeepsDispatching DEF DriverNext
<1> QED
  BY <1>1, <1>2, PTL DEF DriverSpec, KeepsContract

====
