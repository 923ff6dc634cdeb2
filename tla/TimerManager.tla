---------------------------- MODULE TimerManager ----------------------------
(***************************************************************************)
(* TimerManager (services/orchestrator/timer/src/lib.rs) as BootWatchdogs  *)
(* (services/orchestrator/server/src/runtime.rs) drives it with the        *)
(* kernel's monotonic clock: up to Capacity boot watchdogs in a bounded    *)
(* vector and one commit watchdog.  Deadlines are instants; `poll` is      *)
(* poll_expired, which names what fired by the event it becomes.           *)
(***************************************************************************)
EXTENDS Integers, Sequences, FiniteSets

CONSTANTS
    Id,          \* ComponentIds
    Capacity,    \* N, the length the boot vector can have
    Windows,     \* boot and commit windows the run loop asks for
    InstantMax   \* Instant::MAX, which the clock never reaches

NoId == 0
Unarmed == -1
Time == 0..InstantMax

ASSUME TimerAssumption ==
    /\ Id \subseteq Nat \ {NoId}
    /\ Capacity \in Nat
    /\ Windows \subseteq Nat
    /\ InstantMax \in Nat \ {0}

VARIABLES
    boot,    \* TimerManager::boot, in vector order
    commit,  \* TimerManager::commit
    now,     \* SystemClock::now
    result   \* what the last call returned

tvars == <<boot, commit, now, result>>

Outcome(kind, id) == [kind |-> kind, id |-> id]
Ok == result' = Outcome("Ok", NoId)

\* deadline_in: checked_add_duration, or Instant::MAX.
DeadlineIn(after) == IF now + after <= InstantMax THEN now + after ELSE InstantMax

Armed(id) == \E k \in DOMAIN boot : boot[k].id = id
Slot(id) == CHOOSE k \in DOMAIN boot : boot[k].id = id

\* Mutant of SwapRemove: drops the last element.
RemoveLast(s, i) == SubSeq(s, 1, Len(s) - 1)

\* Vec::swap_remove: the last element takes the place of the i-th.
SwapRemove(s, i) ==
    [j \in 1..(Len(s) - 1) |-> IF j = i THEN s[Len(s)] ELSE s[j]]

----------------------------------------------------------------------------

ArmBoot(id, after) ==
    /\ UNCHANGED <<commit, now>>
    /\ \/ /\ Armed(id)
          /\ boot' = [boot EXCEPT ![Slot(id)].at = DeadlineIn(after)]
          /\ Ok
       \/ /\ ~Armed(id)
          /\ Len(boot) < Capacity
          /\ boot' = Append(boot, [id |-> id, at |-> DeadlineIn(after)])
          /\ Ok
       \/ /\ ~Armed(id)
          /\ Len(boot) = Capacity
          /\ result' = Outcome("Full", NoId)
          /\ UNCHANGED boot

CancelBoot(id) ==
    /\ boot' = IF Armed(id) THEN SwapRemove(boot, Slot(id)) ELSE boot
    /\ Ok
    /\ UNCHANGED <<commit, now>>

ArmCommit(after) ==
    /\ commit' = DeadlineIn(after)
    /\ Ok
    /\ UNCHANGED <<boot, now>>

CancelCommit ==
    /\ commit' = Unarmed
    /\ Ok
    /\ UNCHANGED <<boot, now>>

Due == {k \in DOMAIN boot : boot[k].at <= now}
CommitDue == commit # Unarmed /\ commit <= now

\* min_by returns the first of the minimal ones.
Earliest ==
    CHOOSE k \in Due : \A j \in Due :
        boot[k].at < boot[j].at \/ (boot[k].at = boot[j].at /\ k <= j)

PollBoot ==
    /\ Due # {}
    /\ CommitDue => boot[Earliest].at <= commit
    /\ boot' = SwapRemove(boot, Earliest)
    /\ result' = Outcome("Timeout", boot[Earliest].id)
    /\ UNCHANGED <<commit, now>>

\* Mutant of PollCommit: looked at only when no boot watchdog is armed.
PollCommitLast ==
    /\ CommitDue
    /\ boot = <<>>
    /\ commit' = Unarmed
    /\ result' = Outcome("CommitTimeout", NoId)
    /\ UNCHANGED <<boot, now>>

PollCommit ==
    /\ CommitDue
    /\ Due # {} => commit < boot[Earliest].at
    /\ commit' = Unarmed
    /\ result' = Outcome("CommitTimeout", NoId)
    /\ UNCHANGED <<boot, now>>

PollNone ==
    /\ Due = {}
    /\ ~CommitDue
    /\ result' = Outcome("None", NoId)
    /\ UNCHANGED <<boot, commit, now>>

Pending == {boot[k].at : k \in DOMAIN boot} \cup ({commit} \ {Unarmed})

\* Mutant of WaitDeadline: looks at the boot watchdogs only.
WaitDeadlineBootOnly ==
    IF boot = <<>> THEN InstantMax
    ELSE LET ats == {boot[k].at : k \in DOMAIN boot}
         IN  CHOOSE t \in ats : \A u \in ats : t <= u

\* wait_deadline: the nearest deadline, or Instant::MAX when none is armed.
WaitDeadline ==
    IF Pending = {} THEN InstantMax
    ELSE CHOOSE t \in Pending : \A u \in Pending : t <= u

\* The kernel's clock: Instant::MAX stands for a time that never comes.
Tick ==
    /\ now + 1 < InstantMax
    /\ now' = now + 1
    /\ UNCHANGED <<boot, commit, result>>

TimerInit ==
    /\ boot = <<>>
    /\ commit = Unarmed
    /\ now = 0
    /\ result = Outcome("Ok", NoId)

Arming ==
    \/ \E id \in Id : \E after \in Windows : ArmBoot(id, after)
    \/ \E after \in Windows : ArmCommit(after)

Cancelling == CancelCommit \/ \E id \in Id : CancelBoot(id)

TimerNext == Arming \/ Cancelling \/ PollBoot \/ PollCommit \/ PollNone \/ Tick

TimerSpec == TimerInit /\ [][TimerNext]_tvars

\* The run loop drains poll_expired on every wake, and wakes at WaitDeadline.
FairSpec == TimerSpec /\ WF_tvars(PollBoot \/ PollCommit) /\ WF_tvars(Tick)

----------------------------------------------------------------------------
(* Properties *)

\* The vector holds at most Capacity entries, every deadline is an instant.
TimerTypeOK ==
    /\ boot \in Seq([id : Id, at : Time])
    /\ Len(boot) <= Capacity
    /\ commit \in Time \cup {Unarmed}
    /\ now \in Time
    /\ result \in [kind : {"Ok", "Full", "Timeout", "CommitTimeout", "None"},
                   id : Id \cup {NoId}]

\* "Replaces its deadline rather than stacking a second entry": no component
\* has two watchdogs, through any series of arms, cancels and swap_removes.
OneWatchdogEach ==
    \A j, k \in DOMAIN boot : boot[j].id = boot[k].id => j = k

\* The loop can sleep: after a poll that found nothing, the deadline it hands
\* to object_wait is ahead of the clock and no watchdog is due before it.
SleepsUntilNearest ==
    [][result'.kind = "None" /\ result.kind # "None"
         => \A t \in Pending : now < WaitDeadline /\ WaitDeadline <= t]_tvars

Deadlines == [id \in Id |-> IF Armed(id) THEN boot[Slot(id)].at ELSE Unarmed]

\* No deadline is slept through: a watchdog with a deadline the clock reaches
\* fires, is cancelled or gets another one, in whatever order the others come
\* and go.  Only a window that saturated to Instant::MAX waits indefinitely.
Expires ==
    \A t \in Time \ {InstantMax} :
        /\ \A id \in Id : Deadlines[id] = t ~> Deadlines[id] # t
        /\ commit = t ~> commit # t

W ==
    INSTANCE Watchdogs WITH
        deadlines <- Deadlines, N <- Capacity, None <- NoId

\* The vector implements the set of watchdogs: an arm is refused only when as
\* many other components are armed as it can hold, a poll reports the nearest
\* due one and forgets no other, and reports nothing only when nothing is due.
RefinesWatchdogs == W!Spec
====
