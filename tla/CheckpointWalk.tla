--------------------------- MODULE CheckpointWalk ---------------------------
(***************************************************************************)
(* CheckpointWalk (services/orchestrator/adapters/walk/src/walk.rs): one   *)
(* device's boot walk through its checkpoints, judged poll by poll against *)
(* an injected clock.                                                      *)
(*                                                                         *)
(* Checkpoints are 1..K.  The evidence a poll reads is an input.  The      *)
(* payload of Phase::Walking is `walk_cursor` and `deadline`, both 0       *)
(* outside it.  `opened` and `passed` record history and guide no step.    *)
(***************************************************************************)
EXTENDS Integers, Sequences

CONSTANTS
    K,        \* number of checkpoints
    Timeout,  \* declared window of each, in milliseconds
    U64Max    \* u64::MAX

\* DeviceConfig::new and BootCheckpoint::new: at least one checkpoint, each
\* with a window of a millisecond or more.
ASSUME WalkAssumption ==
    /\ K \in Nat \ {0}
    /\ U64Max \in Nat
    /\ Timeout \in [1..K -> Nat \ {0}]

VARIABLES
    phase,        \* Phase, without its payload
    walk_cursor,  \* checkpoint awaited
    deadline,     \* end of its window
    clock,        \* the clock the caller passes to poll
    verdict,      \* what the last poll returned
    opened,       \* history: when the awaited checkpoint's window opened
    passed        \* history: checkpoints read as Booted since the last arm

wvars == <<phase, walk_cursor, deadline, clock, verdict, opened, passed>>

WalkTime == 0..U64Max
VerdictKinds == {"Waiting", "Complete", "TimedOut", "DeviceRetriable", "DeviceFatal"}
Verdict(kind, k, at) == [kind |-> kind, checkpoint |-> k, deadline |-> at]

Waiting(at) == Verdict("Waiting", 0, at)
Complete == Verdict("Complete", 0, 0)
Failed(k, cause) == Verdict(cause, k, 0)

\* What EvidenceReader::read may say; an error is one of them.
Evidence == {"Booting", "Booted", "FailedRetriable", "FailedFatal", "Error"}

\* `timeout().as_millis() as u64` keeps the low 64 bits.
Millis(k) == Timeout[k] % (U64Max + 1)

SaturatingAdd(t, d) == IF t + d <= U64Max THEN t + d ELSE U64Max

----------------------------------------------------------------------------

WalkInit ==
    /\ phase = "Idle"
    /\ walk_cursor = 0
    /\ deadline = 0
    /\ clock = 0
    /\ verdict = Waiting(U64Max)
    /\ opened = 0
    /\ passed = <<>>

\* Mutant of Arm: a walk in flight goes on from where it is.
ArmResuming ==
    /\ phase' = IF phase = "Walking" THEN "Walking" ELSE "Armed"
    /\ passed' = <<>>
    /\ UNCHANGED <<walk_cursor, deadline, clock, verdict, opened>>

Arm ==
    /\ phase' = "Armed"
    /\ walk_cursor' = 0
    /\ deadline' = 0
    /\ passed' = <<>>
    /\ UNCHANGED <<clock, verdict, opened>>

\* Mutant of Window: the window before goes on.
WindowInherited(k) == deadline

\* The end of the window of checkpoint k, when it opens now.
Window(k) == SaturatingAdd(clock, Millis(k))

\* The walk a poll judges: the first poll after arm opens the first window.
At == IF phase = "Armed" THEN 1 ELSE walk_cursor
Until == IF phase = "Armed" THEN Window(1) ELSE deadline
Since == IF phase = "Armed" THEN clock ELSE opened

Await(k, at, since) ==
    /\ phase' = "Walking"
    /\ walk_cursor' = k
    /\ deadline' = at
    /\ opened' = since
    /\ verdict' = Waiting(at)

\* Mutant of End: starts a fresh attempt by itself.
EndRearmed(v) ==
    /\ phase' = "Armed"
    /\ walk_cursor' = 0
    /\ deadline' = 0
    /\ opened' = Since
    /\ verdict' = v

End(v) ==
    /\ phase' = "Idle"
    /\ walk_cursor' = 0
    /\ deadline' = 0
    /\ opened' = Since
    /\ verdict' = v

PollUnarmed ==
    /\ phase = "Idle"
    /\ verdict' = Waiting(U64Max)
    /\ UNCHANGED <<phase, walk_cursor, deadline, clock, opened, passed>>

\* Mutant of PollLapsed: judges a millisecond late.
PollLapsedLate ==
    /\ phase # "Idle"
    /\ clock > Until
    /\ End(Failed(At, "TimedOut"))
    /\ UNCHANGED <<clock, passed>>

\* A lapsed window is a timeout with no final read.
PollLapsed ==
    /\ phase # "Idle"
    /\ clock >= Until
    /\ End(Failed(At, "TimedOut"))
    /\ UNCHANGED <<clock, passed>>

PollRead(status) ==
    /\ phase # "Idle"
    /\ clock < Until
    /\ UNCHANGED clock
    /\ \/ /\ status \in {"Booting", "Error"}
          /\ Await(At, Until, Since)
          /\ UNCHANGED passed
       \/ /\ status = "Booted"
          /\ passed' = Append(passed, At)
          /\ IF At = K THEN End(Complete) ELSE Await(At + 1, Window(At + 1), clock)
       \/ /\ status = "FailedRetriable"
          /\ End(Failed(At, "DeviceRetriable"))
          /\ UNCHANGED passed
       \/ /\ status = "FailedFatal"
          /\ End(Failed(At, "DeviceFatal"))
          /\ UNCHANGED passed

Poll == PollUnarmed \/ PollLapsed \/ \E status \in Evidence : PollRead(status)

\* The monotonic clock of the caller.
WalkTick ==
    /\ clock < U64Max
    /\ clock' = clock + 1
    /\ UNCHANGED <<phase, walk_cursor, deadline, verdict, opened, passed>>

WalkNext == Arm \/ Poll \/ WalkTick

WalkSpec == WalkInit /\ [][WalkNext]_wvars

\* The run loop polls on every wake and wakes at every deadline.
FairWalkSpec == WalkSpec /\ WF_wvars(Poll) /\ WF_wvars(WalkTick)

----------------------------------------------------------------------------
(* Properties *)

\* The phase and its payload keep their types; no deadline passes u64::MAX.
WalkTypeOK ==
    /\ phase \in {"Idle", "Armed", "Walking"}
    /\ walk_cursor \in 0..K
    /\ phase = "Walking" <=> walk_cursor # 0
    /\ deadline \in WalkTime
    /\ clock \in WalkTime
    /\ opened \in WalkTime
    /\ verdict \in [kind : VerdictKinds, checkpoint : 0..K, deadline : WalkTime]
    /\ passed \in Seq(1..K)

\* poll just gave a terminal verdict, respectively a checkpoint just passed.
Ended == phase # "Idle" /\ phase' = "Idle"
Advanced == Len(passed') > Len(passed)

\* Complete is earned: since the last arm every checkpoint was read as Booted,
\* each once and in declaration order.
CompleteIsEarned ==
    [][Ended /\ verdict'.kind = "Complete" => passed' = [k \in 1..K |-> k]]_wvars

\* The window decides: a device is timed out only once its whole declared
\* window has gone by (or the clock is at its end), and evidence counts only
\* inside the window, "a device that has not reported cannot be judged on a
\* race".
JudgedByWindow ==
    [][/\ Ended /\ verdict'.kind = "TimedOut"
            => clock - Since >= Timeout[verdict'.checkpoint] \/ clock = U64Max
       /\ Advanced \/ (Ended /\ verdict'.kind # "TimedOut")
            => clock - Since < Timeout[At]]_wvars

\* "Poll again by `deadline_millis`": the deadline a live walk returns is
\* ahead of the clock, so that a caller who sleeps until then neither spins
\* nor oversleeps.
DeadlineAhead ==
    [][phase' = "Walking" /\ (verdict' # verdict \/ phase = "Armed")
         => verdict'.deadline > clock /\ verdict'.deadline = deadline']_wvars

\* An armed walk is decided, also when its deadline saturates.
Decides == phase # "Idle" ~> phase = "Idle"

Watch == INSTANCE BootWatch WITH live <- phase # "Idle", verdict <- verdict.kind

\* The walk implements the BootWatch contract: one terminal verdict for each
\* arm, none before it.
RefinesBootWatch == Watch!Spec
====
