--------------------------- MODULE OrchestratorSM ---------------------------
(***************************************************************************)
(* The reducer of the orchestrator, services/orchestrator/sm/src/lib.rs:   *)
(* the stored data of `Rot`, the state of `Orchestrator`, and `step`,      *)
(* which reduces one event to a batch of effects.                          *)
(*                                                                         *)
(* A component is named by its place in the boot chain, 1..N; the cursor   *)
(* sentinel `chain.len()` is N + 1 here.  Per-component flags are sets of  *)
(* components.  Payload bytes and checkpoint labels are left out.          *)
(***************************************************************************)
EXTENDS ChainOfTrust

CONSTANTS
    N,          \* length of the chain
    Kind,       \* ComponentKind of each component
    Policy,     \* FailurePolicy of each component
    DependsOn,  \* the component each one depends on, None for none
    MaxRetry    \* Rot::max_retry

Comp == 1..N

\* Ids an event may carry: the chain's, and one that is not in the chain.
Ids == 1..(N + 1)

Kinds == {"Active", "Passive"}
Policies == {"Required", "Isolable", "Cascading"}

(***************************************************************************)
(* What Chain::try_from accepts: at least one entry, at most 255, and      *)
(* every dependency an earlier entry.  max_retry is any u8.                *)
(***************************************************************************)
ASSUME ChainAssumption ==
    /\ N \in 1..255
    /\ Kind \in [Comp -> Kinds]
    /\ Policy \in [Comp -> Policies]
    /\ DependsOn \in [Comp -> Comp \cup {None}]
    /\ \A c \in Comp : DependsOn[c] < c

ASSUME MaxRetryAssumption == MaxRetry \in 0..255

VARIABLES
    state,          \* State, without its payload
    subject,        \* payload of AwaitingReady and Recovering, else None
    cursor,         \* component under verification, N + 1 when the walk is done
    isolated,       \* components whose lifecycle is Isolated
    released,       \* live components
    awaiting_boot,  \* components that owe a boot-progress signal
    retry,          \* consecutive failed restores of each component
    pending_commit, \* an activated update waits for its commit
    sink            \* effects of the last step, in emission order

vars == <<state, subject, cursor, isolated, released, awaiting_boot, retry,
          pending_commit, sink>>

States == {"PowerOnReset", "PreSupervision", "AwaitingReady", "Ready",
           "Updating", "Recovering", "Locked"}

Walking == {"PreSupervision", "AwaitingReady"}

\* Orchestrator::is_supervised
Supervised == {"AwaitingReady", "Ready", "Updating", "Recovering"}

----------------------------------------------------------------------------
(* Events and effects *)

PowerOnResults == {"Provisioned", "Unprovisioned", "SelfVerificationFailed"}
BootFailureKinds == {"TimedOut", "DeviceRetriable", "DeviceFatal"}

ComponentEvents ==
    {"VerificationPassed", "VerificationFailed", "ComponentReady", "Booted",
     "BootConfirmed", "CorruptionDetected", "Restored", "RecoveryUnavailable",
     "Timeout"}
PlainEvents ==
    {"AttestationChallenge", "UpdateRequest", "UpdateVerified",
     "UpdateRejected", "RecoveryFailed", "CommitTimeout", "EffectFailed"}

Event ==
    [type : {"PowerGood"}, result : PowerOnResults]
        \cup [type : ComponentEvents, id : Ids]
        \cup [type : {"BootFailed"}, id : Ids, kind : BootFailureKinds]
        \cup [type : PlainEvents]

Fx(op, c) == [op |-> op, id |-> c]
Emit(type) == [op |-> "Emit", event |-> [type |-> type]]
RecoverComponent(c) == [op |-> "RecoverComponent", id |-> c, attempt |-> retry[c]]

\* Mutant of ReadAndVerify: verifies before it reads.
VerifyAndRead(c) == <<Fx("VerifyFirmware", c), Fx("ReadFirmware", c)>>

ReadAndVerify(c) == <<Fx("ReadFirmware", c), Fx("VerifyFirmware", c)>>

\* Event::component_id and the membership test that opens `step`.
InChain(ev) ==
    ev.type \in ComponentEvents \cup {"BootFailed"} => ev.id \in Comp

----------------------------------------------------------------------------
(* Helpers of Rot *)

\* The chain as cascade_hold reads it, what it gates and in which order.  It
\* goes on through components that are isolated already, so neither depends
\* on the state.
Entries == [c \in Comp |-> [id |-> c, depends_on |-> DependsOn[c]]]
Dependents == [root \in Comp |-> DependentsOn(Entries, root)]
CascadeOrder(root) == Frontier(Entries, root)

\* gate_by_policy: whether the policy gates, what it gates, and in which order.
Gates(c) == Policy[c] # "Required"

\* Mutant of GatedBy: the cascade stops at the direct dependents.
GatedByDirectOnly(c) ==
    {c} \cup {d \in Comp : Policy[c] = "Cascading" /\ DependsOn[d] = c}

GatedBy(c) == IF Policy[c] = "Cascading" THEN Dependents[c] ELSE {c}
GateOrder(c) == IF Policy[c] = "Cascading" THEN CascadeOrder(c) ELSE <<c>>

\* Mutant of GateEffects: reports the isolation without asserting reset.
GateEffectsReportOnly(c) ==
    LET order == GateOrder(c)
    IN  Concat([i \in DOMAIN order |->
            IF order[i] \in isolated THEN <<>> ELSE <<Fx("ReportIsolated", order[i])>>])

\* gate_one on each in turn: only the newly gated are reset and reported.
GateEffects(c) ==
    LET order == GateOrder(c)
    IN  Concat([i \in DOMAIN order |->
            IF order[i] \in isolated THEN <<>>
            ELSE <<Fx("AssertReset", order[i]), Fx("ReportIsolated", order[i])>>])

\* Mutant of FirstUngated: the last one.
LastUngated(i, start, iso) == i \notin iso /\ \A j \in (i + 1)..N : j \in iso

\* advance_to_next_ungated: the first component from `start` that is not in
\* `iso`, or the sentinel; and the effects it emits there.
FirstUngated(i, start, iso) == i \notin iso /\ \A j \in start..(i - 1) : j \in iso
NextUngated(start, iso) ==
    IF \E i \in start..N : FirstUngated(i, start, iso)
    THEN CHOOSE i \in start..N : FirstUngated(i, start, iso)
    ELSE N + 1

WalkEffects(c) == IF c \in Comp THEN ReadAndVerify(c) ELSE <<>>

\* Mutant of QuiesceEffects: holds the whole chain, live or not.
QuiesceEffectsAll(live) == [c \in Comp |-> Fx("AssertReset", c)]

\* quiesce_all, with `live` the components released when it runs.
QuiesceEffects(live) ==
    Concat([c \in Comp |-> IF c \in live THEN <<Fx("AssertReset", c)>> ELSE <<>>])

----------------------------------------------------------------------------
(***************************************************************************)
(* entry_action.  `fx` is what the handler emitted before the transition;  *)
(* the entry's effects land in the same sink.                              *)
(***************************************************************************)

\* Mutant of EnterPreSupervision: quiesces only after the walk has started.
EnterPreSupervisionLateQuiesce(fx, iso, live, waits) ==
    /\ state' = "PreSupervision"
    /\ subject' = None
    /\ isolated' = iso
    /\ released' = {}
    /\ awaiting_boot' = waits \ live
    /\ cursor' = NextUngated(1, iso)
    /\ sink' = fx \o WalkEffects(cursor') \o QuiesceEffects(live)
    /\ UNCHANGED pending_commit

EnterPreSupervision(fx, iso, live, waits) ==
    /\ state' = "PreSupervision"
    /\ subject' = None
    /\ isolated' = iso
    /\ released' = {}
    /\ awaiting_boot' = waits \ live
    /\ cursor' = NextUngated(1, iso)
    /\ sink' = fx \o QuiesceEffects(live) \o WalkEffects(cursor')
    /\ UNCHANGED pending_commit

\* Mutant of EnterRecovering: leaves the commit window open.
EnterRecoveringKeepingWindow(fx, failed) ==
    /\ state' = "Recovering"
    /\ subject' = failed
    /\ awaiting_boot' = awaiting_boot \ {failed}
    /\ released' = released \ {failed}
    /\ sink' = fx \o <<RecoverComponent(failed)>>
    /\ UNCHANGED <<cursor, isolated, retry, pending_commit>>

EnterRecovering(fx, failed) ==
    /\ state' = "Recovering"
    /\ subject' = failed
    /\ pending_commit' = FALSE
    /\ awaiting_boot' = awaiting_boot \ {failed}
    /\ released' = released \ {failed}
    /\ sink' = fx \o <<RecoverComponent(failed)>>
    /\ UNCHANGED <<cursor, isolated, retry>>

EnterReady ==
    /\ state' = "Ready"
    /\ subject' = None
    /\ retry' = [c \in Comp |-> 0]

EnterLocked ==
    /\ state' = "Locked"
    /\ subject' = None
    /\ sink' = <<Fx("LatchLockdown", None)>>
    /\ UNCHANGED <<cursor, isolated, released, awaiting_boot, retry, pending_commit>>

\* Outcome::Handled with effects only; Drop is a discarded or ignored event.
Report(fx) ==
    /\ sink' = fx
    /\ UNCHANGED <<state, subject, cursor, isolated, released, awaiting_boot,
                   retry, pending_commit>>
Drop == Report(<<>>)

----------------------------------------------------------------------------
(* Shared handlers *)

\* Components that gate_by_policy(c) takes out of service now.
NewlyGated(c) == GatedBy(c) \ isolated

Hold(gated) ==
    /\ isolated' = isolated \cup gated
    /\ released' = released \ gated
    /\ awaiting_boot' = awaiting_boot \ gated

\* handle_corruption
HandleCorruption(fx, id) ==
    \/ /\ id \in isolated
       /\ Report(fx)
    \/ /\ id \notin isolated
       /\ Gates(id)
       /\ Hold(NewlyGated(id))
       /\ sink' = fx \o GateEffects(id)
       /\ UNCHANGED <<state, subject, cursor, retry, pending_commit>>
    \/ /\ id \notin isolated
       /\ ~Gates(id)
       /\ EnterRecovering(fx, id)

\* Mutants of HandleCorruptionAdvancing: the walk stays at a gated component,
\* or is taken to be over when the component under verification is gated.
HandleCorruptionStaying(fx, id) == HandleCorruption(fx, id)
HandleCorruptionEndingWalk(fx, id) ==
    \/ /\ id \in isolated \/ Gates(id)
       /\ cursor \in isolated \cup NewlyGated(id)
       /\ Hold(NewlyGated(id))
       /\ sink' = fx \o GateEffects(id)
       /\ UNCHANGED <<cursor, pending_commit>>
       /\ EnterReady
    \/ /\ cursor \notin isolated \cup NewlyGated(id)
       /\ HandleCorruption(fx, id)

(***************************************************************************)
(* handle_corruption_advancing: as above, and when the component under     *)
(* verification is gated afterwards the walk moves past it.                *)
(***************************************************************************)
HandleCorruptionAdvancing(fx, id) ==
    LET gated == IF id \in isolated THEN {} ELSE NewlyGated(id)
        iso   == isolated \cup gated
        next  == NextUngated(cursor + 1, iso)
    IN  \/ /\ id \notin isolated
           /\ ~Gates(id)
           /\ EnterRecovering(fx, id)
        \/ /\ id \in isolated \/ Gates(id)
           /\ cursor \notin iso
           /\ HandleCorruption(fx, id)
        \/ /\ id \in isolated \/ Gates(id)
           /\ cursor \in iso
           /\ Hold(gated)
           /\ cursor' = next
           /\ sink' = fx \o (IF id \in isolated THEN <<>> ELSE GateEffects(id))
                         \o WalkEffects(next)
           /\ UNCHANGED pending_commit
           /\ IF next \in Comp THEN UNCHANGED <<state, subject, retry>> ELSE EnterReady

\* exhaust_recovery, with `rt` the retry counts when it runs.
ExhaustRecovery(failed, rt) ==
    \/ /\ Gates(failed)
       /\ retry' = [rt EXCEPT ![failed] = 0]
       /\ EnterPreSupervision(GateEffects(failed), isolated \cup NewlyGated(failed),
                              released \ NewlyGated(failed),
                              awaiting_boot \ NewlyGated(failed))
    \/ /\ ~Gates(failed)
       /\ retry' = rt
       /\ sink' = <<Fx("ReportRecoveryFailed", failed), Emit("RecoveryFailed")>>
       /\ UNCHANGED <<state, subject, cursor, isolated, released, awaiting_boot,
                      pending_commit>>

\* bump_retry, a saturating add on a u8.
BumpRetry(c) == [retry EXCEPT ![c] = IF @ < 255 THEN @ + 1 ELSE @]

\* The release of chain[cursor]: mark_released, then advance.
ReleaseCursor ==
    LET next == NextUngated(cursor + 1, isolated)
    IN  /\ released' = released \cup {cursor}
        /\ awaiting_boot' = awaiting_boot \cup {cursor}
        /\ cursor' = next
        /\ sink' = <<Fx("ReleaseReset", cursor)>> \o WalkEffects(next)
        /\ UNCHANGED <<isolated, pending_commit>>

----------------------------------------------------------------------------
(* PowerOnReset *)

PowerGood(ev) ==
    /\ state = "PowerOnReset"
    /\ ev.type = "PowerGood"
    /\ \/ /\ ev.result = "Provisioned"
          /\ EnterPreSupervision(<<>>, isolated, released, awaiting_boot)
          /\ UNCHANGED retry
       \/ /\ ev.result # "Provisioned"
          /\ EnterLocked

\* EffectFailed in the two states that are not supervised.
UnsupervisedEffectFailed(ev) ==
    /\ state \in {"PowerOnReset", "PreSupervision"}
    /\ ev.type = "EffectFailed"
    /\ EnterLocked

(* PreSupervision *)

\* Mutant: a verdict out of turn releases the component it names.
PreSupervisionVerificationPassedAny(ev) ==
    /\ state = "PreSupervision"
    /\ ev.type = "VerificationPassed"
    /\ \/ /\ ev.id # cursor
          /\ released' = released \cup {ev.id}
          /\ sink' = <<Fx("ReleaseReset", ev.id)>>
          /\ UNCHANGED <<state, subject, cursor, isolated, awaiting_boot, retry,
                         pending_commit>>
       \/ /\ ev.id = cursor
          /\ ReleaseCursor
          /\ IF cursor' \notin Comp THEN EnterReady
             ELSE retry' = [retry EXCEPT ![cursor] = 0] /\ UNCHANGED <<state, subject>>

PreSupervisionVerificationPassed(ev) ==
    /\ state = "PreSupervision"
    /\ ev.type = "VerificationPassed"
    /\ \/ ev.id # cursor /\ Drop
       \/ /\ ev.id = cursor
          /\ ReleaseCursor
          /\ IF cursor' \notin Comp THEN EnterReady
             ELSE /\ retry' = [retry EXCEPT ![cursor] = 0]
                  /\ IF Kind[cursor] = "Active"
                     THEN state' = "AwaitingReady" /\ subject' = cursor
                     ELSE UNCHANGED <<state, subject>>

PreSupervisionVerificationFailed(ev) ==
    /\ state = "PreSupervision"
    /\ ev.type = "VerificationFailed"
    /\ IF ev.id \in isolated THEN Drop ELSE EnterRecovering(<<>>, ev.id)

PreSupervisionCorruptionDetected(ev) ==
    /\ state = "PreSupervision"
    /\ ev.type = "CorruptionDetected"
    /\ HandleCorruptionAdvancing(<<>>, ev.id)

\* clear_awaiting_boot, whichever handler calls it.
ClearAwaitingBoot(id) ==
    /\ awaiting_boot' = awaiting_boot \ {id}
    /\ sink' = <<>>
    /\ UNCHANGED <<cursor, isolated, released, retry, pending_commit>>

PreSupervisionBooted(ev) ==
    /\ state = "PreSupervision"
    /\ ev.type = "Booted"
    /\ ClearAwaitingBoot(ev.id)
    /\ UNCHANGED <<state, subject>>

PreSupervisionTimeout(ev) ==
    /\ state = "PreSupervision"
    /\ ev.type = "Timeout"
    /\ IF ev.id \in awaiting_boot THEN EnterRecovering(<<>>, ev.id) ELSE Drop

PreSupervisionBootFailed(ev) ==
    /\ state = "PreSupervision"
    /\ ev.type = "BootFailed"
    /\ \/ ev.id \notin awaiting_boot /\ Drop
       \/ /\ ev.id \in awaiting_boot
          /\ LET report == <<Fx("ReportBootFailed", ev.id)>>
             IN  IF ev.kind = "DeviceFatal"
                 THEN HandleCorruptionAdvancing(report, ev.id)
                 ELSE EnterRecovering(report, ev.id)

(* AwaitingReady *)

AwaitingReadyComponentReady(ev) ==
    /\ state = "AwaitingReady"
    /\ ev.type = "ComponentReady"
    /\ awaiting_boot' = awaiting_boot \ {ev.id}
    /\ sink' = <<>>
    /\ UNCHANGED <<cursor, isolated, released, pending_commit>>
    /\ \/ ev.id # subject /\ UNCHANGED <<state, subject, retry>>
       \/ /\ ev.id = subject
          /\ IF cursor > N THEN EnterReady
             ELSE subject' = None /\ UNCHANGED <<state, retry>>

AwaitingReadyVerificationPassed(ev) ==
    /\ state = "AwaitingReady"
    /\ ev.type = "VerificationPassed"
    /\ \/ ev.id # cursor /\ Drop
       \/ /\ ev.id = cursor
          /\ ReleaseCursor
          /\ IF cursor' \notin Comp THEN EnterReady
             ELSE /\ retry' = [retry EXCEPT ![cursor] = 0]
                  /\ UNCHANGED <<state, subject>>

AwaitingReadyVerificationFailed(ev) ==
    /\ state = "AwaitingReady"
    /\ ev.type = "VerificationFailed"
    /\ IF ev.id \in isolated THEN Drop ELSE EnterRecovering(<<>>, ev.id)

AwaitingReadyCorruptionDetected(ev) ==
    /\ state = "AwaitingReady"
    /\ ev.type = "CorruptionDetected"
    /\ HandleCorruptionAdvancing(<<>>, ev.id)

FatalBootFailure(ev) ==
    ev.type = "BootFailed" /\ ev.kind = "DeviceFatal" /\ ev.id \in awaiting_boot

AwaitingReadyBootFailed(ev) ==
    /\ state = "AwaitingReady"
    /\ FatalBootFailure(ev)
    /\ HandleCorruptionAdvancing(<<Fx("ReportBootFailed", ev.id)>>, ev.id)

(* Ready *)

ReadyUpdateRequest(ev) ==
    /\ state = "Ready"
    /\ ev.type = "UpdateRequest"
    /\ state' = "Updating"
    /\ pending_commit' = FALSE
    /\ sink' = <<Fx("AuthenticateUpdate", None), Fx("StageUpdate", None)>>
    /\ UNCHANGED <<subject, cursor, isolated, released, awaiting_boot, retry>>

ReadyBootConfirmed(ev) ==
    /\ state = "Ready"
    /\ ev.type = "BootConfirmed"
    /\ pending_commit' = FALSE
    /\ sink' = <<Fx("CommitSvnFloor", ev.id)>>
    /\ UNCHANGED <<state, subject, cursor, isolated, released, awaiting_boot, retry>>

ReadyCommitTimeout(ev) ==
    /\ state = "Ready"
    /\ ev.type = "CommitTimeout"
    /\ IF pending_commit THEN EnterLocked ELSE Drop

(* Updating *)

UpdatingVerified(ev) ==
    /\ state = "Updating"
    /\ ev.type = "UpdateVerified"
    /\ pending_commit' = TRUE
    /\ sink' = <<Fx("ActivateUpdate", None)>>
    /\ EnterReady
    /\ UNCHANGED <<cursor, isolated, released, awaiting_boot>>

UpdatingRejected(ev) ==
    /\ state = "Updating"
    /\ ev.type = "UpdateRejected"
    /\ sink' = <<Fx("DiscardStaged", None)>>
    /\ EnterReady
    /\ UNCHANGED <<cursor, isolated, released, awaiting_boot, pending_commit>>

UpdatingCorruptionDetected(ev) ==
    /\ state = "Updating"
    /\ ev.type = "CorruptionDetected"
    /\ IF ev.id \in isolated \/ Gates(ev.id)
       THEN HandleCorruption(<<>>, ev.id)
       ELSE EnterRecovering(<<Fx("DiscardStaged", None),
                              Fx("ReportUpdateAborted", None)>>, ev.id)

(* Recovering *)

\* Mutants of RecoveringRestored: one restore too many, or a count that every
\* restore clears.
RecoveringRestoredOnceMore(ev) ==
    LET bumped   == BumpRetry(subject)
        attempts == bumped[subject]
    IN  /\ state = "Recovering"
        /\ ev.type = "Restored"
        /\ \/ ev.id # subject /\ Drop
           \/ /\ ev.id = subject
              /\ attempts <= MaxRetry
              /\ retry' = bumped
              /\ EnterPreSupervision(<<>>, isolated, released, awaiting_boot)
           \/ /\ ev.id = subject
              /\ attempts > MaxRetry
              /\ ExhaustRecovery(subject, bumped)
RecoveringRestoredForgetting(ev) ==
    /\ state = "Recovering"
    /\ ev.type = "Restored"
    /\ IF ev.id # subject THEN Drop
       ELSE /\ retry' = [retry EXCEPT ![subject] = 0]
            /\ EnterPreSupervision(<<>>, isolated, released, awaiting_boot)

RecoveringRestored(ev) ==
    LET bumped   == BumpRetry(subject)
        attempts == bumped[subject]
    IN  /\ state = "Recovering"
        /\ ev.type = "Restored"
        /\ \/ ev.id # subject /\ Drop
           \/ /\ ev.id = subject
              /\ attempts < MaxRetry
              /\ retry' = bumped
              /\ EnterPreSupervision(<<>>, isolated, released, awaiting_boot)
           \/ /\ ev.id = subject
              /\ attempts >= MaxRetry
              /\ ExhaustRecovery(subject, bumped)

RecoveringUnavailable(ev) ==
    /\ state = "Recovering"
    /\ ev.type = "RecoveryUnavailable"
    /\ IF ev.id # subject THEN Drop ELSE ExhaustRecovery(subject, retry)

RecoveringFailed(ev) ==
    /\ state = "Recovering"
    /\ ev.type = "RecoveryFailed"
    /\ EnterLocked

----------------------------------------------------------------------------
(***************************************************************************)
(* handle_supervising, for what the leaf handler of a supervised state     *)
(* passes up.                                                              *)
(***************************************************************************)
LeafArms ==
    [PowerOnReset   |-> {"PowerGood", "EffectFailed"},
     PreSupervision |-> {"VerificationPassed", "VerificationFailed",
                         "CorruptionDetected", "Booted", "Timeout",
                         "BootFailed", "EffectFailed"},
     AwaitingReady  |-> {"ComponentReady", "VerificationPassed",
                         "VerificationFailed", "CorruptionDetected"},
     Ready          |-> {"UpdateRequest", "BootConfirmed", "CommitTimeout"},
     Updating       |-> {"UpdateVerified", "UpdateRejected", "CorruptionDetected"},
     Recovering     |-> {"Restored", "RecoveryUnavailable", "RecoveryFailed"},
     Locked         |-> {}]
SupervisingArms ==
    {"AttestationChallenge", "CorruptionDetected", "ComponentReady", "Booted",
     "Timeout", "BootFailed", "UpdateRequest", "EffectFailed"}

LeafHandles(ev) ==
    \/ ev.type \in LeafArms[state]
    \/ state = "AwaitingReady" /\ FatalBootFailure(ev)
PassedUp(ev) == state \in Supervised /\ ~LeafHandles(ev)

SupervisingAttestation(ev) ==
    /\ ev.type = "AttestationChallenge"
    /\ PassedUp(ev)
    /\ Report(<<Fx("SignAttestation", None)>>)

SupervisingCorruptionDetected(ev) ==
    /\ ev.type = "CorruptionDetected"
    /\ PassedUp(ev)
    /\ HandleCorruption(<<>>, ev.id)

SupervisingBootProgress(ev) ==
    /\ ev.type \in {"ComponentReady", "Booted"}
    /\ PassedUp(ev)
    /\ ClearAwaitingBoot(ev.id)
    /\ UNCHANGED <<state, subject>>

SupervisingTimeout(ev) ==
    /\ ev.type = "Timeout"
    /\ PassedUp(ev)
    /\ IF ev.id \in awaiting_boot THEN EnterRecovering(<<>>, ev.id) ELSE Drop

SupervisingBootFailed(ev) ==
    /\ ev.type = "BootFailed"
    /\ PassedUp(ev)
    /\ \/ ev.id \notin awaiting_boot /\ Drop
       \/ /\ ev.id \in awaiting_boot
          /\ LET report == <<Fx("ReportBootFailed", ev.id)>>
             IN  IF ev.kind = "DeviceFatal"
                 THEN HandleCorruption(report, ev.id)
                 ELSE EnterRecovering(report, ev.id)

SupervisingUpdateRequest(ev) ==
    /\ ev.type = "UpdateRequest"
    /\ PassedUp(ev)
    /\ Report(<<Fx("ReportUpdateDeferred", None)>>)

SupervisingEffectFailed(ev) ==
    /\ ev.type = "EffectFailed"
    /\ PassedUp(ev)
    /\ EnterLocked

\* Outcome::Super with no supervisor arm: the event is discarded.
Discard(ev) ==
    /\ ~LeafHandles(ev)
    /\ ~(state \in Supervised /\ ev.type \in SupervisingArms)
    /\ Drop

----------------------------------------------------------------------------
\* Rot::handle and the fall-through, for an event that names no foreign id.
Handle(ev) ==
    \/ PowerGood(ev)
    \/ UnsupervisedEffectFailed(ev)
    \/ PreSupervisionVerificationPassed(ev)
    \/ PreSupervisionVerificationFailed(ev)
    \/ PreSupervisionCorruptionDetected(ev)
    \/ PreSupervisionBooted(ev)
    \/ PreSupervisionTimeout(ev)
    \/ PreSupervisionBootFailed(ev)
    \/ AwaitingReadyComponentReady(ev)
    \/ AwaitingReadyVerificationPassed(ev)
    \/ AwaitingReadyVerificationFailed(ev)
    \/ AwaitingReadyCorruptionDetected(ev)
    \/ AwaitingReadyBootFailed(ev)
    \/ ReadyUpdateRequest(ev)
    \/ ReadyBootConfirmed(ev)
    \/ ReadyCommitTimeout(ev)
    \/ UpdatingVerified(ev)
    \/ UpdatingRejected(ev)
    \/ UpdatingCorruptionDetected(ev)
    \/ RecoveringRestored(ev)
    \/ RecoveringUnavailable(ev)
    \/ RecoveringFailed(ev)
    \/ SupervisingAttestation(ev)
    \/ SupervisingCorruptionDetected(ev)
    \/ SupervisingBootProgress(ev)
    \/ SupervisingTimeout(ev)
    \/ SupervisingBootFailed(ev)
    \/ SupervisingUpdateRequest(ev)
    \/ SupervisingEffectFailed(ev)
    \/ Discard(ev)

\* Orchestrator::step
Step(ev) ==
    \/ ~InChain(ev) /\ Drop
    \/ InChain(ev) /\ Handle(ev)

\* Orchestrator::new
Init ==
    /\ state = "PowerOnReset"
    /\ subject = None
    /\ cursor = 1
    /\ isolated = {}
    /\ released = {}
    /\ awaiting_boot = {}
    /\ retry = [c \in Comp |-> 0]
    /\ pending_commit = FALSE
    /\ sink = <<>>

(***************************************************************************)
(* The reducer under every stream of events: the platform's drivers,       *)
(* timers and management software decide which event comes next, and none  *)
(* of them is synchronised with the state.                                 *)
(***************************************************************************)
Next == \E ev \in Event : Step(ev)

Spec == Init /\ [][Next]_vars
----------------------------------------------------------------------------
(* Properties *)

\* Every stored field keeps its type: the cursor is a chain place or the
\* sentinel, retry counts stay u8 (bump_retry saturates), and only
\* AwaitingReady and Recovering carry a payload.
TypeOK ==
    /\ state \in States
    /\ subject \in Comp \cup {None}
    /\ subject # None => state \in {"AwaitingReady", "Recovering"}
    /\ state = "Recovering" => subject \in Comp
    /\ cursor \in 1..(N + 1)
    /\ isolated \subseteq Comp
    /\ released \subseteq Comp
    /\ awaiting_boot \subseteq Comp
    /\ retry \in [Comp -> 0..255]
    /\ pending_commit \in BOOLEAN

\* The comment on Rot::cursor: while the walk runs the cursor never points at
\* an isolated component, so a verdict in flight cannot release one.
CursorNotIsolated == state \in Walking => cursor \notin isolated

\* A component that owes a boot signal is live, and a live one is not
\* isolated: gate_one, quiesce_all and recovery keep the three flags in step.
FlagsConsistent == awaiting_boot \subseteq released /\ released \cap isolated = {}

\* While the walk runs, the live components are exactly those before the
\* cursor that are not isolated.  Hence a walk releases in chain order, skips
\* nobody, and never verifies a component that is still running.
WalkPrefix ==
    state \in Walking => released = {c \in Comp : c < cursor} \ isolated

\* Outside the walk a platform in service has no component left behind: in
\* Ready and Updating each one is live or was isolated (and so reported).
ReadyMeansServed ==
    state \in {"Ready", "Updating"} => released \cup isolated = Comp

\* A cascade is contained: when a component that is not Isolable is isolated,
\* so is everything that depends on it, including what is only reachable
\* through a component that was isolated before (cascade_hold's traversal).
CascadeContained ==
    \A c \in isolated : Policy[c] # "Isolable" => Dependents[c] \subseteq isolated

\* The activated-but-not-committed window is open only in Ready, or latched
\* in Locked: Updating and Recovering void it on entry.
CommitWindow == pending_commit => state \in {"Ready", "Locked"}

\* No step emits more than the E >= 2 * N + 2 effects the Sink is sized for,
\* so Sink::emit never drops one.
SinkFits == Len(sink) <= 2 * N + 2

\* Locked is terminal: no event leaves it or makes it act.
LockedIsTerminal == [][state = "Locked" => state' = "Locked" /\ sink' = <<>>]_vars
====
