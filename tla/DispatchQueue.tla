--------------------------- MODULE DispatchQueue ---------------------------
(***************************************************************************)
(* Orchestrator::dispatch_with (services/orchestrator/sm/src/lib.rs): the  *)
(* loop that drives the reducer of OrchestratorSM to quiescence through    *)
(* its pending queue.                                                      *)
(*                                                                         *)
(* A run starts with one outside event, alternates SettleFront (pop one    *)
(* event, `step`) with the execution of the batch left in `sink`, and ends *)
(* when queue and batch are empty.  LoopSpec runs the loop against any     *)
(* platform whatever: `execute` may return anything at all.                *)
(***************************************************************************)
EXTENDS OrchestratorSM

CONSTANTS
    PendingCap,  \* PENDING_CAP
    Replies      \* events an executor may return

\* The build-time assertion on PENDING_CAP.
ASSUME PendingCapAssumption == PendingCap \in Nat /\ PendingCap >= 3

ASSUME RepliesAssumption == Replies \subseteq Event

VARIABLES
    pending,  \* events queued, front first
    failed    \* EffectFailed was injected in this run

lvars == <<vars, pending, failed>>

reducer == <<state, subject, cursor, isolated, released, awaiting_boot, retry,
             pending_commit>>

Idle == pending = <<>> /\ sink = <<>>

Plain(type) == [type |-> type]
About(type, c) == [type |-> type, id |-> c]
EffectFailed == Plain("EffectFailed")

----------------------------------------------------------------------------
(* The steps of dispatch_with *)

\* The queue without its newest event, when it is full.
Evict == IF Len(pending) = PendingCap THEN SubSeq(pending, 1, PendingCap - 1) ELSE pending

\* Mutant of Latch: EffectFailed joins at the back.
LatchAtBack == pending' = Append(Evict, EffectFailed)

\* `latch`: EffectFailed at the front, evicting the newest event when full.
Latch == pending' = <<EffectFailed>> \o Evict

\* Nothing after a failed effect is executed; the latch is injected once.
Abandon ==
    /\ sink' = <<>>
    /\ failed' = TRUE
    /\ IF failed THEN UNCHANGED pending ELSE Latch

SinkTail ==
    /\ sink' = Tail(sink)
    /\ UNCHANGED <<pending, failed>>

\* An event returned by an effect or carried by Emit joins the queue.  A full
\* queue fails the run instead of losing it; after the latch it is lost.
Enqueue(ev) ==
    \/ /\ Len(pending) < PendingCap
       /\ pending' = Append(pending, ev)
       /\ sink' = Tail(sink)
       /\ UNCHANGED failed
    \/ Len(pending) = PendingCap /\ ~failed /\ Abandon
    \/ Len(pending) = PendingCap /\ failed /\ SinkTail

\* A run starts with one outside event.
Start(ev) ==
    /\ Idle
    /\ pending' = <<ev>>
    /\ failed' = FALSE
    /\ UNCHANGED vars

\* The reducer settles the event at the front.
SettleFront ==
    /\ sink = <<>>
    /\ pending # <<>>
    /\ Step(Head(pending))
    /\ pending' = Tail(pending)
    /\ UNCHANGED failed

\* Effect::Emit never reaches the platform.
EmitFront ==
    /\ sink # <<>>
    /\ \E ev \in Event : Head(sink) = [op |-> "Emit", event |-> ev] /\ Enqueue(ev)
    /\ UNCHANGED reducer

External == sink # <<>> /\ Head(sink).op # "Emit"

\* `execute` returns Ok(None), Ok(Some(event)) or Err.
ExecuteOk == External /\ SinkTail /\ UNCHANGED reducer
ExecuteReply(ev) == External /\ Enqueue(ev) /\ UNCHANGED reducer
ExecuteErr == External /\ Abandon /\ UNCHANGED reducer

LoopInit ==
    /\ Init
    /\ pending = <<>>
    /\ failed = FALSE

LoopNext ==
    \/ \E ev \in Event : Start(ev)
    \/ SettleFront
    \/ EmitFront
    \/ ExecuteOk
    \/ \E ev \in Replies : ExecuteReply(ev)
    \/ ExecuteErr

LoopSpec == LoopInit /\ [][LoopNext]_lvars

----------------------------------------------------------------------------
(* Properties *)

\* The queue holds events and never outgrows PENDING_CAP: `latch` makes room
\* for itself, `enqueue` never pushes onto a full queue.
LoopTypeOK ==
    /\ TypeOK
    /\ pending \in Seq(Event)
    /\ Len(pending) <= PendingCap
    /\ failed \in BOOLEAN

\* Fail-closed and fail-fast: from the moment an effect fails or the queue
\* overflows, the next event settled is EffectFailed, and from then on the
\* machine is Locked with nothing to execute but LatchLockdown, whatever the
\* platform returns.
FailClosed ==
    failed =>
        \/ /\ state = "Locked"
           /\ \A i \in DOMAIN sink : sink[i].op = "LatchLockdown"
        \/ /\ sink = <<>>
           /\ pending # <<>>
           /\ Head(pending) = EffectFailed
====
