# TLA+ specifications of OpenPRoT

OpenPRoT is firmware for a platform root of trust. Its orchestrator
(`src/services/orchestrator`) brings the devices of a platform up in a fixed
order. It verifies each one before it releases it from reset, watches it boot,
and isolates, recovers or locks down when something fails. These modules model
the orchestrator from its reducer down to the driver and its timers, and three
of the services and drivers it stands on: the MCTP server, the I2C server over
the controller's target side, and the I3C controller. TLC checks them on small
instances, and TLAPS proves the main results for every value of the constants.
The last section lists what is not modelled.

Paths below are relative to `src/services/orchestrator` unless they start with
`src/`.

## The system and its parts

```
  power, requests,         Orchestrator::dispatch_with           Platform
  corruption reports  -->  pending queue -> step -> sink   -->   PlatformDriver
        ^                       (reducer Rot)    effects   <--   verdict | error
        |                                                          |   |
   run loop  <--- ComponentReady / Booted / BootFailed  --- boot walks |
        ^                                                              |
        +------- Timeout / CommitTimeout  --- watchdogs      reset lines, images,
                                                             verifier, floors
```

| Part | Source | State | Operations |
|---|---|---|---|
| Chain of trust | `sm/src/model.rs` | a validated list of components | `Chain::try_from`, the traversal of `cascade_hold` |
| Reducer | `sm/src/lib.rs` | state and payload, cursor, per-component flags and retries, `pending_commit` | `Orchestrator::step` on 18 kinds of event |
| Dispatch loop | `sm/src/lib.rs` | pending queue, `failed`, the rest of the batch | `dispatch_with` |
| Platform | `sm/src/lib.rs`, trait | what it owes the reducer | `execute` |
| Platform driver | `driver/src/driver.rs` | `staged`, `watching`, `verified_svn`, the board | `execute`, `poll_boot_walks` |
| Boot walk | `adapters/walk/src/walk.rs` | phase, cursor, deadline | `arm`, `poll` |
| Watchdogs | `timer/src/lib.rs`, `server/src/runtime.rs` | a bounded vector of deadlines, one commit slot | arm, cancel, `poll_expired`, `wait_deadline` |
| Capabilities, adapters | `capabilities/src`, `adapters/hal`, `adapters/pldm` | none, or one device's | traits the board implements |
| MCTP server | `src/services/mctp/server`, `mctp/api/src/stack.rs` | table of deferred receives, one receive buffer | `dispatch_mctp_op`, `drive_pending` |
| I2C server | `src/services/i2c/server-runtime`, `i2c/server` | a latch for one frame, its kind, the client's signal | interrupt branch, client requests |
| I2C target driver | `src/target/ast10x0/peripherals/i2c`, `backend/i2c` | controller registers | configure, enable, interrupt, recovery |
| I3C transfers | `src/target/ast10x0/peripherals/i3c/hardware.rs`, `ibi.rs` | engine queues, latched status, interrupt mask, IBI ring | transfers, interrupt handler, timeout recovery, `init` |
| I3C addresses | `controller.rs`, `config.rs`, `ccc.rs` in the same directory | device table, address book, DAT | attach, detach, `bus_daa`, `assign_dynamic_address`, SETNEWDA, RSTDAA |
| IPC, USART, PLDM, mailbox | `src/util/ipc`, `src/drivers/usart`, `src/services/pldm`, `src/target/ast10x0/pfr` | see PROJECT.json | |
| Register drivers, HAL traits, generated registers | `src/target`, `src/hal`, `src/platform` | hardware | |

What is hard here and no unit test exercises systematically:

- corruption, boot failures and timeouts may arrive in any state, between a
  verification and its verdict, during a recovery or an update;
- a cascade isolates components that are elsewhere in the walk, in recovery, or
  already isolated;
- an effect may fail in the middle of a batch after the reducer has moved on as
  if all of it had been carried out, and the failure of the lockdown latch is
  itself a failed effect;
- executors feed events into a queue of fixed size from within the loop that
  empties it;
- what the reducer believes (released, awaiting boot), what the driver believes
  (staged, watched) and what the board does (reset lines, floors) are three
  copies that only the order of effects keeps in step;
- deadlines meet evidence, other deadlines, and the end of the clock;
- a deferred receive, its message, its timeout and the close of its channel meet
  in one round of the MCTP server, and all answers pass through one buffer;
- the bus writes the next frame while the I2C client has not collected the last,
  has disarmed its notification or is in the middle of a request;
- the I3C interrupt handler runs between any two register accesses of the
  thread; a transfer that timed out may still complete, and its recovery may
  fail half way;
- an I3C target other than the intended one may take an address, and the
  controller may not learn that it did.

The correctness properties follow from these: verify before release and at
rest; the walk skips nobody and releases nobody twice; isolation contains its
dependents; a failure locks the platform before anything else is
executed; nobody is awaited who owes no answer; every run ends; the floor never
passes the running image; a boot verdict is earned, delivered once, and never
stale; no watchdog is lost, doubled or reported out of order; no client is
blocked with its answer at hand, answered with another's, or timed out early; no
frame is handed over twice or out of order; a transfer succeeds only by its own
completion; no two targets share an address.

## Modules

| Module | Models | Extends or instantiates |
|---|---|---|
| `ChainOfTrust` | `Chain::try_from`, the cascade's frontier, as operators with a reference definition each | |
| `OrchestratorSM` | the reducer | `ChainOfTrust` |
| `DispatchQueue` | `dispatch_with` against any platform | `OrchestratorSM` |
| `OrchestratorDispatch` | the same loop with a platform that keeps the `Platform` contract | `DispatchQueue` |
| `PlatformDriver` | the driver and its board under the loop | `DispatchQueue` |
| `PlatformContract` | the `Platform` contract in terms of the driver's state | `PlatformDriver`; instantiates `OrchestratorDispatch` |
| `BootWatch` | what the trait of that name promises | |
| `CheckpointWalk` | a boot walk | instantiates `BootWatch` |
| `Watchdogs` | a set of deadlines, nearest reported first | |
| `TimerManager` | `TimerManager` and `BootWatchdogs` | instantiates `Watchdogs` |
| `MctpServer` | the MCTP server, its dispatch and its clients' channels | |
| `I2cTarget` | the target side of an I2C controller, driver and registers | |
| `SlaveLatch` | what the I2C client is promised | |
| `I2cRuntime` | the I2C server's loop | `I2cTarget`; instantiates `SlaveLatch` |
| `IbiRing` | the ring of in-band interrupts, as operators | |
| `I3cTransfer` | an I3C transfer between thread, handler and engine | `IbiRing` |
| `I3cDaa` | the device table and dynamic addresses | |
| `ReducerProofs` | theorems about the chain, the reducer and the dispatch loop | `MCChainOfTrust`, `DispatchQueue` |
| `BatchProofs` | theorems about the batch of effects that each arm of the reducer leaves | `ReducerProofs` |
| `DispatchProofs` | theorems about the loop with a platform that keeps the contract | `OrchestratorDispatch`, `BatchProofs` |
| `DriverProofs` | theorems about the driver's images and floors | `PlatformDriver`, `BatchProofs` |
| `PlatformProofs` | the driver implements the contract; theorems about the boot walk and the timers | `PlatformContract`, `TimerManager`, `CheckpointWalk` |
| `ServerProofs` | theorems about the MCTP and I2C servers | `MctpServer`, `I2cRuntime` |
| `I3cTransferProofs`, `I3cDaaProofs` | theorems about the I3C controller | the module before the suffix |
| `MC*` | values of the constants for TLC | |

**Reducer.** A component is its place in the chain, `1..N`. The cursor's
sentinel `chain.len()` is `N + 1`. Flags of a component (`released`,
`isolated`, `awaiting_boot`) are sets. `subject` is the payload of
`AwaitingReady` and `Recovering`. `sink` is the batch of effects the last step
left. There is one action for each arm of `Rot::handle` and
`handle_supervising`; entry actions are part of the action that enters the
state. `Step(ev)` is `Orchestrator::step`: an event that names a component
outside the chain is dropped, the leaf state handles what it can, and the
`Supervising` fallback takes the rest. Events of unknown components are among
the inputs.

**Dispatch loop.** `Start` begins a run with an outside event, `SettleFront`
pops and reduces one event, `EmitFront` and the three `Execute` actions consume
the batch one effect at a time. `Enqueue` has three cases: room, a full queue
that latches and abandons the batch, and a full queue after the latch, where
the event is lost and the batch goes on. `LoopSpec` lets an executor return any
event of `Replies` for any effect.

**Platform contract.** `OrchestratorDispatch` adds `held` (reset lines),
`checked` (verified since last held), `update_staged` (an update image) and
`due`, the answers the platform owes. `DispatchEvent` begins a run,
`ExecuteFront` hands the first effect of the batch to the platform. Every effect may be answered in-process, later, or
fail, before or after it took place. This is the environment that the doc
comment of `Platform` describes, written from how the reducer uses the answers.
The platform holds a component while it restores it, as the comment on the entry
into `Recovering` (`sm/src/lib.rs:983`) takes it to. The reducer emits no
`AssertReset` there, although `capabilities/src/recovery.rs:28` says that the
orchestrator holds the device before it asks.

**Driver.** One action for each executor of `PlatformDriver`, with `Execute`
as the match in `Platform::execute`. Effects that have no board capability yet
fail, as in the code. Any call to the board may fail; a reset or a floor
advance may fail after it took effect. `PollBootWalks` takes the terminal
verdict of a watched walk and dispatches its event, which is what the run loop
of the driver's README does. `walks` is the abstract state of the walks, an
armed `BootWatch` each. What counts as authentic is the board's wiring. It is
assumed to honour the floor, which `capabilities/src/svn_floor.rs` calls the
lowest version a device may still boot; the driver does not compare the two.

**Boot walk.** `arm` and `poll` with the clock as an argument. A poll is one
action: it opens the first window if it is the first since `arm`, judges the
window, then reads evidence, any evidence. `opened` and `passed` are history
variables. Windows pass through `as u64` and deadlines through
`saturating_add`, both modelled.

**Watchdogs.** The boot vector is a sequence of at most `Capacity` entries with
`swap_remove`. `poll_expired` is three actions by what it returns. Deadlines
saturate at `InstantMax`, a time the clock never reaches, as `Instant::MAX`
stands for one that does not come.

**MCTP server.** `outstanding` maps a handle to the deadline of the call that
is deferred on it, 0 for none, as in `PendingRecv`. `RecvNow` and `RecvPending`
are the two arms of `MctpOp::Recv`; `DrivePending` is one call of
`drive_pending` with the `update` in it, and answers every call that is
fulfilled or expired. A message is a number that stands for its metadata and its
payload; the server carries the two separately, and the payload goes through
`recv_buf`. The router is external: it binds handles up to its limits and queues
messages for them. `Open`, `Send`, `MayRecv` and `Close` follow the channels of
`stack.rs`, so a request channel receives only after it has sent.

**I2C.** The variables of `I2cTarget` are the controller's registers, since the
driver keeps nothing between two calls. `i2cs24` is the name of the combination
of status bits that `handle_slave_interrupt` tells apart; the combinations it
lists nowhere are assumed not to occur. `IrqArmed` is the interrupt branch of
the loop with notification armed; without it the branch only acknowledges the
interrupt. The requests are one action each. Frames are numbered, so that order
and repetition show. `SlaveLatch` is written from the doc comments of the
client: a box in which the newest frame wins and a signal that is up while the
box is full. A frame may be overwritten; the docs promise no more.

**I3C transfers.** The thread's `start_xfer`, `wait_xfer_complete` and
`recover_timeout_xfer` are split at every access to state it shares with the
handler or the engine; `isr_service` is one step, as it runs in a critical
section. The engine is external: it runs commands in order, halts on an error,
signals the error before, after or without a response, answers late, or never.
`Outcome` is what the callers (`priv_xfer`, `i2c_priv_xfer`, `do_ccc`,
`do_entdaa`) make of the result. Queues hold commands, responses and words that
name the transfer they belong to.

**I3C addresses.** `devices`, `by_pos`, `dat` and `in_use` are the device list,
the position map, the hardware table and the address book; `held` is the truth
on the bus. Each bus transfer is a step and may be lost before or after it took
effect. `bus_daa` is the `Walk` actions, one for each transfer and the code up
to the next. Targets lose power at any time. A target that answers to an
address acknowledges a broadcast, so that an RSTDAA that nobody acknowledges
(`IBA_NACK`, which the driver takes for success) found no target with an
address. SETNEWDA may move a target to the address it has, and may report a
failure after it succeeded, when re-enabling in-band interrupts fails.
`CallerKnowsBus` says that the caller detaches only devices that no longer
answer, and calls `assign_dynamic_address` for I3C devices only. The driver
checks neither, and both are needed: with `CallerKnowsBus = FALSE` TLC reaches an
address that is held and not reserved after the detach of a device that still
answers, and a target at an I2C device's address after an assignment to it.
`CallerResets` says whether the caller clears entries of unknown owner with
RSTDAA before it walks again, as the comment at `controller.rs:900` asks ("Only
RSTDAA can safely clear this unknown owner.").

## Runs

| Run | Instance | What it shows |
|---|---|---|
| `chain` | all lists of up to 3 entries over 3 ids, all chains of 5 in order | `try_from` accepts exactly the well-formed chains; a cascade reaches exactly the transitive dependents, each once |
| `dispatch_queue` | 3 components, one of each policy, in one dependency chain, `max_retry` 2, queue of 3, every event between runs, executors that answer out of turn or fail | the walk goes in order and skips nobody, service is complete in Ready, cascades are contained, the commit window closes, no effect is dropped; the run fails closed at an error or an overflow |
| `dispatch_honest` | 2 components, `max_retry` 2, honest platform | verify before release and at rest, resets agree, nobody stranded, attempts bounded, every run ends |
| `driver` | 3 components (Cascading and Active, its dependent, an Isolable one with its own floor), 2 versions | verifies what it staged, floor below the running image, boots reported, refinement of the platform contract |
| `walk` | 3 checkpoints with windows 1, 3 and 7 on a clock of 0..7 | verdicts are earned and judged by the window; refinement of `BootWatch` |
| `watchdogs` | 3 components for a vector of 2, windows 1 and 3 on a clock of 0..4, with 5 as `Instant::MAX` | safe sleep, no deadline the clock reaches is slept through; refinement of `Watchdogs` |
| `mctp` | 2 clients, a request handle and a listener, timeouts 0 and 2 on a clock of 0..3, 3 messages, up to 2 packets for each `drive_pending` | the table is the calls that wait, nobody misses a message, each message goes to its own receiver, timeouts are right, every call with a timeout returns |
| `mctp_shared` | the same | expected to fail, see Findings |
| `i2c` | one bus, 3 frames, every status of the target interrupt, every request | frames in order and once; refinement of `SlaveLatch` |
| `i3c_xfer` | 2 transfers of every kind (one of two commands), 1 re-initialisation, 3 in-band interrupts for a ring of 2 | success is earned, queues are clean between transfers, interrupts are not left masked, a lost IBI is announced |
| `i3c_daa` | 3 targets, one of them never attached, 4 addresses, 3 slots, an I2C device | held addresses are reserved, none is shared, PIDs reach their target, a walk that succeeds covers all |
| `i3c_shared` | the same with 2 slots and a caller that does not reset | expected to fail, see Findings |

**Bounds.** A chain of three has a component before, at and after the cursor,
and dependencies two levels deep. Two suffice where the question is about the
queue or the contract. `max_retry` 2 separates the first attempt, a retry and
exhaustion. `PENDING_CAP` is 3 instead of 8, the least the build-time assertion
allows, so that the queue overflows early; the proofs cover every capacity. In
`walk` and `watchdogs` the clock is at least as long as the longest window, so
that windows end, saturate and meet each other. A vector of two for three components
can be full. Two versions tell an old image from a new one. The runs use no
symmetry: components differ in place, kind and policy.

In `mctp` the table has a slot for each handle, as `ServerConfig` has
(`MAX_OUTSTANDING` is the sum of the two router limits); one less is the mutant
of `TableIsWaiting`. Three messages for two handles let one queue behind
another, and two packets before one `drive_pending` (`MaxBatch`) fulfil two
receives at once. Three frames in `i2c` are
one in the controller, one in the latch and one handed over. Two transfers are
enough for one to meet what the other left; a transfer of two commands can fail
at the first or the last. `IBIQ_DEPTH` is 2, so that three interrupts overflow
the ring. In `i3c_daa` two devices can take each other's address and the third
target either's; `LAPS` is 2 instead of 8 attempts for each slot.

**Deadlock** is checked except in `chain`, whose behaviours end, and in `mctp`,
where every client may wait without a timeout for a message that never comes.

**Fairness.** `dispatch_with` is a loop on one thread, so it is weakly fair in
`dispatch_honest` and `driver`. Outside events never have to come, except boot
verdicts: the run loop polls until every walk waits and sleeps no longer than
the nearest deadline, and a walk decides by its deadline (`Decides`), hence the
strong fairness of `PollBootWalks` for each component, which is enabled only
between runs. In `walk` and `watchdogs` the clock advances and the caller polls
on every wake-up; a watchdog whose window saturated need never fire. In `mctp` time advances and the platform calls
`drive_pending` after packets and ticks, as the comment on it asks; clients and
packets are not fair. The I2C and I3C runs check safety only.

## What is proved

The theorems are listed in PROJECT.json.

The orchestrator's proofs assume a chain that `Chain::try_from` accepts, a `u8`
retry cap and a queue of at least three events (the build-time assertion), and
nothing else unless said so.

- `ReducerProofs`, the chain. `AcceptedIffWellFormed` and
  `CascadeVisitsDependents` are about the two algorithms, for every list of
  entries. The walk of `cascade_hold` is a recursive function with a round for
  each holder. Its invariant is that everything the first `k` holders have as
  dependents is on the frontier, that nobody is on it twice, and that everybody
  on it is reachable; after as many rounds as the chain has entries every holder
  has had its round, and the frontier is closed. The induction is by least
  counterexample (`LeastElement`), since induction theorems that take a predicate
  cannot be used here. `AcceptsWellFormedAlways` and `CascadeIsClosureAlways`
  carry both over to the machine of the run `chain`, for any `MaxLen` and
  `LongLen`. Its invariant `ChainInv` says that an answer is that of `try_from`
  and that a walk starts in an accepted chain, which is where the cascade gets
  its unique ids from. This machine shares no variable with the reducer's.
- `ReducerProofs`, the reducer. `IInv` is the conjunction of the type invariant
  and six safety invariants. None of them is inductive alone. That the cursor is
  not isolated rests on the walk's prefix; the prefix rests on the flags; that
  service is complete in `Ready` rests on the prefix when the walk ends;
  containment rests on the cascade's set being closed. The proof has a lemma for
  each helper of `Rot` and a step for each arm. `LockedForGood` is the action
  property that no event leaves Locked.
- `ReducerProofs`, the loop. `LoopInv` adds to `IInv` the type of the queue and
  what holds after a failure: either the machine is Locked and the batch holds
  at most `LatchLockdown`, or the batch is empty and `EffectFailed` is in front.
  It holds for every capacity and every platform.
- `BatchProofs`. `Batch(ev)` (defined at the end of `ReducerProofs`, with the
  facts about sequences it needs) is what each arm promises of its effects:
  how many there are, that `VerifyFirmware` is the last and follows its
  `ReadFirmware`, that the resets it asserts and releases are the difference
  between the old and the new `released`, and which question the new state is
  waiting on. `SinkNeverOverflows` is its first corollary: with `E >= 2 * N + 2`
  no effect is dropped. Second part: what executing one effect of such a batch,
  and joining an answer to the queue, keep. `DispatchProofs` and
  `DriverProofs` are built on it.
- `DispatchProofs`. The properties of the contract hold between runs; the
  invariant `DInv` says them of every moment of a run. Who is out of reset is
  what the reducer believes once the resets still in the batch are carried out
  (`ResetsInv`); whoever is awaited owes an answer, is about to be asked, or has
  its answer in the queue (`Awaited`); the walk's component has been verified
  since it was held, or is about to be (`CheckedInv`); a retry count at the cap
  is on its way to `RecoveryFailed` (`Attempts`); and the queue never holds two
  events, as the rest of a batch raises none once one is queued (`OneAtATime`).
  After a failure only
  `LoopInv` is left, which is enough as nothing but the latch is executed. From
  `DInv` follow `ResetsAgree`, `NeverStranded`, `AttemptsBounded` and the action
  properties `VerifyBeforeRelease` and `VerifiedAtRest`, for any platform that
  keeps the contract. `VerifyBeforeRelease` has two halves. A `ReleaseReset`
  enters a batch only when a `VerificationPassed` about that component is
  settled, which is a fact about each arm of the reducer (`ReleasedByVerdict`).
  And the component was verified since it was last held or restored, which
  rests on `CheckedInv`.
- `PlatformProofs`, the driver. `DriverKeepsContract` is the refinement of
  `OrchestratorDispatch`: reset lines map to `held`, verdicts to `checked`,
  watched boots to `due`, and nothing is staged for an update. Every step of the
  driver is a step of the contract; it needs no invariant.
- `DriverProofs`. `DriverInv` says what the contract does not speak of: a
  component that is released, about to be released, or whose pass is still in
  the queue was authenticated at or above its floor (`Vouched`), and a floor only
  follows a verified image. From it follow
  `StagedWhenVerified` and `FloorBelowRunning`. Assumed: versions are positive
  numbers.
- `PlatformProofs`, the boot walk. The invariant ties the history to the phase:
  while walking, the checkpoints passed are those before the cursor, and the
  deadline is that of the window opened last. From it follow `CompleteIsEarned`,
  `JudgedByWindow`, `DeadlineAhead` and the refinement of `BootWatch`, for any
  number of checkpoints. The two about windows assume that windows fit in 64
  bits of milliseconds (`WindowsFit`), since `as u64` truncates the rest.
- `PlatformProofs`, the timers. The invariant is the type and `OneWatchdogEach`.
  The refinement of `Watchdogs` maps the vector to a function from components to
  deadlines; its core is that `swap_remove` removes one entry and keeps the
  others, and that with no component twice the length of the vector counts the
  armed components, so that `Full` means what the contract says.
- `ServerProofs`, MCTP. `IInv` says who owns which handle, that the router keeps
  its limits, and that each table entry is the deadline of the call that made
  it; with it `register_recv` never refuses a call that dispatch defers.
  `Delivery` adds that a blocked client has no answer yet.
  `DeliveredToItsOwnerAlways` is about each step: what leaves the router goes to
  the client it came for. All hold for any number of packets between two calls
  of `drive_pending`. Assumed: the table is at least as large as the router's two
  limits together.
- `ServerProofs`, I2C. Order needs that the hardware buffer holds the youngest
  frame of the bus and that a status with data goes with the first drain of its
  frame. Nothing is claimed about receive being armed again: after a packet error
  the driver clears the interrupt and leaves it as it is. The refinement of `SlaveLatch` follows step by
  step. Assumed: nothing but a natural number of frames.
- `I3cTransferProofs`. Two invariants that share no state. `XferInv` says, for
  every point the thread can be at, what the engine's queues hold: the commands
  left are the last of this transfer, the responses are those of its first, only
  the last may be an error, and every response with data finds its word at its
  place of the FIFO. At rest they are empty unless the driver is marked faulted.
  A mask on the interrupts always has somebody left to lift it. `RingInv` says
  that the ring followed by the hardware's queue is the sequence of the youngest
  events, and that a hole before it is announced. From them follow all four
  properties of the run, for any number of commands, transfers,
  re-initialisations and in-band interrupts, and a ring of any depth.
- `I3cDaaProofs`. `TableInv`: device list and position map are inverse to each
  other, addresses and PIDs are unique, the DAT of a working engine holds the
  table's addresses, and every address held or listed is in use. It
  assumes `CallerKnowsBus`. `BusInv` adds who may answer at an entry's address (anyone if it
  is `Unknown`, its own target if `Verified`, nobody if `Unassigned`) and what a
  walk under way knows. It assumes `CallerResets` as well; without it the run
  `i3c_shared` is a counterexample.

**Only model-checked.** Liveness (`Quiesces`, `EveryBootReported`, `Decides`,
`Expires`, `EveryTimeoutReturns`) is outside the prover, which has no rules for
fairness. Every invariant, action property and refinement that a passing run
checks is proved.

## Findings

`i3c_shared`: `bus_daa` moves the target that answered to its own entry's
address without asking whether that entry is `Unknown`
(`src/target/ast10x0/peripherals/i3c/controller.rs:938`). An address whose
completion was lost in `assign_dynamic_address` may be held by another target;
the walk then gives it to a second one, although `config.rs:568-570` says that
it cannot "be handed to another target before the owner is verified". A caller
that runs RSTDAA after such a failure never gets there (`NoSharedAddressAlways`).

`mctp_shared`: with two packets before one `drive_pending`, `update` copies both
messages into the one `recv_buf`
(`src/services/mctp/server/src/server.rs:214`) before the first answer is
encoded, and both answers carry the payload that was read last. The comment at
`src/services/mctp/server/src/dispatch.rs:142-144` has each handle that is ready
called back "with `response` filled". What does hold is `DeliveredToItsOwner`:
the metadata is right always, the payload when a drive fulfils one receive.

### Known disagreements without a run

These were found with earlier versions of the same models. Each is a behaviour
of a module here that a doc, comment or test of the repository excludes.

- A timeout or boot failure during an update leaves `Updating` for recovery
  without discarding the staged image (`sm/src/lib.rs:906`); the test at
  `sm/src/tests.rs:2475` says "leaving Updating for recovery must discard the
  staged image".
- `VerificationPassed` clears the retry count before the boot
  (`sm/src/lib.rs:587`), so a component that verifies and does not boot is
  recovered without limit; `sm/src/model.rs:245` says "the retry cap limits
  attempts".
- When exhausted recovery isolates the last component in service, the machine
  stays in `PreSupervision` with nobody to verify (`sm/src/lib.rs:966`); the
  comment at line 364 wants that treated as "chain done". `NeverStranded`
  therefore speaks of a cursor that names a component.
- A recovery under way when a cascade isolates its target can still lock the
  platform (`sm/src/lib.rs:447`), against `sm/src/tests.rs:1422`.
- The walk passes an `Active` component before its `ComponentReady`
  (`sm/src/lib.rs:701`), against INV10 of
  `src/docs/src/design/orchestrator/orchestrator-machine.md:370`.
- After `recover_bus` the I2C backend's `slave_enabled` may differ from the
  enable bit it mirrors (`slave_enabled` and `enbl_slave_fn` in `I2cTarget`).

With the driver as it is composed today a bring-up ends within the dispatch that
started it: verdicts come back in-process, and every effect of recovery, update
and attestation fails closed into Locked because its capability is not on the
board yet. The first four therefore concern the reducer with the platform its
contract describes.

## Not modelled, and why

- Capability traits for updates, trial boot, evidence, recovery and lockdown
  have no implementation in the driver; a model would be one of their mocks.
- The HAL and PLDM adapters map levels and codes; they appear as a board that
  may fail at any call.
- A restart of the orchestrator: nothing but the floors is persistent, and a
  restart begins again at `Init` with the floors kept.
- A verifier that answers late and out of order: verdicts carry no attempt
  number, so the contract owes one answer for each component.
- SPDM, the MCTP router, PLDM's state machine and the kernel are libraries
  outside the repository.
- Of the I2C controller the master side is one atomic transfer that may fail;
  byte mode is left out, since the server opens its buses in packet modes.
- Of the I3C controller: the secondary role, enabling and disabling of in-band
  interrupts and their acknowledgement, the bit-banged part of bus recovery, and
  the CCCs that change no address. `recover_bus_full` resets the transfer queues;
  a mask that includes the IBI queue, which a caller may pass, would drop unread
  interrupts. In-band interrupts that are neither a target interrupt nor a hot-join
  are drained by the handler without an entry in the ring.
- `AsyncTransaction`: whether a cancelled transaction's buffers may still be
  written is decided by the kernel.
- The USART server's single parked read and the software mailbox of
  `src/target/ast10x0/pfr`, a register file with FIFOs, protection and notify
  bits, are within reach of a model and not modelled yet.
- The PLDM firmware device is a loop around a library's state machine.
- The other register drivers, generated register files (most of the lines of
  the repository), HAL traits and the wrappers of
  cryptographic libraries have no protocol that a model could decide without
  the hardware.
