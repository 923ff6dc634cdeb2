----------------------------- MODULE I3cTransfer -----------------------------
(***************************************************************************)
(* Transfers of the I3C controller in the primary role                     *)
(* (target/ast10x0/peripherals/i3c/hardware.rs): the driver's thread, which *)
(* starts a transfer, polls for its completion and recovers the engine; the *)
(* interrupt handler, which only masks its sources, latches them and feeds *)
(* the ring of in-band interrupts; and the controller hardware between     *)
(* them.  The handler runs inside a critical section and is one step; the  *)
(* thread can be interrupted between any two accesses to shared state.     *)
(*                                                                         *)
(* External, modelled from how the driver uses it: the engine with its     *)
(* command, response, receive and IBI queues.  It runs commands in order,  *)
(* halts on an error, may report the error before, after or without a      *)
(* response, and may never answer at all.                                  *)
(*                                                                         *)
(* A command is known by its transfer and its TID; a word of data by the   *)
(* command that it answers.                                                *)
(***************************************************************************)
EXTENDS IbiRing, FiniteSets

CONSTANTS
    MaxCmds,         \* bound: commands of a transfer (MAX_PRIV_XFER_CMDS)
    Calls,           \* the transfers the driver's callers ask for
    MaxXfers,        \* bound: transfers started
    MaxInits,        \* bound: initialisations after the first
    MaxIbis          \* bound: in-band interrupts raised

Ops == {"priv", "i2c", "direct", "broadcast", "entdaa"}

ASSUME BoundsAssumption ==
    /\ MaxCmds \in Nat \ {0}
    /\ Calls \subseteq [op : Ops, n : 1..MaxCmds, want : 0..1]
    /\ MaxXfers \in Nat /\ MaxInits \in Nat /\ MaxIbis \in Nat

VARIABLES
    engine,          \* hardware: "Ready" or "Halted" (CM_TFR_STS)
    cmdq, respq, rxfifo, ibiq,
    threshold,       \* responses beyond this many raise RESP_READY
    err_due,         \* hardware: the error that halted it is not yet signalled
    err_stat,        \* TRANSFER_ERR in the interrupt status
    irqs,            \* transfer interrupt sources: "On", "Masked" or "Off"
    pending,         \* IsrEvents::pending
    ring,            \* IBI_RINGS[bus]
    xfer_faulted,
    pc,              \* where the driver's thread is
    xfer,            \* the transfer it works on
    took,            \* the status bits it took from pending
    got,             \* the responses it scattered into the commands
    ret,             \* xfer.ret
    recovered,       \* halt_ok && reset_ok && exit_ok so far
    inits,
    raised,          \* in-band interrupts the hardware has queued
    expect           \* the next one the consumer must see, or be told it cannot

hardware == <<engine, cmdq, respq, rxfifo, threshold, err_due>>
thread == <<xfer_faulted, pc, xfer, took, got, ret, recovered, inits>>
ibis == <<ibiq, ring, raised, expect>>
vars == <<hardware, err_stat, irqs, pending, thread, ibis>>

Errors == {"NACK", "IBA", "Other"}    \* error codes of a response
NoWord == [xfer |-> 0, tid |-> 0]

\* No transfer is under way; the last one was id.
NoXfer(id) == [id |-> id, op |-> "priv", n |-> 1, want |-> 0]

\* Commands, responses and words name the transfer they belong to.
Cmd == [xfer : 1..MaxXfers, tid : 0..MaxCmds - 1, want : 0..1]
Response == [xfer : 1..MaxXfers, tid : 0..MaxCmds - 1, err : Errors \cup {"Ok"}, len : 0..1]
Word == [xfer : 0..MaxXfers, tid : 0..MaxCmds - 1]

Pcs == {"idle", "drain", "rearm", "push", "poll", "process", "halt", "reset", "resume",
        "clear_status", "clear_pending", "unmask", "finish"}

TypeOK ==
    /\ engine \in {"Ready", "Halted"}
    /\ cmdq \in Seq(Cmd) /\ respq \in Seq(Response) /\ rxfifo \in Seq(Word)
    /\ threshold \in 0..MaxCmds - 1
    /\ err_due \in BOOLEAN /\ err_stat \in BOOLEAN
    /\ irqs \in {"On", "Masked", "Off"}
    /\ pending \subseteq {"RESP", "ERR"} /\ took \subseteq {"RESP", "ERR"}
    /\ xfer_faulted \in BOOLEAN
    /\ pc \in Pcs
    /\ xfer.id \in 0..MaxXfers /\ xfer.op \in Ops
    /\ ret \in Errors \cup {"Ok", "Invalid"}
    /\ recovered \in BOOLEAN
    /\ ibiq \in Seq(1..MaxIbis)
    /\ ring \in Ring
    /\ inits \in 0..MaxInits /\ raised \in 0..MaxIbis /\ expect \in 1..raised + 1

\* The state after a successful start().
Init ==
    /\ engine = "Ready" /\ cmdq = <<>> /\ respq = <<>> /\ rxfifo = <<>>
    /\ threshold = 0 /\ err_due = FALSE /\ err_stat = FALSE /\ irqs = "On"
    /\ pending = {} /\ xfer_faulted = FALSE /\ pc = "idle"
    /\ xfer = NoXfer(0)
    /\ took = {} /\ got = <<>> /\ ret = "Ok" /\ recovered = TRUE
    /\ ibiq = <<>> /\ ring = EmptyRing /\ inits = 0 /\ raised = 0 /\ expect = 1

-----------------------------------------------------------------------------
(* The hardware.                                                           *)

\* The head command is answered, with data when it reads.
Answer(err, len) ==
    LET c == Head(cmdq)
    IN  /\ engine = "Ready" /\ cmdq # <<>>
        /\ len <= c.want
        /\ cmdq' = Tail(cmdq)
        /\ respq' = Append(respq, [xfer |-> c.xfer, tid |-> c.tid, err |-> err, len |-> len])
        /\ rxfifo' = IF len = 1 THEN Append(rxfifo, [xfer |-> c.xfer, tid |-> c.tid])
                                ELSE rxfifo

AnswerOk ==
    /\ \E len \in 0..1 : Answer("Ok", len)
    /\ UNCHANGED <<engine, threshold, err_due, err_stat, irqs, pending, thread, ibis>>

AnswerError ==
    /\ \E err \in Errors, len \in 0..1 : Answer(err, len)
    /\ engine' = "Halted" /\ err_due' = TRUE
    /\ UNCHANGED <<threshold, err_stat, irqs, pending, thread, ibis>>

\* The transfer dies without a response; a word of it may be left behind.
FailSilently ==
    LET c == Head(cmdq)
    IN  /\ engine = "Ready" /\ cmdq # <<>>
        /\ engine' = "Halted" /\ err_due' = TRUE
        /\ cmdq' = Tail(cmdq)
        /\ rxfifo' \in {rxfifo, Append(rxfifo, [xfer |-> c.xfer, tid |-> c.tid])}
        /\ UNCHANGED <<respq, threshold, err_stat, irqs, pending, thread, ibis>>

\* A masked source may or may not remember the error.
RaiseError ==
    /\ err_due /\ engine = "Halted"
    /\ err_due' = FALSE
    /\ \/ err_stat' = TRUE
       \/ irqs # "On" /\ UNCHANGED err_stat
    /\ UNCHANGED <<engine, cmdq, respq, rxfifo, threshold, irqs, pending, thread, ibis>>

\* A target interrupt or a hot-join; the handler drains any other kind and keeps no
\* trace of it, so that those are left out.
RaiseIbi ==
    /\ irqs # "Off" /\ raised < MaxIbis
    /\ raised' = raised + 1
    /\ ibiq' = Append(ibiq, raised + 1)
    /\ UNCHANGED <<hardware, err_stat, irqs, pending, thread, ring, expect>>

Hardware == AnswerOk \/ AnswerError \/ FailSilently \/ RaiseError \/ RaiseIbi

-----------------------------------------------------------------------------
(* The interrupt handler.                                                  *)

\* Transfer sources that are enabled and asserted; RESP_READY is a level.
Status ==
    {s \in {"RESP", "ERR"} : /\ irqs = "On"
                             /\ s = "RESP" => Len(respq) > threshold
                             /\ s = "ERR" => err_stat}

isr_service ==
    /\ irqs # "Off"
    /\ Status # {} \/ ibiq # <<>>
    /\ pending' = pending \cup Status
    /\ irqs' = IF Status = {} THEN irqs ELSE "Masked"
    /\ err_stat' = IF "ERR" \in Status THEN FALSE ELSE err_stat
    /\ ring' = PushAll(ring, ibiq)
    /\ ibiq' = <<>>
    /\ UNCHANGED <<hardware, thread, raised, expect>>

-----------------------------------------------------------------------------
(* The driver's thread.                                                    *)

\* ensure_xfer_ready, and start_xfer up to the stale completion it drops.
Start(op) ==
    /\ pc = "idle" /\ ~xfer_faulted /\ xfer.id < MaxXfers
    /\ \E c \in Calls :
          /\ c.op = op
          /\ xfer' = [id |-> xfer.id + 1, op |-> op, n |-> c.n, want |-> c.want]
    /\ pending' = {}
    /\ pc' = "drain"
    /\ UNCHANGED <<hardware, err_stat, irqs, xfer_faulted, took, got, ret, recovered, inits,
                   ibis>>

priv_xfer == Start("priv")

i2c_priv_xfer == Start("i2c")

do_ccc == Start("broadcast") \/ Start("direct")

do_entdaa == Start("entdaa")

\* Words that belong to the first n responses in the queue.
Words(n) == Cardinality({i \in 1..n : respq[i].len = 1})

\* Every response is popped, and its data with it.
PopResponses ==
    /\ respq' = <<>>
    /\ rxfifo' = SubSeq(rxfifo, Words(Len(respq)) + 1, Len(rxfifo))

DrainStale ==
    /\ pc = "drain"
    /\ PopResponses
    /\ pc' = "rearm"
    /\ UNCHANGED <<engine, cmdq, threshold, err_due, err_stat, irqs, pending, xfer_faulted,
                   xfer, took, got, ret, recovered, inits, ibis>>

\* Mutant of Rearm: an interrupt masked by a stale completion stays masked.
RearmNot ==
    /\ pc = "rearm"
    /\ pc' = "push"
    /\ UNCHANGED <<hardware, err_stat, irqs, pending, xfer_faulted, xfer, took, got, ret,
                   recovered, inits, ibis>>

Rearm ==
    /\ pc = "rearm"
    /\ irqs' = "On"
    /\ pc' = "push"
    /\ UNCHANGED <<hardware, err_stat, pending, xfer_faulted, xfer, took, got, ret, recovered,
                   inits, ibis>>

PushCommands ==
    /\ pc = "push"
    /\ threshold' = xfer.n - 1
    /\ cmdq' = cmdq \o [i \in 1..xfer.n |-> [xfer |-> xfer.id, tid |-> i - 1, want |-> xfer.want]]
    /\ pc' = "poll"
    /\ UNCHANGED <<engine, respq, rxfifo, err_due, err_stat, irqs, pending, xfer_faulted, xfer,
                   took, got, ret, recovered, inits, ibis>>

\* wait_xfer_complete finds latched status bits ...
TakePending ==
    /\ pc = "poll" /\ pending # {}
    /\ took' = pending
    /\ pending' = {}
    /\ pc' = "process"
    /\ UNCHANGED <<hardware, err_stat, irqs, xfer_faulted, xfer, got, ret, recovered, inits,
                   ibis>>

\* ... or runs out of its budget.
Timeout ==
    /\ pc = "poll" /\ pending = {}
    /\ took' = {}
    /\ recovered' = TRUE
    /\ pc' = "halt"
    /\ UNCHANGED <<hardware, err_stat, irqs, pending, xfer_faulted, xfer, got, ret,
                   inits, ibis>>

\* What a response does to xfer.ret: a TID or a length out of range is invalid.
Verdict(r) ==
    IF r.tid >= xfer.n \/ (r.err = "Ok" /\ r.len > xfer.want) THEN "Invalid" ELSE r.err

\* The last response that is not in order decides.
RetOfResponses ==
    LET bad == {i \in 1..Len(respq) : Verdict(respq[i]) # "Ok"}
    IN  IF bad = {} THEN "Ok" ELSE Verdict(respq[CHOOSE i \in bad : \A j \in bad : j <= i])

\* The response, and the word the thread reads for it.
Scatter(i) ==
    [resp |-> respq[i],
     word |-> IF respq[i].len = 1 /\ Words(i) <= Len(rxfifo) THEN rxfifo[Words(i)] ELSE NoWord]

\* Mutant of process_responses: an error without a response goes unnoticed.
ProcessResponsesOnly ==
    /\ pc = "process"
    /\ got' = [i \in 1..Len(respq) |-> Scatter(i)]
    /\ ret' = RetOfResponses
    /\ PopResponses
    /\ recovered' = TRUE
    /\ pc' = IF ret' # "Ok" THEN "halt" ELSE "finish"
    /\ UNCHANGED <<engine, cmdq, threshold, err_due, err_stat, irqs, pending, xfer_faulted,
                   xfer, took, inits, ibis>>

\* process_responses, and the check for an error that has no response.
process_responses ==
    /\ pc = "process"
    /\ got' = [i \in 1..Len(respq) |-> Scatter(i)]
    /\ ret' = IF RetOfResponses = "Ok" /\ "ERR" \in took THEN "Invalid" ELSE RetOfResponses
    /\ PopResponses
    /\ recovered' = TRUE
    /\ pc' = IF ret' # "Ok" THEN "halt" ELSE "finish"
    /\ UNCHANGED <<engine, cmdq, threshold, err_due, err_stat, irqs, pending, xfer_faulted,
                   xfer, took, inits, ibis>>

\* After a timeout (nothing was taken) the engine is told to abort, may answer the
\* command it aborts, and may not halt; after an error it must have halted by itself.
enter_halt ==
    /\ pc = "halt"
    /\ \/ /\ took = {}
          /\ engine' = "Halted"
          /\ \/ UNCHANGED respq
             \/ /\ cmdq # <<>>
                /\ respq' = Append(respq, [xfer |-> Head(cmdq).xfer, tid |-> Head(cmdq).tid,
                                           err |-> "Other", len |-> 0])
          /\ UNCHANGED recovered
       \/ took = {} /\ recovered' = FALSE /\ UNCHANGED <<engine, respq>>
       \/ /\ took # {}
          /\ recovered' = (engine = "Halted")
          /\ UNCHANGED <<engine, respq>>
    /\ pc' = "reset"
    /\ UNCHANGED <<cmdq, rxfifo, threshold, err_due, err_stat, irqs, pending, xfer_faulted,
                   xfer, took, got, ret, inits, ibis>>

\* Mutant of reset_ctrl: the receive FIFO is not among the queues that are reset.
ResetKeepsRx ==
    /\ pc = "reset"
    /\ \/ cmdq' = <<>> /\ respq' = <<>> /\ UNCHANGED <<rxfifo, recovered>>
       \/ recovered' = FALSE /\ UNCHANGED <<cmdq, respq, rxfifo>>
    /\ pc' = "resume"
    /\ UNCHANGED <<engine, threshold, err_due, err_stat, irqs, pending, xfer_faulted, xfer, took,
                   got, ret, inits, ibis>>

\* reset_ctrl(RESET_CTRL_XFER_QUEUES); the reset bits may not clear in time.
reset_ctrl ==
    /\ pc = "reset"
    /\ \/ cmdq' = <<>> /\ respq' = <<>> /\ rxfifo' = <<>> /\ UNCHANGED recovered
       \/ recovered' = FALSE /\ UNCHANGED <<cmdq, respq, rxfifo>>
    /\ pc' = "resume"
    /\ UNCHANGED <<engine, threshold, err_due, err_stat, irqs, pending, xfer_faulted, xfer, took,
                   got, ret, inits, ibis>>

\* A recovery of which any part failed is remembered until the next init.
exit_halt ==
    /\ pc = "resume"
    /\ \/ /\ engine = "Halted"
          /\ engine' = "Ready" /\ err_due' = FALSE
          /\ xfer_faulted' = IF recovered THEN xfer_faulted ELSE TRUE
       \/ engine = "Halted" /\ xfer_faulted' = TRUE /\ UNCHANGED <<engine, err_due>>
       \/ /\ engine # "Halted"
          /\ xfer_faulted' = IF recovered THEN xfer_faulted ELSE TRUE
          /\ UNCHANGED <<engine, err_due>>
    /\ pc' = IF took = {} THEN "clear_status" ELSE "finish"
    /\ UNCHANGED <<cmdq, respq, rxfifo, threshold, err_stat, irqs, pending, xfer, took, got,
                   ret, recovered, inits, ibis>>

\* The tail of recover_timeout_xfer.
ClearStatus ==
    /\ pc = "clear_status"
    /\ err_stat' = FALSE
    /\ pc' = "clear_pending"
    /\ UNCHANGED <<hardware, irqs, pending, xfer_faulted, xfer, took, got, ret, recovered,
                   inits, ibis>>

ClearPending ==
    /\ pc = "clear_pending"
    /\ pending' = {}
    /\ pc' = "unmask"
    /\ UNCHANGED <<hardware, err_stat, irqs, xfer_faulted, xfer, took, got, ret, recovered,
                   inits, ibis>>

\* The call returns, and its locals are gone.
Return ==
    /\ pc' = "idle" /\ took' = {} /\ got' = <<>> /\ ret' = "Ok" /\ recovered' = TRUE
    /\ xfer' = NoXfer(xfer.id)

UnmaskAfterTimeout ==
    /\ pc = "unmask"
    /\ irqs' = "On"
    /\ Return
    /\ UNCHANGED <<hardware, err_stat, pending, xfer_faulted, inits, ibis>>

\* What the callers of wait_xfer_complete make of xfer.ret and of the lengths.
Outcome ==
    LET short == \E i \in 1..Len(got) : got[i].resp.len < xfer.want
    IN  IF ret = "Ok" THEN IF xfer.op \in {"i2c", "direct"} /\ short THEN "RespError" ELSE "Ok"
        ELSE IF xfer.op = "broadcast" /\ ret = "IBA" THEN "Ok"
        ELSE IF xfer.op \in {"broadcast", "direct"} /\ ret = "NACK" THEN "AddressNack"
        ELSE IF xfer.op = "entdaa" /\ ret = "NACK" THEN "DaaNack"
        ELSE "RespError"

Finish ==
    /\ pc = "finish"
    /\ irqs' = "On"
    /\ Return
    /\ UNCHANGED <<hardware, err_stat, pending, xfer_faulted, inits, ibis>>

\* init, run again by reinit: the core reset takes everything with it, and turns the
\* interrupts off until the queues are known to be reset.
init ==
    /\ pc = "idle" /\ inits < MaxInits
    /\ inits' = inits + 1
    /\ engine' = "Ready" /\ cmdq' = <<>> /\ respq' = <<>> /\ rxfifo' = <<>> /\ ibiq' = <<>>
    /\ threshold' = 0 /\ err_due' = FALSE /\ err_stat' = FALSE
    /\ pending' = {} /\ ring' = EmptyRing /\ expect' = raised + 1
    /\ \/ irqs' = "On" /\ xfer_faulted' = FALSE
       \/ irqs' = "Off" /\ xfer_faulted' = TRUE
    /\ UNCHANGED <<pc, xfer, took, got, ret, recovered, raised>>

\* recover_bus_full, at rest, faulted or not, with any mask of transfer queues, as its
\* doc recommends; a mask with the IBI queue would drop what the handler has not read.
recover_bus_full ==
    /\ pc = "idle"
    /\ \/ /\ cmdq' \in {cmdq, <<>>} /\ respq' \in {respq, <<>>} /\ rxfifo' \in {rxfifo, <<>>}
          /\ UNCHANGED xfer_faulted
       \/ xfer_faulted' = TRUE /\ UNCHANGED <<cmdq, respq, rxfifo>>
    /\ UNCHANGED <<engine, threshold, err_due, err_stat, irqs, pending, pc, xfer, took, got, ret,
                   recovered, inits, ibis>>

\* IbiConsumer::dequeue, in the driver's loop.
dequeue ==
    /\ pc = "idle" /\ popped(ring) # None
    /\ ring' = pop(ring)
    /\ expect' = IF popped(ring) # Overflow THEN popped(ring) + 1
                 ELSE IF ring.len = 0 THEN expect ELSE Items(ring)[1]
    /\ UNCHANGED <<hardware, err_stat, irqs, pending, thread, ibiq, raised>>

Wait == TakePending \/ Timeout \/ process_responses

Recovery ==
    enter_halt \/ reset_ctrl \/ exit_halt \/ ClearStatus \/ ClearPending \/ UnmaskAfterTimeout

\* A call that has begun runs to its end.
Working == DrainStale \/ Rearm \/ PushCommands \/ Wait \/ Recovery \/ Finish

Thread ==
    \/ priv_xfer \/ i2c_priv_xfer \/ do_ccc \/ do_entdaa \/ Working
    \/ init \/ recover_bus_full \/ dequeue

Next == Hardware \/ isr_service \/ Thread

Spec == Init /\ [][Next]_vars

-----------------------------------------------------------------------------

\* A transfer that returns Ok got, for every one of its commands, that command's own
\* response without an error, and the word that belongs to it: nothing an earlier,
\* timed-out or failed transfer left behind counts as an answer (the stale completion
\* start_xfer clears, wait_xfer_complete).  A broadcast nobody acknowledges is fine.
HonestSuccess ==
    pc = "finish" /\ Outcome = "Ok" /\ ret = "Ok" =>
        /\ Len(got) = xfer.n
        /\ \A i \in 1..xfer.n :
              /\ got[i].resp.xfer = xfer.id /\ got[i].resp.tid = i - 1
              /\ got[i].resp.err = "Ok"
              /\ got[i].resp.len = 1 => got[i].word = [xfer |-> xfer.id, tid |-> i - 1]

\* Between two transfers of a driver that is not faulted the engine is ready and its
\* queues are empty, whatever the last transfer ended with: responses and receive data
\* can never get out of step (process_responses, recover_timeout_xfer).
CleanBetweenTransfers ==
    pc = "idle" /\ ~xfer_faulted =>
        engine = "Ready" /\ cmdq = <<>> /\ respq = <<>> /\ rxfifo = <<>>

\* The completion interrupt is never left masked with nobody to unmask it: while the
\* thread polls, or before its next call, a masked source has a latched bit that the
\* thread will take (mask_master_xfer_irqs in the handler, unmask in the thread).
NeverDeaf ==
    pc \in {"idle", "push", "poll"} /\ ~xfer_faulted =>
        irqs = "On" \/ (irqs = "Masked" /\ pending # {})

\* The consumer gets the in-band interrupts in the order they were raised, and a gap
\* only after IbiWork::Overflow: what a transfer's recovery resets takes none away
\* (IbiRing::push, RESET_CTRL_XFER_QUEUES leaves the IBI queue alone).
GapIsAnnounced ==
    LET queue == Items(ring) \o ibiq
    IN  /\ ring.overflowed \/ queue = <<>> \/ queue[1] = expect
        /\ \A i \in 1..Len(queue) : queue[i] = raised - Len(queue) + i
====
