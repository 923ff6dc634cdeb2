----------------------------- MODULE I2cRuntime -----------------------------
(***************************************************************************)
(* services/i2c/server-runtime/src/lib.rs: the I2C server's loop for one   *)
(* bus.  It waits for the bus interrupt and for requests on the bus's      *)
(* channel.  The interrupt branch drains the controller into a latch and   *)
(* raises Signals::USER at the owner of the channel; the request branch    *)
(* serves one request and answers it.  The master request goes through     *)
(* services/i2c/server/src/lib.rs and the three device requests through    *)
(* server/src/slave.rs.                                                    *)
(*                                                                         *)
(* The owner (services/i2c/client) sends one request at a time and waits   *)
(* for the answer; bus and interrupt go on in between.                     *)
(***************************************************************************)
EXTENDS I2cTarget

VARIABLES
    notif_enabled,
    rx,              \* the latched frame, 0 for rx_len = 0
    rx_event_kind,
    user,            \* Signals::USER on the owner's end of the channel
    request,         \* the request the owner waits for, or "none"
    received         \* the youngest frame that was handed to the owner

rvars == <<notif_enabled, rx, rx_event_kind, user, request, received>>
ivars == <<tvars, rvars>>

SlaveEvent == {"DataReceived", "ReadRequest", "Stop"}

Op == {"Transaction", "ConfigureSlave", "EnableSlave", "DisableSlave",
       "EnableSlaveNotification", "DisableSlaveNotification", "SlaveReceive",
       "SlaveSetResponse"}

RuntimeTypeOK ==
    /\ TargetTypeOK
    /\ notif_enabled \in BOOLEAN
    /\ rx \in 0..MaxFrames
    /\ rx_event_kind \in SlaveEvent
    /\ user \in BOOLEAN
    /\ request \in Op \cup {"none"}
    /\ received \in 0..MaxFrames

RuntimeInit ==
    /\ TargetInit
    /\ notif_enabled = FALSE
    /\ rx = 0
    /\ rx_event_kind = "DataReceived"
    /\ user = FALSE
    /\ request = "none"
    /\ received = 0

----------------------------------------------------------------------------
(* The interrupt branch *)

\* The kind that is stored for an event; events in the middle of a transaction
\* leave it alone.
KindAfter(ev) ==
    IF ev = "SlaveWrRecvd" THEN "DataReceived"
    ELSE IF ev = "SlaveRdReq" THEN "ReadRequest"
    ELSE IF ev = "SlaveStop" THEN "Stop"
    ELSE rx_event_kind

\* should_wake, after the event was latched.
ShouldWake == rx' # 0 \/ rx_event_kind' = "Stop"

\* Mutant of IrqArmed: the end of a transaction drains the buffer once more.
IrqDrainsOnStop ==
    /\ Irq
    /\ notif_enabled
    /\ HandleSlaveInterrupt(HalEvent = "SlaveWrRecvd")
    /\ rx_event_kind' = KindAfter(HalEvent)
    /\ rx' = IF HalEvent \in {"SlaveWrRecvd", "SlaveStop"} THEN rx_buf ELSE rx
    /\ user' = IF ShouldWake THEN TRUE ELSE user
    /\ UNCHANGED <<notif_enabled, request, received>>

\* With notification armed one event is taken from the controller; a received
\* frame replaces the latched one.  Without it the branch only acknowledges the
\* interrupt, and changes nothing here.
IrqArmed ==
    /\ Irq
    /\ notif_enabled
    /\ HandleSlaveInterrupt(HalEvent = "SlaveWrRecvd")
    /\ rx_event_kind' = KindAfter(HalEvent)
    /\ rx' = IF HalEvent = "SlaveWrRecvd" THEN rx_buf ELSE rx
    /\ user' = IF ShouldWake THEN TRUE ELSE user
    /\ UNCHANGED <<notif_enabled, request, received>>

----------------------------------------------------------------------------
(* The request branch *)

\* channel_respond.
Reply == request' = "none"

\* A transaction that ends in a bus error or in lost arbitration is followed by
\* an attempt to recover the bus.  A timeout is not: the driver reports it as
\* ErrorKind::Other, which is InternalError on the wire.
ServeTransaction ==
    /\ request = "Transaction"
    /\ MasterTransfer \/ RecoverBus
    /\ Reply
    /\ UNCHANGED <<notif_enabled, rx, rx_event_kind, user, received>>

\* An address that is too large, or an empty response, changes nothing.
ServeDevice ==
    /\ \/ request \in {"ConfigureSlave", "SlaveSetResponse"} /\ UNCHANGED tvars
       \/ request = "ConfigureSlave" /\ ConfigureSlave
       \/ request = "EnableSlave" /\ EnableSlave
       \/ request = "DisableSlave" /\ DisableSlave
       \/ request = "SlaveSetResponse" /\ SlaveWrite
    /\ Reply
    /\ UNCHANGED <<notif_enabled, rx, rx_event_kind, user, received>>

ServeEnableNotification ==
    /\ request = "EnableSlaveNotification"
    /\ notif_enabled' = TRUE
    /\ Reply
    /\ UNCHANGED <<tvars, rx, rx_event_kind, user, received>>

\* Disarming drops what is latched; the signal stays as it is.
ServeDisableNotification ==
    /\ request = "DisableSlaveNotification"
    /\ notif_enabled' = FALSE
    /\ rx' = 0
    /\ rx_event_kind' = "DataReceived"
    /\ Reply
    /\ UNCHANGED <<tvars, user, received>>

\* Mutant of ServeSlaveReceive: the signal is left up.
ReceiveKeepsSignal ==
    /\ request = "SlaveReceive"
    /\ rx' = 0
    /\ received' = IF rx = 0 THEN received ELSE rx
    /\ Reply
    /\ UNCHANGED <<tvars, notif_enabled, rx_event_kind, user>>

\* The signal goes down whether there is data or NoData is answered.
ServeSlaveReceive ==
    /\ request = "SlaveReceive"
    /\ user' = FALSE
    /\ rx' = 0
    /\ received' = IF rx = 0 THEN received ELSE rx
    /\ Reply
    /\ UNCHANGED <<tvars, notif_enabled, rx_event_kind>>

Serve ==
    \/ ServeTransaction
    \/ ServeDevice
    \/ ServeEnableNotification
    \/ ServeDisableNotification
    \/ ServeSlaveReceive

----------------------------------------------------------------------------

\* The owner sends its next request.
SendRequest(op) ==
    /\ request = "none"
    /\ request' = op
    /\ UNCHANGED <<tvars, notif_enabled, rx, rx_event_kind, user, received>>

RuntimeNext ==
    \/ Bus /\ UNCHANGED rvars
    \/ IrqArmed
    \/ Serve
    \/ \E op \in Op : SendRequest(op)

RuntimeSpec == RuntimeInit /\ [][RuntimeNext]_ivars

----------------------------------------------------------------------------
(* Properties *)

\* No lost wake-up between the interrupt branch and SlaveReceive: while a frame
\* is latched, notification is armed and the signal is up, however interrupts,
\* disarming and requests interleave.
LatchedIsSignalled == rx # 0 => notif_enabled /\ user

\* Frames move from controller to latch to owner in the order of the bus: none
\* that was handed over can come back, and the latch never runs ahead of the
\* controller.
FramesInOrder ==
    /\ received <= rx_buf
    /\ rx # 0 => received < rx /\ rx <= rx_buf

\* The latch with its signal is a one-frame box in which the newest wins.
Latch == INSTANCE SlaveLatch WITH box <- rx, signal <- user, taken <- received
RefinesSlaveLatch == Latch!Spec
====
