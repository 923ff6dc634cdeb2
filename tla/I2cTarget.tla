----------------------------- MODULE I2cTarget -----------------------------
(***************************************************************************)
(* The target (slave) side of one AST1060 I2C controller:                  *)
(* target/ast10x0/peripherals/i2c/slave.rs and recovery.rs, in the packet  *)
(* modes (buffer and DMA) the server backend opens a bus in, together with *)
(* the backend's mirror of the enable bit (target/ast10x0/backend/i2c).    *)
(*                                                                         *)
(* The driver keeps no state of its own between two calls: the variables   *)
(* are the controller's registers.  The interrupt status i2cs24 is the     *)
(* name of the combination of bits the driver tells apart; combinations    *)
(* the driver lists nowhere are assumed not to occur.  A frame of the bus  *)
(* is its number, so that order and repetition can be seen.                *)
(***************************************************************************)
EXTENDS Naturals

CONSTANT MaxFrames   \* bound: frames an external master writes

ASSUME MaxFramesAssumption == MaxFrames \in Nat

VARIABLES
    enbl_slave_fn,   \* i2cc00: the target function is on
    i2cs20,          \* the target interrupts are enabled
    i2cs24,          \* target interrupt status
    rx_cmd,          \* i2cs28: receive is armed
    tx_cmd,          \* i2cs28: transmit is armed
    i2cm14,          \* left-over master status, on the same interrupt line
    rx_buf,          \* number of the frame in the hardware buffer
    written,            \* frames the bus has delivered so far
    slave_enabled    \* the backend's mirror of the enable bit

tvars == <<enbl_slave_fn, i2cs20, i2cs24, rx_cmd, tx_cmd, i2cm14, rx_buf, written,
           slave_enabled>>

\* "match": Sw.  "data_wait", "data_stop", "data_wait_tx": a write with data
\* that waits for buffer space, ends, or turns into a read.  "match_stop": an
\* address-only write.  "wait_tx", "read_stop": a read that waits for data, or
\* ends.  "inactive": inactive timeout.  "error": packet error.
Status == {"none", "match", "data_wait", "data_stop", "data_wait_tx",
           "match_stop", "wait_tx", "read_stop", "inactive", "error"}

DataStatus == {"data_wait", "data_stop", "data_wait_tx"}

TargetTypeOK ==
    /\ enbl_slave_fn \in BOOLEAN
    /\ i2cs20 \in BOOLEAN
    /\ i2cs24 \in Status
    /\ rx_cmd \in BOOLEAN
    /\ tx_cmd \in BOOLEAN
    /\ i2cm14 \in BOOLEAN
    /\ rx_buf \in 0..MaxFrames
    /\ written \in 0..MaxFrames
    /\ slave_enabled \in BOOLEAN

TargetInit ==
    /\ enbl_slave_fn = FALSE
    /\ i2cs20 = FALSE
    /\ i2cs24 = "none"
    /\ rx_cmd = FALSE
    /\ tx_cmd = FALSE
    /\ i2cm14 = FALSE
    /\ rx_buf = 0
    /\ written = 0
    /\ slave_enabled = FALSE

----------------------------------------------------------------------------
(* The driver *)

\* configure_slave_address: program, arm receive, enable interrupts.  The mirror
\* follows only enable_slave_mode.
ConfigureSlave ==
    /\ enbl_slave_fn' = TRUE
    /\ i2cs24' = "none"
    /\ rx_cmd' = TRUE
    /\ tx_cmd' = FALSE
    /\ i2cs20' = TRUE
    /\ UNCHANGED <<i2cm14, rx_buf, written, slave_enabled>>

\* enable_slave does not arm receive.
EnableSlave ==
    /\ enbl_slave_fn' = TRUE
    /\ i2cs20' = TRUE
    /\ slave_enabled' = TRUE
    /\ UNCHANGED <<i2cs24, rx_cmd, tx_cmd, i2cm14, rx_buf, written>>

\* disable_slave leaves the command as it is.
DisableSlave ==
    /\ i2cs20' = FALSE
    /\ i2cs24' = "none"
    /\ enbl_slave_fn' = FALSE
    /\ slave_enabled' = FALSE
    /\ UNCHANGED <<rx_cmd, tx_cmd, i2cm14, rx_buf, written>>

\* slave_write of a non-empty response.
SlaveWrite ==
    /\ rx_cmd' = TRUE
    /\ tx_cmd' = TRUE
    /\ UNCHANGED <<enbl_slave_fn, i2cs20, i2cs24, i2cm14, rx_buf, written, slave_enabled>>

\* recover_bus turns both functions off and only the master on again.
RecoverBus ==
    /\ enbl_slave_fn' = FALSE
    /\ i2cm14' \in BOOLEAN
    /\ UNCHANGED <<i2cs20, i2cs24, rx_cmd, tx_cmd, rx_buf, written, slave_enabled>>

\* A master transfer leaves bits in i2cm14 or not.
MasterTransfer ==
    /\ i2cm14' \in BOOLEAN
    /\ UNCHANGED <<enbl_slave_fn, i2cs20, i2cs24, rx_cmd, tx_cmd, rx_buf, written,
                   slave_enabled>>

\* handle_slave_interrupt and to_hal_event: the event a status stands for.
HalEvent ==
    IF i2cs24 = "match" THEN "SlaveWrReq"
    ELSE IF i2cs24 \in DataStatus THEN "SlaveWrRecvd"
    ELSE IF i2cs24 = "wait_tx" THEN "SlaveRdProc"
    ELSE IF i2cs24 \in {"match_stop", "read_stop"} THEN "SlaveStop"
    ELSE "None"

\* The same handler's effect on the controller.  `drain` says that the caller
\* goes on to slave_read, which writes the receive command again and does not
\* fail for a buffer of this size.  A packet error is cleared and no more.
HandleSlaveInterrupt(drain) ==
    /\ i2cm14' = (i2cm14 /\ i2cs24 # "none")
    /\ i2cs24' = "none"
    /\ IF drain \/ i2cs24 \in {"match_stop", "read_stop", "inactive"}
       THEN rx_cmd' = TRUE /\ tx_cmd' = FALSE
       ELSE UNCHANGED <<rx_cmd, tx_cmd>>
    /\ enbl_slave_fn' = (enbl_slave_fn \/ i2cs24 = "inactive")
    /\ UNCHANGED <<i2cs20, rx_buf, written, slave_enabled>>

\* The interrupt line, shared with the master side.
Irq == (i2cs20 /\ i2cs24 # "none") \/ i2cm14

----------------------------------------------------------------------------
(* The external master, and the hardware between it and the driver *)

\* The target is addressed, or its transaction ends, and the status says how.
Raise(status) ==
    /\ enbl_slave_fn
    /\ i2cs24' = status
    /\ UNCHANGED <<enbl_slave_fn, i2cs20, i2cm14, slave_enabled>>

\* A write with data is acknowledged only while receive is armed, and uses the
\* arming up.
BusData(status) ==
    /\ rx_cmd
    /\ i2cs24 \in {"none", "match"}
    /\ written < MaxFrames
    /\ written' = written + 1
    /\ rx_buf' = written + 1
    /\ rx_cmd' = FALSE
    /\ UNCHANGED tx_cmd
    /\ Raise(status)

\* A write begins, an address-only write ends, the bus goes inactive.
BusMatch ==
    /\ i2cs24 = "none" /\ rx_cmd
    /\ Raise("match")
    /\ UNCHANGED <<rx_cmd, tx_cmd, rx_buf, written>>
BusMatchStop ==
    /\ i2cs24 = "none" /\ rx_cmd
    /\ Raise("match_stop")
    /\ rx_cmd' = FALSE
    /\ UNCHANGED <<tx_cmd, rx_buf, written>>
BusInactive ==
    /\ i2cs24 = "none" /\ rx_cmd
    /\ Raise("inactive")
    /\ rx_cmd' = FALSE /\ tx_cmd' = FALSE
    /\ UNCHANGED <<rx_buf, written>>

\* A read waits until there is a response, and ends when it was sent.
BusWaitTx ==
    /\ i2cs24 = "none" /\ ~tx_cmd
    /\ Raise("wait_tx")
    /\ UNCHANGED <<rx_cmd, tx_cmd, rx_buf, written>>
BusReadStop ==
    /\ i2cs24 = "none" /\ tx_cmd
    /\ Raise("read_stop")
    /\ rx_cmd' = FALSE /\ tx_cmd' = FALSE
    /\ UNCHANGED <<rx_buf, written>>

\* The repository does not say whether a packet error uses the arming up.  If it
\* does, receive stays unarmed: the handler does not arm it after an error.
BusError ==
    /\ i2cs24 = "none"
    /\ Raise("error")
    /\ rx_cmd' \in {rx_cmd, FALSE}
    /\ UNCHANGED <<tx_cmd, rx_buf, written>>

Bus ==
    \/ \E s \in DataStatus : BusData(s)
    \/ BusMatch \/ BusMatchStop \/ BusInactive
    \/ BusWaitTx \/ BusReadStop
    \/ BusError
====
