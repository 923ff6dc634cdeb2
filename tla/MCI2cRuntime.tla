---------------------------- MODULE MCI2cRuntime ----------------------------
(* One bus, its owner and an external master that writes a few frames.       *)
EXTENDS I2cRuntime
====
