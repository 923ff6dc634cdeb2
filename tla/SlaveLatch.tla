---------------------------- MODULE SlaveLatch ----------------------------
(***************************************************************************)
(* What the I2C server promises the owner of a bus about slave receive     *)
(* (the doc comments of services/i2c/client/src/lib.rs): a box for one     *)
(* frame in which the newest wins, and a signal that is up whenever there  *)
(* is something in the box.  A frame is handed over at most once and never *)
(* after a younger one.  The signal may be up for nothing.                 *)
(***************************************************************************)
EXTENDS Naturals

VARIABLES
    box,       \* the frame in the box, 0 when it is empty
    signal,    \* Signals::USER
    taken      \* the youngest frame that was handed over

Init ==
    /\ box = 0
    /\ signal = FALSE
    /\ taken = 0

\* A younger frame replaces the one in the box.
Put ==
    /\ box' \in Nat
    /\ box' > box
    /\ box' > taken
    /\ signal' = TRUE
    /\ UNCHANGED taken

\* The owner empties the box and takes the signal down.
Take ==
    /\ box # 0
    /\ taken' = box
    /\ box' = 0
    /\ signal' = FALSE

TakeNothing ==
    /\ box = 0
    /\ signal' = FALSE
    /\ UNCHANGED <<box, taken>>

\* The owner gives up what is in the box; the signal may stay up.
Discard ==
    /\ box' = 0
    /\ UNCHANGED <<signal, taken>>

Wake ==
    /\ signal' = TRUE
    /\ UNCHANGED <<box, taken>>

Next == Put \/ Take \/ TakeNothing \/ Discard \/ Wake

Spec == Init /\ [][Next]_<<box, signal, taken>>
====
