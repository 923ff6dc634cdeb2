--------------------------- MODULE MCTimerManager ---------------------------
(* Three components for a vector of two, so that it can be full, and windows *)
(* of which the longest saturates.                                           *)
EXTENDS TimerManager

MCId == 1..3
MCWindows == {1, 3}
====
