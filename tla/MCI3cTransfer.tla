--------------------------- MODULE MCI3cTransfer ---------------------------
(***************************************************************************)
(* One transfer of every kind; the private one has two commands, so that   *)
(* an error can hit the first or the last.                                 *)
(***************************************************************************)
EXTENDS I3cTransfer

MCCalls ==
    {[op |-> "priv", n |-> 2, want |-> 1], [op |-> "i2c", n |-> 1, want |-> 1],
     [op |-> "direct", n |-> 1, want |-> 1], [op |-> "broadcast", n |-> 1, want |-> 0],
     [op |-> "entdaa", n |-> 1, want |-> 0]}
====
