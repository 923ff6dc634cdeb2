----------------------------- MODULE BootWatch -----------------------------
(***************************************************************************)
(* What the BootWatch trait promises its caller                            *)
(* (services/orchestrator/capabilities/src/boot_watch.rs): an attempt      *)
(* starts when it is armed, ends with one terminal verdict, and a walk     *)
(* that is not armed has nothing to say.                                   *)
(***************************************************************************)

VARIABLES
    live,     \* an attempt was armed and has no terminal verdict yet
    verdict   \* what the last poll returned, without its payload

Terminal == {"Complete", "TimedOut", "DeviceRetriable", "DeviceFatal"}

Init ==
    /\ live = FALSE
    /\ verdict = "Waiting"

\* A fresh attempt, whatever came before it.
Arm ==
    /\ live' = TRUE
    /\ UNCHANGED verdict

PollWaiting ==
    /\ verdict' = "Waiting"
    /\ UNCHANGED live

PollTerminal ==
    /\ live
    /\ verdict' \in Terminal
    /\ live' = FALSE

Next == Arm \/ PollWaiting \/ PollTerminal

Spec == Init /\ [][Next]_<<live, verdict>>
====
