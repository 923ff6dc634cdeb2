-------------------------- MODULE PlatformContract --------------------------
(***************************************************************************)
(* What the dispatch loop expects of a platform, as OrchestratorDispatch   *)
(* states it, in terms of the PlatformDriver's state.                      *)
(***************************************************************************)
EXTENDS PlatformDriver

Contract ==
    INSTANCE OrchestratorDispatch WITH
        held <- lines, checked <- judged, update_staged <- FALSE,
        due <- {<<"Boot", c>> : c \in watching}

\* The driver keeps the Platform contract that OrchestratorDispatch states, so
\* that what is shown there holds of the two together.
KeepsContract == Contract!DispatchInit /\ [][Contract!DispatchNext]_(Contract!dvars)
====
