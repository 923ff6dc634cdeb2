------------------------ MODULE MCOrchestratorDispatch ------------------------
(* A Cascading Active root and a Required Passive component behind it.       *)
EXTENDS OrchestratorDispatch

MCKind == <<"Active", "Passive">>
MCPolicy == <<"Cascading", "Required">>
MCDependsOn == <<None, 1>>
MCReplies == {}
====
