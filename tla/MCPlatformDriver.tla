-------------------------- MODULE MCPlatformDriver --------------------------
(* A Cascading Active root, a Passive component that depends on it, and an   *)
(* Isolable Active one that keeps its own floor.                             *)
EXTENDS PlatformContract

MCKind == <<"Active", "Passive", "Active">>
MCPolicy == <<"Cascading", "Required", "Isolable">>
MCDependsOn == <<None, 1, None>>
MCReplies == [type : {"VerificationPassed", "VerificationFailed"}, id : Comp]
MCSvn == {1, 2}
MCSelfManaged == {3}
====
