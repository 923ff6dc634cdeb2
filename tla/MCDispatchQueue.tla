-------------------------- MODULE MCDispatchQueue --------------------------
(* A chain of three with every failure policy: a Cascading root, an Isolable *)
(* component that depends on it and a Required one at the end.  The executor *)
(* returns verdicts, asked for or not, and events of its own.                *)
EXTENDS DispatchQueue

MCKind == <<"Active", "Passive", "Active">>
MCPolicy == <<"Cascading", "Isolable", "Required">>
MCDependsOn == <<None, 1, 2>>
MCReplies ==
    [type : {"VerificationPassed", "VerificationFailed", "Restored"}, id : 1..3]
        \cup {Plain("AttestationChallenge")}
====
