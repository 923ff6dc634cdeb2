----------------------------- MODULE Watchdogs -----------------------------
(***************************************************************************)
(* What the orchestrator's watchdogs promise: one deadline for each armed  *)
(* component and one for the commit window, reported once, nearest first.  *)
(***************************************************************************)
EXTENDS Integers, FiniteSets

CONSTANTS Id, N, InstantMax, None, Unarmed, Windows

VARIABLES
    deadlines,  \* of each component, Unarmed for none
    commit,     \* of the commit window
    now,
    result      \* what the last call returned

wvars == <<deadlines, commit, now, result>>

Outcome(kind, id) == [kind |-> kind, id |-> id]
In(after) == IF now + after <= InstantMax THEN now + after ELSE InstantMax
Armed == {i \in Id : deadlines[i] # Unarmed}
DueIds == {i \in Armed : deadlines[i] <= now}
CommitIsDue == commit # Unarmed /\ commit <= now

Init ==
    /\ deadlines = [i \in Id |-> Unarmed]
    /\ commit = Unarmed
    /\ now = 0
    /\ result = Outcome("Ok", None)

\* One window for each component: arming again restarts it.
Arm(i, after) ==
    /\ i \in Armed \/ Cardinality(Armed) < N
    /\ deadlines' = [deadlines EXCEPT ![i] = In(after)]
    /\ result' = Outcome("Ok", None)
    /\ UNCHANGED <<commit, now>>

\* An arm is refused only when N other components are armed.
Refuse(i) ==
    /\ i \notin Armed
    /\ Cardinality(Armed) = N
    /\ result' = Outcome("Full", None)
    /\ UNCHANGED <<deadlines, commit, now>>

Cancel(i) ==
    /\ deadlines' = [deadlines EXCEPT ![i] = Unarmed]
    /\ result' = Outcome("Ok", None)
    /\ UNCHANGED <<commit, now>>

SetCommit(at) ==
    /\ commit' = at
    /\ result' = Outcome("Ok", None)
    /\ UNCHANGED <<deadlines, now>>

\* The nearest of the due ones, components before the commit window.
FireBoot(i) ==
    /\ i \in DueIds
    /\ \A j \in DueIds : deadlines[i] <= deadlines[j]
    /\ CommitIsDue => deadlines[i] <= commit
    /\ deadlines' = [deadlines EXCEPT ![i] = Unarmed]
    /\ result' = Outcome("Timeout", i)
    /\ UNCHANGED <<commit, now>>

FireCommit ==
    /\ CommitIsDue
    /\ \A j \in DueIds : commit < deadlines[j]
    /\ commit' = Unarmed
    /\ result' = Outcome("CommitTimeout", None)
    /\ UNCHANGED <<deadlines, now>>

\* Nothing is reported only when nothing is due.
Nothing ==
    /\ DueIds = {}
    /\ ~CommitIsDue
    /\ result' = Outcome("None", None)
    /\ UNCHANGED <<deadlines, commit, now>>

Tick ==
    /\ now' = now + 1
    /\ UNCHANGED <<deadlines, commit, result>>

Next ==
    \/ \E i \in Id : \E after \in Windows : Arm(i, after)
    \/ \E i \in Id : Refuse(i) \/ Cancel(i) \/ FireBoot(i)
    \/ \E after \in Windows : SetCommit(In(after))
    \/ SetCommit(Unarmed)
    \/ FireCommit
    \/ Nothing
    \/ Tick

Spec == Init /\ [][Next]_wvars
====
