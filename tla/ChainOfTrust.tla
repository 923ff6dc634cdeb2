---------------------------- MODULE ChainOfTrust ----------------------------
(***************************************************************************)
(* The chain of trust as data: what Chain::try_from accepts (sm/src/       *)
(* model.rs) and which components cascade_hold visits (sm/src/lib.rs).     *)
(* An entry is [id, depends_on]; ids are positive and 0 stands for no      *)
(* dependency.  Both algorithms keep the code's order of evaluation and    *)
(* are stated next to the reference they are checked against.              *)
(***************************************************************************)
EXTENDS Integers, Sequences

None == 0

\* The sequences in `parts`, one after the other: what a loop emits whose k-th
\* round emits parts[k].
Concat(parts) ==
    LET upto[k \in 0..Len(parts)] ==
            IF k = 0 THEN <<>> ELSE upto[k - 1] \o parts[k]
    IN  upto[Len(parts)]

IdsOf(entries) == {entries[i].id : i \in DOMAIN entries}

----------------------------------------------------------------------------
(* Chain::try_from *)

U8Max == 255

\* Positions the two loops reject, in the order in which they look.
DuplicateAt(entries) ==
    {i \in DOMAIN entries : \E j \in 1..(i - 1) : entries[j].id = entries[i].id}
Position(entries, id) ==
    CHOOSE j \in DOMAIN entries : /\ entries[j].id = id
                                  /\ \A k \in 1..(j - 1) : entries[k].id # id
UnknownAt(entries) ==
    {i \in DOMAIN entries : entries[i].depends_on \notin IdsOf(entries) \cup {None}}

\* Mutant of ForwardAt: lets a component depend on itself.
ForwardAtStrict(entries) ==
    {i \in DOMAIN entries : /\ entries[i].depends_on \in IdsOf(entries)
                            /\ Position(entries, entries[i].depends_on) > i}

ForwardAt(entries) ==
    {i \in DOMAIN entries : /\ entries[i].depends_on \in IdsOf(entries)
                            /\ Position(entries, entries[i].depends_on) >= i}

Rejection(error, component) == [error |-> error, component |-> component]
Accepted == Rejection("Ok", None)

TryFrom(entries) ==
    LET unknown == UnknownAt(entries)
        forward == ForwardAt(entries)
        least(S) == CHOOSE i \in S : \A j \in S : i <= j
    IN  IF entries = <<>> THEN Rejection("Empty", None)
        ELSE IF Len(entries) > U8Max THEN Rejection("TooLong", None)
        ELSE IF DuplicateAt(entries) # {}
             THEN Rejection("DuplicateId", entries[least(DuplicateAt(entries))].id)
        ELSE IF unknown \cup forward # {}
             THEN LET i == least(unknown \cup forward)
                  IN  Rejection(IF i \in unknown THEN "UnknownDependency"
                                ELSE "ForwardDependency", entries[i].id)
        ELSE Accepted

\* The structural invariants the doc comment on Chain lists.
WellFormed(entries) ==
    /\ Len(entries) \in 1..U8Max
    /\ \A i, j \in DOMAIN entries : entries[i].id = entries[j].id => i = j
    /\ \A i \in DOMAIN entries :
         entries[i].depends_on # None =>
            \E j \in 1..(i - 1) : entries[j].id = entries[i].depends_on

----------------------------------------------------------------------------
(* cascade_hold *)

\* Mutant of Frontier: stops after the dependents of the root.
FrontierOneLevel(entries, root) ==
    <<root>> \o Concat([i \in DOMAIN entries |->
                    IF entries[i].depends_on = root THEN <<entries[i].id>> ELSE <<>>])

\* The ids of the components that depend on `holder` and are not on frontier q,
\* in chain order.
NewDependents(entries, q, holder) ==
    Concat([i \in DOMAIN entries |->
        IF entries[i].depends_on = holder /\ \A j \in DOMAIN q : q[j] # entries[i].id
        THEN <<entries[i].id>> ELSE <<>>])

(***************************************************************************)
(* The breadth-first walk over `depends_on`: the k-th round appends the    *)
(* dependents of the k-th holder that are not yet on the frontier.  It     *)
(* does not look at which components are isolated.                         *)
(***************************************************************************)
Frontier(entries, root) ==
    LET visit[k \in 0..Len(entries)] ==
            IF k = 0 THEN <<root>>
            ELSE LET q == visit[k - 1]
                 IN  IF k > Len(q) THEN q ELSE q \o NewDependents(entries, q, q[k])
    IN  visit[Len(entries)]

\* The reference: the root and everything that depends on it, directly or
\* through others, as the least set closed under dependents.
ClosedUnderDependents(entries, S) ==
    \A i \in DOMAIN entries : entries[i].depends_on \in S => entries[i].id \in S
DependentsOn(entries, root) ==
    {c \in IdsOf(entries) : \A S \in SUBSET IdsOf(entries) :
        root \in S /\ ClosedUnderDependents(entries, S) => c \in S}
====
