--------------------------- MODULE MCChainOfTrust ---------------------------
(***************************************************************************)
(* Every list of up to three entries over three ids, well-formed or not,   *)
(* and every well-formed chain of five in id order, validated and then     *)
(* cascaded from each of its components.                                   *)
(***************************************************************************)
EXTENDS ChainOfTrust

CONSTANTS
    MaxLen,   \* longest list that is enumerated with arbitrary ids
    LongLen   \* length of the chains that are enumerated in id order

ASSUME LengthsAssumption == MaxLen \in Nat /\ LongLen \in Nat

VARIABLES
    listed,     \* the entries handed to Chain::try_from
    admission,  \* what it answered
    origin,     \* the component that cascade_hold starts from
    walked      \* the frontier it leaves

mcvars == <<listed, admission, origin, walked>>

Entry(n) == [id : 1..n, depends_on : 0..n]
LongChains ==
    {[i \in 1..LongLen |-> [id |-> i, depends_on |-> dep[i]]] :
        dep \in {d \in [1..LongLen -> 0..LongLen] : \A i \in 1..LongLen : d[i] < i}}

MCInit ==
    /\ listed \in (UNION {[1..n -> Entry(MaxLen)] : n \in 0..MaxLen}) \cup LongChains
    /\ admission = Rejection("Unknown", None)
    /\ origin = None
    /\ walked = <<>>

Validate ==
    /\ admission.error = "Unknown"
    /\ admission' = TryFrom(listed)
    /\ UNCHANGED <<listed, origin, walked>>

Cascade ==
    /\ admission = Accepted
    /\ origin = None
    /\ origin' \in IdsOf(listed)
    /\ walked' = Frontier(listed, origin')
    /\ UNCHANGED <<listed, admission>>

MCNext == Validate \/ Cascade

MCSpec == MCInit /\ [][MCNext]_mcvars

\* Chain::try_from accepts exactly the lists that satisfy the invariants its
\* doc comment states.
AcceptsWellFormed ==
    admission.error # "Unknown" => (admission = Accepted <=> WellFormed(listed))

\* cascade_hold visits exactly the transitive dependents of its root, each
\* once, so the N-entry frontier never overflows.
CascadeIsClosure ==
    origin # None =>
        /\ {walked[i] : i \in DOMAIN walked} = DependentsOn(listed, origin)
        /\ \A i, j \in DOMAIN walked : walked[i] = walked[j] => i = j
        /\ Len(walked) <= Len(listed)
====
