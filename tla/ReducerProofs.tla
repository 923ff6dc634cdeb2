--------------------------- MODULE ReducerProofs ---------------------------
(***************************************************************************)
(* Proofs about the chain of trust, the reducer and its pending queue, for *)
(* every chain that Chain::try_from accepts, every retry cap and every     *)
(* queue capacity the build accepts; and what the helpers of Rot emit.     *)
(***************************************************************************)
EXTENDS DispatchQueue, MCChainOfTrust, FiniteSetTheorems, TLAPS

\* A leaf that names no prover is tried with these, in this order, for so many seconds
\* each.  The repeated SMT only matters on a loaded machine, where one attempt can stall.
USE SMTT(30), SMTT(31), ZenonT(30), SMTT(32)

Elems(q) == {q[i] : i \in 1..Len(q)}

\* No value occurs twice.
Distinct(q) == \A i, j \in 1..Len(q) : q[i] = q[j] => i = j

\* A set of naturals that is not empty has a least element.
LEMMA LeastElement ==
    ASSUME NEW T, T \subseteq Nat, T # {}
    PROVE  \E m \in T : \A k \in T : m <= k
<1>1. PICK m \in T : \A k \in T : ~(<<k, m>> \in OpToRel(<, Nat))
  BY NatLessThanWellFounded, WFMin, ZenonT(30)
<1>2. \A k \in T : ~(k < m)
  BY <1>1, ZenonT(30) DEF OpToRel
<1> QED
  BY <1>2

\* Induction over the rounds of a loop: what holds before the first round and is kept
\* by each round holds after every one.  `holds` is the set of rounds after which it does.
LEMMA LoopInduction ==
    ASSUME NEW n \in Nat, NEW holds, 0 \in holds,
           \A k \in 1..n : k - 1 \in holds => k \in holds
    PROVE  \A k \in 0..n : k \in holds
<1> DEFINE T == {k \in 0..n : k \notin holds}
<1>1. SUFFICES ASSUME T # {} PROVE FALSE
  OBVIOUS
<1>2. PICK m \in T : \A k \in T : m <= k
  <2>1. T \subseteq Nat
    OBVIOUS
  <2> HIDE DEF T
  <2> QED
    BY ZenonT(30), <2>1, <1>1, LeastElement
<1> QED
  BY <1>2

\* A function of the results of a step that is repeated n times from a.
Runs(S, a, n, step) ==
    \E g \in [0..n -> S] : g[0] = a /\ \A k \in 1..n : g[k] = step[<<g[k - 1], k>>]

\* A step that is repeated n times from a has a function of its results: what the
\* recursive function of a loop needs in order to be defined.
LEMMA LoopExists ==
    ASSUME NEW S, NEW a \in S, NEW n \in Nat, NEW step \in [S \X (1..n) -> S]
    PROVE  Runs(S, a, n, step)
<1> DEFINE Good(g, m) == g[0] = a /\ \A k \in 1..m : g[k] = step[<<g[k - 1], k>>]
           holds == {m \in 0..n : \E g \in [0..m -> S] : Good(g, m)}
<1>1. 0 \in holds
  <2>1. [k \in 0..0 |-> a] \in [0..0 -> S] /\ Good([k \in 0..0 |-> a], 0)
    OBVIOUS
  <2>2. 0 \in 0..n
    OBVIOUS
  <2> QED
    BY <2>1, <2>2, ZenonT(30)
<1>2. ASSUME NEW m \in 1..n, m - 1 \in holds PROVE m \in holds
  <2>1. PICK g \in [0..m - 1 -> S] : Good(g, m - 1)
    BY <1>2, ZenonT(30)
  <2> HIDE DEF holds
  <2> DEFINE h == [k \in 0..m |-> IF k = m THEN step[<<g[m - 1], m>>] ELSE g[k]]
  <2>2. h \in [0..m -> S]
    BY <2>1
  <2>3. h[0] = a /\ h[m] = step[<<h[m - 1], m>>]
    <3>1. 0 \in 0..m /\ m \in 0..m /\ m - 1 \in 0..m /\ m # 0 /\ m - 1 # m
      OBVIOUS
    <3>2. h[0] = g[0] /\ h[m - 1] = g[m - 1] /\ h[m] = step[<<g[m - 1], m>>]
      BY <3>1, ZenonT(30)
    <3> QED
      BY <3>2, <2>1, ZenonT(30)
  <2>4. ASSUME NEW k \in 1..m - 1 PROVE h[k] = step[<<h[k - 1], k>>]
    <3>1. h[k] = g[k] /\ h[k - 1] = g[k - 1]
      OBVIOUS
    <3> QED
      BY <3>1, <2>1
  <2> HIDE DEF h
  <2>5. Good(h, m)
    <3>1. \A k \in 1..m : k = m \/ k \in 1..m - 1
      OBVIOUS
    <3> QED
      BY <3>1, <2>3, <2>4, ZenonT(30)
  <2>6. m \in 0..n
    OBVIOUS
  <2> QED
    BY <2>2, <2>5, <2>6, ZenonT(30) DEF holds
<1>3. n \in 0..n
  OBVIOUS
<1>4. n \in holds
  <2> HIDE DEF holds
  <2> QED
    BY <1>1, <1>2, <1>3, LoopInduction
<1> QED
  BY <1>4, ZenonT(30) DEF Runs

----------------------------------------------------------------------------
(* Sequences that a loop emits *)

\* The results of Concat's rounds.
Rounds(parts, f) ==
    /\ f[0] = <<>>
    /\ \A k \in 1..Len(parts) : f[k] = f[k - 1] \o parts[k]
    /\ Concat(parts) = f[Len(parts)]

\* Concat is its loop: round k appends parts[k].
LEMMA ConcatRounds ==
    ASSUME NEW S, NEW parts \in Seq(Seq(S))
    PROVE  \E f \in [0..Len(parts) -> Seq(S)] : Rounds(parts, f)
<1> DEFINE n == Len(parts)
           Body(g) == [k \in 0..n |-> IF k = 0 THEN <<>> ELSE g[k - 1] \o parts[k]]
           step == [p \in Seq(S) \X (1..n) |-> p[1] \o parts[p[2]]]
<1>1. n \in Nat /\ <<>> \in Seq(S) /\ \A k \in 1..n : parts[k] \in Seq(S)
  OBVIOUS
<1>2. Concat(parts) = (CHOOSE g : g = Body(g))[n]
  BY ZenonT(30) DEF Concat
<1> HIDE DEF n
<1>3. step \in [Seq(S) \X (1..n) -> Seq(S)]
  BY <1>1
<1>4. \A q \in Seq(S), k \in 1..n : step[<<q, k>>] = q \o parts[k]
  BY ZenonT(30)
<1> HIDE DEF step
<1>5. PICK g \in [0..n -> Seq(S)] : g[0] = <<>> /\ \A k \in 1..n : g[k] = step[<<g[k - 1], k>>]
  <2>1. Runs(Seq(S), <<>>, n, step)
    BY <1>1, <1>3, LoopExists, ZenonT(30)
  <2> QED
    BY <2>1, ZenonT(30) DEF Runs
<1>6. \A k \in 1..n : g[k] = g[k - 1] \o parts[k]
  <2>1. \A k \in 1..n : k - 1 \in 0..n
    BY <1>1
  <2> QED
    BY ZenonT(30), <2>1, <1>4, <1>5
<1>7. g = Body(g)
  <2>1. \A k \in 0..n : (k = 0 \/ k \in 1..n) /\ 0 \notin 1..n
    BY <1>1
  <2>2. \A k \in 0..n : g[k] = IF k = 0 THEN <<>> ELSE g[k - 1] \o parts[k]
    BY <2>1, <1>5, <1>6, ZenonT(30)
  <2> QED
    BY <1>5, <2>2, ZenonT(30)
<1>8. PICK f : f = Body(f) /\ Concat(parts) = f[n]
  BY ZenonT(30), <1>2, <1>7
<1>9. f[0] = <<>> /\ \A k \in 1..n : f[k] = f[k - 1] \o parts[k]
  <2>1. \A k \in 0..n : f[k] = IF k = 0 THEN <<>> ELSE f[k - 1] \o parts[k]
    BY <1>8, ZenonT(30)
  <2>2. 0 \in 0..n /\ \A k \in 1..n : k \in 0..n /\ k # 0
    BY <1>1
  <2> QED
    BY <2>1, <2>2, ZenonT(30)
<1>10. f \in [0..n -> Seq(S)]
  <2> DEFINE holds == {k \in 0..n : f[k] \in Seq(S)}
  <2>1. 0 \in holds
    <3>1. 0 \in 0..n
      BY <1>1
    <3> QED
      BY <3>1, <1>1, <1>9, ZenonT(30)
  <2>2. ASSUME NEW k \in 1..n, k - 1 \in holds PROVE k \in holds
    <3>1. f[k - 1] \in Seq(S) /\ parts[k] \in Seq(S) /\ f[k] = f[k - 1] \o parts[k]
      BY <1>1, <1>9, <2>2, ZenonT(30)
    <3>2. f[k] \in Seq(S) /\ k \in 0..n
      BY <1>1, <3>1
    <3> QED
      BY <3>2, ZenonT(30)
  <2>3. \A k \in 0..n : k \in holds
    <3> HIDE DEF holds
    <3> QED
      BY ZenonT(30), <1>1, <2>1, <2>2, LoopInduction
  <2> QED
    BY <1>8, <2>3, ZenonT(30)
<1> QED
  BY <1>8, <1>9, <1>10, ZenonT(30) DEF Rounds, n

\* The elements of two sequences, one after the other.
LEMMA ElemsConcat ==
    ASSUME NEW S, NEW a \in Seq(S), NEW b \in Seq(S)
    PROVE  Elems(a \o b) = Elems(a) \cup Elems(b)
<1>1. /\ Len(a) \in Nat /\ Len(b) \in Nat /\ Len(a \o b) = Len(a) + Len(b)
      /\ \A i \in 1..Len(a) : (a \o b)[i] = a[i]
      /\ \A i \in 1..Len(b) : (a \o b)[i + Len(a)] = b[i]
      /\ \A i \in 1..(Len(a) + Len(b)) :
            \/ i \in 1..Len(a)
            \/ i - Len(a) \in 1..Len(b) /\ (a \o b)[i] = b[i - Len(a)]
  OBVIOUS
<1>2. ASSUME NEW e \in Elems(a \o b) PROVE e \in Elems(a) \cup Elems(b)
  BY <1>1 DEF Elems
<1>3. ASSUME NEW e \in Elems(a) PROVE e \in Elems(a \o b)
  BY <1>1 DEF Elems
<1>4. ASSUME NEW e \in Elems(b) PROVE e \in Elems(a \o b)
  <2>1. PICK i \in 1..Len(b) : e = b[i]
    BY DEF Elems
  <2>2. i + Len(a) \in 1..Len(a \o b)
    BY <1>1
  <2> QED
    BY <2>1, <2>2, <1>1 DEF Elems
<1> QED
  BY <1>2, <1>3, <1>4

\* A loop emits what its rounds emit.
LEMMA ElemsOfConcat ==
    ASSUME NEW S, NEW parts \in Seq(Seq(S))
    PROVE  /\ Concat(parts) \in Seq(S)
           /\ Elems(Concat(parts)) = UNION {Elems(parts[k]) : k \in 1..Len(parts)}
<1> DEFINE n == Len(parts)
<1>1. n \in Nat /\ \A k \in 1..n : parts[k] \in Seq(S)
  OBVIOUS
<1>2. PICK f \in [0..n -> Seq(S)] : Rounds(parts, f)
  BY ConcatRounds
<1>3. f[0] = <<>> /\ (\A k \in 1..n : f[k] = f[k - 1] \o parts[k]) /\ Concat(parts) = f[n]
  BY <1>2, ZenonT(30) DEF Rounds
<1> HIDE DEF n
<1> DEFINE holds == {k \in 0..n : Elems(f[k]) = UNION {Elems(parts[j]) : j \in 1..k}}
<1>4. 0 \in holds
  <2>1. 0 \in 0..n /\ Elems(f[0]) = {} /\ 1..0 = {}
    BY <1>1, <1>3 DEF Elems
  <2> QED
    BY <2>1
<1>5. ASSUME NEW k \in 1..n, k - 1 \in holds PROVE k \in holds
  <2>1. f[k - 1] \in Seq(S) /\ parts[k] \in Seq(S) /\ k \in 0..n
    BY <1>1
  <2>2. Elems(f[k]) = Elems(f[k - 1]) \cup Elems(parts[k])
    <3>1. f[k] = f[k - 1] \o parts[k]
      BY <1>3, ZenonT(30)
    <3> QED
      BY <2>1, <3>1, ElemsConcat
  <2>3. 1..k = (1..(k - 1)) \cup {k}
    OBVIOUS
  <2>4. Elems(f[k - 1]) = UNION {Elems(parts[j]) : j \in 1..(k - 1)}
    BY <1>5, ZenonT(30)
  <2>5. Elems(f[k]) = UNION {Elems(parts[j]) : j \in 1..k}
    BY <2>2, <2>3, <2>4
  <2> QED
    BY <2>1, <2>5, ZenonT(30)
<1>6. n \in 0..n
  BY <1>1
<1>7. n \in holds
  <2> HIDE DEF holds
  <2> QED
    BY ZenonT(30), <1>1, <1>4, <1>5, <1>6, LoopInduction
<1> QED
  BY ZenonT(30), <1>2, <1>3, <1>6, <1>7 DEF n

\* A loop whose rounds emit nothing or b effects emits b for each round of the second kind.
LEMMA LengthOfConcat ==
    ASSUME NEW S, NEW parts \in Seq(Seq(S)), NEW b \in {1, 2},
           \A k \in 1..Len(parts) : Len(parts[k]) \in {0, b}
    PROVE  Len(Concat(parts)) = b * Cardinality({k \in 1..Len(parts) : Len(parts[k]) = b})
<1> DEFINE n == Len(parts)
           T(m) == {k \in 1..m : Len(parts[k]) = b}
<1>1. n \in Nat /\ \A k \in 1..n : parts[k] \in Seq(S)
  OBVIOUS
<1>2. PICK f \in [0..n -> Seq(S)] : Rounds(parts, f)
  BY ConcatRounds
<1>3. f[0] = <<>> /\ (\A k \in 1..n : f[k] = f[k - 1] \o parts[k]) /\ Concat(parts) = f[n]
  BY <1>2, ZenonT(30) DEF Rounds
<1>0. \A k \in 1..n : Len(parts[k]) \in {0, b}
  OBVIOUS
<1> HIDE DEF n
<1> DEFINE holds == {k \in 0..n : IsFiniteSet(T(k)) /\ Len(f[k]) = b * Cardinality(T(k))}
<1>4. 0 \in holds
  <2>1. 0 \in 0..n /\ Len(f[0]) = 0 /\ T(0) = {}
    BY <1>1, <1>3
  <2> QED
    BY <2>1, FS_EmptySet
<1>5. ASSUME NEW k \in 1..n, k - 1 \in holds PROVE k \in holds
  <2>1. f[k - 1] \in Seq(S) /\ parts[k] \in Seq(S) /\ k \in 0..n
    BY <1>1
  <2>2. Len(f[k]) = Len(f[k - 1]) + Len(parts[k])
    <3>1. f[k] = f[k - 1] \o parts[k]
      BY <1>3, ZenonT(30)
    <3> QED
      BY <2>1, <3>1
  <2>3. IsFiniteSet(T(k - 1)) /\ Len(f[k - 1]) = b * Cardinality(T(k - 1))
    BY <1>5, ZenonT(30)
  <2>4. Cardinality(T(k - 1)) \in Nat
    <3> HIDE DEF T
    <3> QED
      BY <2>3, FS_CardinalityType
  <2>5. CASE Len(parts[k]) = 0
    <3>1. T(k) = T(k - 1)
      BY <2>5
    <3> HIDE DEF T
    <3>2. IsFiniteSet(T(k)) /\ Len(f[k]) = b * Cardinality(T(k))
      <4>1. Len(f[k - 1]) \in Nat
        BY <2>1
      <4> QED
        BY <4>1, <3>1, <2>2, <2>3, <2>5
    <3> QED
      BY <3>2, <2>1, ZenonT(30)
  <2>6. CASE Len(parts[k]) = b
    <3>1. T(k) = T(k - 1) \cup {k} /\ k \notin T(k - 1)
      BY <2>6
    <3> HIDE DEF T
    <3>2. IsFiniteSet(T(k)) /\ Cardinality(T(k)) = Cardinality(T(k - 1)) + 1
      BY <3>1, <2>3, FS_AddElement
    <3>3. Len(f[k]) = b * Cardinality(T(k))
      BY <3>2, <2>2, <2>3, <2>4, <2>6
    <3> QED
      BY <3>2, <3>3, <2>1, ZenonT(30)
  <2> QED
    BY <2>5, <2>6, <1>0
<1>6. n \in 0..n
  BY <1>1
<1>7. n \in holds
  <2> HIDE DEF holds
  <2> QED
    BY ZenonT(30), <1>1, <1>4, <1>5, <1>6, LoopInduction
<1> QED
  BY <1>3, <1>7 DEF n

\* A loop whose rounds emit nothing or one value, no value twice, repeats no value.
LEMMA DistinctConcat ==
    ASSUME NEW S, NEW parts \in Seq(Seq(S)),
           \A k \in 1..Len(parts) : Len(parts[k]) \in {0, 1},
           \A j, k \in 1..Len(parts) : Elems(parts[j]) \cap Elems(parts[k]) # {} => j = k
    PROVE  Distinct(Concat(parts))
<1> DEFINE n == Len(parts)
<1>0. /\ \A k \in 1..n : Len(parts[k]) \in {0, 1}
      /\ \A j, k \in 1..n : Elems(parts[j]) \cap Elems(parts[k]) # {} => j = k
  BY ZenonT(30)
<1>1. n \in Nat /\ \A k \in 1..n : parts[k] \in Seq(S)
  OBVIOUS
<1>2. PICK f \in [0..n -> Seq(S)] : Rounds(parts, f)
  BY ConcatRounds
<1>3. f[0] = <<>> /\ (\A k \in 1..n : f[k] = f[k - 1] \o parts[k]) /\ Concat(parts) = f[n]
  BY <1>2, ZenonT(30) DEF Rounds
<1> HIDE DEF n
<1> DEFINE holds == {k \in 0..n : /\ Distinct(f[k])
                                  /\ \A e \in Elems(f[k]) : \E j \in 1..k : e \in Elems(parts[j])}
<1>4. 0 \in holds
  <2>1. 0 \in 0..n /\ Len(f[0]) = 0 /\ Elems(f[0]) = {}
    BY <1>1, <1>3 DEF Elems
  <2>2. Distinct(f[0])
    BY <2>1 DEF Distinct
  <2> QED
    BY <2>1, <2>2
<1>5. ASSUME NEW k \in 1..n, k - 1 \in holds PROVE k \in holds
  <2> DEFINE a == f[k - 1]
             p == parts[k]
  <2>1. a \in Seq(S) /\ p \in Seq(S) /\ k \in 0..n
    BY <1>1
  <2>2. f[k] = a \o p
    BY <1>3, ZenonT(30)
  <2>3. Elems(f[k]) = Elems(a) \cup Elems(p)
    <3> HIDE DEF a, p
    <3> QED
      BY <2>1, <2>2, ElemsConcat
  <2>4. Distinct(a) /\ \A e \in Elems(a) : \E j \in 1..(k - 1) : e \in Elems(parts[j])
    BY <1>5, ZenonT(30)
  <2>5. \A e \in Elems(f[k]) : \E j \in 1..k : e \in Elems(parts[j])
    <3>1. k \in 1..k /\ \A j \in 1..(k - 1) : j \in 1..k
      OBVIOUS
    <3> QED
      BY <3>1, <2>3, <2>4, ZenonT(30)
  <2>6. \A e \in Elems(a) : e \notin Elems(p)
    <3>1. \A j \in 1..(k - 1) : j \in 1..n /\ j # k
      BY <1>1
    <3>2. \A j \in 1..(k - 1) : Elems(parts[j]) \cap Elems(p) = {}
      BY <3>1, <1>0, ZenonT(30)
    <3> HIDE DEF a, p
    <3> QED
      BY <3>2, <2>4
  <2>7. Len(p) \in {0, 1}
    BY <1>0
  <2> HIDE DEF a, p
  <2>8. Distinct(a \o p)
    <3>1. /\ Len(a) \in Nat /\ Len(a \o p) = Len(a) + Len(p)
          /\ \A i \in 1..Len(a) : (a \o p)[i] = a[i]
          /\ \A i \in 1..(Len(a) + Len(p)) :
                i \in 1..Len(a) \/ (i = Len(a) + 1 /\ Len(p) = 1 /\ (a \o p)[i] = p[1])
      BY <2>1, <2>7
    <3>2. \A i \in 1..Len(a) : Len(p) = 1 => a[i] # p[1]
      BY <2>1, <2>6 DEF Elems
    <3> QED
      BY <3>1, <3>2, <2>4 DEF Distinct
  <2> QED
    BY <2>1, <2>2, <2>5, <2>8, ZenonT(30)
<1>6. n \in 0..n
  BY <1>1
<1>7. n \in holds
  <2> HIDE DEF holds
  <2> QED
    BY ZenonT(30), <1>1, <1>4, <1>5, <1>6, LoopInduction
<1> QED
  BY <1>3, <1>7 DEF n

----------------------------------------------------------------------------
(* cascade_hold *)

\* The lists Chain::try_from is given: ids are not 0, which stands for no dependency.
Chains == Seq([id : Nat \ {0}, depends_on : Nat])
UniqueIds(entries) == \A i, j \in DOMAIN entries : entries[i].id = entries[j].id => i = j

\* The types of a chain's entries.
LEMMA ChainTypes ==
    ASSUME NEW entries \in Chains
    PROVE  /\ Len(entries) \in Nat /\ DOMAIN entries = 1..Len(entries)
           /\ \A i \in 1..Len(entries) : entries[i].id \in Nat /\ entries[i].id # None
<1>1. \A R : entries \in Seq(R) => /\ Len(entries) \in Nat /\ DOMAIN entries = 1..Len(entries)
                                  /\ \A i \in 1..Len(entries) : entries[i] \in R
  OBVIOUS
<1>2. \A e \in [id : Nat \ {0}, depends_on : Nat] : e.id \in Nat /\ e.id # None
  BY DEF None
<1> QED
  BY <1>1, <1>2, ZenonT(30) DEF Chains

\* One round of the walk finds the dependents of the holder that are new, each once.
LEMMA NewDependentsFound ==
    ASSUME NEW entries \in Chains, UniqueIds(entries), NEW q \in Seq(Nat), NEW holder \in Nat
    PROVE  /\ NewDependents(entries, q, holder) \in Seq(Nat)
           /\ Distinct(NewDependents(entries, q, holder))
           /\ \A d : d \in Elems(NewDependents(entries, q, holder)) <=>
                  /\ d \notin Elems(q)
                  /\ \E i \in 1..Len(entries) : /\ entries[i].depends_on = holder
                                                /\ entries[i].id = d
<1> DEFINE n == Len(entries)
           New(i) == entries[i].depends_on = holder /\ \A j \in DOMAIN q : q[j] # entries[i].id
           parts == [i \in DOMAIN entries |-> IF New(i) THEN <<entries[i].id>> ELSE <<>>]
<1>1. n \in Nat /\ DOMAIN entries = 1..n /\ \A i \in 1..n : entries[i].id \in Nat
  BY ChainTypes
<1>2. DOMAIN q = 1..Len(q)
  OBVIOUS
<1>3. parts \in Seq(Seq(Nat)) /\ Len(parts) = n
  <2> HIDE DEF New, n
  <2>1. \A i \in 1..n : (IF New(i) THEN <<entries[i].id>> ELSE <<>>) \in Seq(Nat)
    BY <1>1
  <2>2. parts \in [1..n -> Seq(Nat)]
    BY <1>1, <2>1, ZenonT(30)
  <2> HIDE DEF parts
  <2> QED
    BY <1>1, <2>2
<1>4. NewDependents(entries, q, holder) = Concat(parts)
  BY ZenonT(30) DEF NewDependents
<1>5. \A i \in 1..n : New(i) <=> entries[i].depends_on = holder /\ entries[i].id \notin Elems(q)
  <2>1. \A x : x \notin Elems(q) <=> \A j \in 1..Len(q) : q[j] # x
    BY ZenonT(30) DEF Elems
  <2> QED
    BY <1>2, <2>1, ZenonT(30)
<1>6. \A i \in 1..n : /\ Len(parts[i]) \in {0, 1}
                       /\ \A d : d \in Elems(parts[i]) <=> New(i) /\ d = entries[i].id
  <2> SUFFICES ASSUME NEW i \in 1..n
               PROVE  /\ Len(parts[i]) \in {0, 1}
                      /\ \A d : d \in Elems(parts[i]) <=> New(i) /\ d = entries[i].id
    BY ZenonT(30)
  <2> HIDE DEF New, n
  <2>1. CASE New(i)
    <3>1. parts[i] = <<entries[i].id>>
      BY <1>1, <2>1
    <3> HIDE DEF parts
    <3> QED
      BY <2>1, <3>1 DEF Elems
  <2>2. CASE ~New(i)
    <3>1. parts[i] = <<>>
      BY <1>1, <2>2
    <3> HIDE DEF parts
    <3> QED
      BY <2>2, <3>1 DEF Elems
  <2> QED
    BY ZenonT(30), <2>1, <2>2
<1> HIDE DEF parts, New, n
<1>7. Distinct(Concat(parts))
  <2>1. \A j, k \in 1..n : Elems(parts[j]) \cap Elems(parts[k]) # {} => j = k
    <3> SUFFICES ASSUME NEW j \in 1..n, NEW k \in 1..n, Elems(parts[j]) \cap Elems(parts[k]) # {}
                 PROVE  j = k
      BY ZenonT(30)
    <3>1. PICK d : d \in Elems(parts[j]) /\ d \in Elems(parts[k])
      OBVIOUS
    <3>2. entries[j].id = entries[k].id
      BY <3>1, <1>6, ZenonT(30)
    <3> QED
      BY <3>2, <1>1, ZenonT(30) DEF UniqueIds
  <2> QED
    BY ZenonT(30), <2>1, <1>3, <1>6, DistinctConcat
<1>8. Concat(parts) \in Seq(Nat) /\ Elems(Concat(parts)) = UNION {Elems(parts[k]) : k \in 1..n}
  BY ZenonT(30), <1>3, ElemsOfConcat
<1>9. ASSUME NEW d
      PROVE  d \in Elems(Concat(parts)) <=>
                  /\ d \notin Elems(q)
                  /\ \E i \in 1..n : entries[i].depends_on = holder /\ entries[i].id = d
  <2>1. d \in Elems(Concat(parts)) <=> \E i \in 1..n : d \in Elems(parts[i])
    BY <1>8, ZenonT(30)
  <2> QED
    BY <2>1, <1>5, <1>6, ZenonT(30)
<1> QED
  BY <1>4, <1>7, <1>8, <1>9, ZenonT(30) DEF n

\* The frontier after each round of the walk.
Visits(entries, root, v) ==
    /\ v[0] = <<root>>
    /\ \A k \in 1..Len(entries) :
         v[k] = IF k > Len(v[k - 1]) THEN v[k - 1]
                ELSE v[k - 1] \o NewDependents(entries, v[k - 1], v[k - 1][k])
    /\ Frontier(entries, root) = v[Len(entries)]

\* Frontier is its loop.
LEMMA FrontierRounds ==
    ASSUME NEW entries \in Chains, UniqueIds(entries), NEW root \in Nat
    PROVE  \E v \in [0..Len(entries) -> Seq(Nat)] : Visits(entries, root, v)
<1> DEFINE n == Len(entries)
           Round(q, k) == IF k > Len(q) THEN q ELSE q \o NewDependents(entries, q, q[k])
           Body(g) == [k \in 0..n |-> IF k = 0 THEN <<root>> ELSE Round(g[k - 1], k)]
           step == [p \in Seq(Nat) \X (1..n) |-> Round(p[1], p[2])]
<1>1. n \in Nat /\ <<root>> \in Seq(Nat)
  BY DEF Chains
<1>2. Frontier(entries, root) = (CHOOSE g : g = Body(g))[n]
  BY ZenonT(30) DEF Frontier
<1>3. \A q \in Seq(Nat), k \in 1..n : Round(q, k) \in Seq(Nat)
  <2> SUFFICES ASSUME NEW q \in Seq(Nat), NEW k \in 1..n PROVE Round(q, k) \in Seq(Nat)
    OBVIOUS
  <2>1. CASE k > Len(q)
    BY <2>1
  <2>2. CASE ~(k > Len(q))
    <3>1. q[k] \in Nat
      BY <1>1, <2>2
    <3>2. NewDependents(entries, q, q[k]) \in Seq(Nat)
      BY ZenonT(30), <3>1, NewDependentsFound
    <3> QED
      BY <3>2, <2>2
  <2> QED
    BY <2>1, <2>2
<1> HIDE DEF n, Round
<1>4. step \in [Seq(Nat) \X (1..n) -> Seq(Nat)]
  BY <1>3
<1>5. \A q \in Seq(Nat), k \in 1..n : step[<<q, k>>] = Round(q, k)
  OBVIOUS
<1> HIDE DEF step
<1>6. PICK g \in [0..n -> Seq(Nat)] : g[0] = <<root>> /\ \A k \in 1..n : g[k] = step[<<g[k - 1], k>>]
  <2>1. Runs(Seq(Nat), <<root>>, n, step)
    BY <1>1, <1>4, LoopExists, ZenonT(30)
  <2> QED
    BY <2>1, ZenonT(30) DEF Runs
<1>7. \A k \in 1..n : g[k] = Round(g[k - 1], k)
  <2>1. \A k \in 1..n : k - 1 \in 0..n
    BY <1>1
  <2> QED
    BY ZenonT(30), <2>1, <1>5, <1>6
<1>8. g = Body(g)
  <2>1. \A k \in 0..n : (k = 0 \/ k \in 1..n) /\ 0 \notin 1..n
    BY <1>1
  <2>2. \A k \in 0..n : g[k] = IF k = 0 THEN <<root>> ELSE Round(g[k - 1], k)
    BY <2>1, <1>6, <1>7, ZenonT(30)
  <2> QED
    BY <1>6, <2>2, ZenonT(30)
<1>9. PICK v : v = Body(v) /\ Frontier(entries, root) = v[n]
  BY ZenonT(30), <1>2, <1>8
<1>10. v[0] = <<root>> /\ \A k \in 1..n : v[k] = Round(v[k - 1], k)
  <2>1. \A k \in 0..n : v[k] = IF k = 0 THEN <<root>> ELSE Round(v[k - 1], k)
    BY <1>9, ZenonT(30)
  <2>2. 0 \in 0..n /\ \A k \in 1..n : k \in 0..n /\ k # 0
    BY <1>1
  <2> QED
    BY <2>1, <2>2, ZenonT(30)
<1>11. v \in [0..n -> Seq(Nat)]
  <2> DEFINE holds == {k \in 0..n : v[k] \in Seq(Nat)}
  <2>1. 0 \in holds
    <3>1. 0 \in 0..n
      BY <1>1
    <3> QED
      BY <3>1, <1>1, <1>10, ZenonT(30)
  <2>2. ASSUME NEW k \in 1..n, k - 1 \in holds PROVE k \in holds
    <3>1. v[k - 1] \in Seq(Nat) /\ v[k] = Round(v[k - 1], k)
      BY <1>10, <2>2, ZenonT(30)
    <3>2. k \in 0..n
      BY <1>1
    <3> QED
      BY <3>1, <3>2, <1>3, ZenonT(30)
  <2>3. \A k \in 0..n : k \in holds
    <3> HIDE DEF holds
    <3> QED
      BY ZenonT(30), <1>1, <2>1, <2>2, LoopInduction
  <2> QED
    BY <1>9, <2>3, ZenonT(30)
<1> QED
  BY <1>9, <1>10, <1>11, ZenonT(30) DEF Visits, n, Round

\* The components that depend on the root, with the root, are closed under dependents.
LEMMA DependentsOnClosed ==
    ASSUME NEW entries, NEW root \in IdsOf(entries)
    PROVE  /\ root \in DependentsOn(entries, root)
           /\ DependentsOn(entries, root) \subseteq IdsOf(entries)
           /\ ClosedUnderDependents(entries, DependentsOn(entries, root))
<1>1. /\ root \in DependentsOn(entries, root)
      /\ DependentsOn(entries, root) \subseteq IdsOf(entries)
  BY ZenonT(30) DEF DependentsOn
<1>2. ASSUME NEW i \in DOMAIN entries, entries[i].depends_on \in DependentsOn(entries, root)
      PROVE  entries[i].id \in DependentsOn(entries, root)
  <2>1. entries[i].id \in IdsOf(entries)
    BY ZenonT(30) DEF IdsOf
  <2>2. ASSUME NEW S \in SUBSET IdsOf(entries), root \in S, ClosedUnderDependents(entries, S)
        PROVE  entries[i].id \in S
    BY <1>2, <2>2, ZenonT(30) DEF DependentsOn, ClosedUnderDependents
  <2> QED
    BY <2>1, <2>2, ZenonT(30) DEF DependentsOn
<1> QED
  BY <1>1, <1>2, ZenonT(30) DEF ClosedUnderDependents

\* As many distinct ids as a sequence of them is long fit the chain: the N-entry
\* frontier of cascade_hold cannot overflow.
LEMMA DistinctFits ==
    ASSUME NEW entries \in Chains, NEW q \in Seq(IdsOf(entries)), Distinct(q)
    PROVE  Len(q) <= Len(entries)
<1> DEFINE n == Len(entries)
           m == Len(q)
           Id == IdsOf(entries)
           ids == [i \in 1..n |-> entries[i].id]
<1>1. n \in Nat /\ m \in Nat /\ DOMAIN entries = 1..n /\ q \in [1..m -> Id]
  BY ChainTypes
<1>2. IsFiniteSet(1..n) /\ Cardinality(1..n) = n /\ IsFiniteSet(1..m) /\ Cardinality(1..m) = m
  <2>1. \A k \in Nat : IsFiniteSet(1..k) /\ Cardinality(1..k) = k
    BY FS_Interval
  <2> QED
    BY <1>1, <2>1, ZenonT(30)
<1>3. ids \in Surjection(1..n, Id)
  BY <1>1 DEF Surjection, IdsOf
<1>4. IsFiniteSet(Id) /\ Cardinality(Id) <= n
  <2> HIDE DEF n, m, Id, ids
  <2> QED
    BY <1>2, <1>3, FS_Surjection
<1>5. q \in Injection(1..m, Id)
  <2>1. \A a, b \in 1..m : q[a] = q[b] => a = b
    BY DEF Distinct
  <2> HIDE DEF n, m, Id, ids
  <2> QED
    BY <1>1, <2>1, ZenonT(30) DEF Injection, IsInjective
<1>6. m <= Cardinality(Id)
  <2> HIDE DEF n, m, Id, ids
  <2> QED
    BY <1>2, <1>4, <1>5, FS_Injection
<1>7. Cardinality(Id) \in Nat
  <2> HIDE DEF Id
  <2> QED
    BY <1>4, FS_CardinalityType
<1> HIDE DEF n, m, Id
<1>8. m <= n
  BY <1>1, <1>4, <1>6, <1>7
<1> QED
  BY <1>8 DEF n, m

\* What is true of the frontier q after k rounds: it holds dependents of the root, the
\* root among them, each once, and with each of its first k all dependents of that one.
Visited(entries, root, q, k) ==
    /\ q \in Seq(IdsOf(entries))
    /\ root \in Elems(q)
    /\ Distinct(q)
    /\ Elems(q) \subseteq DependentsOn(entries, root)
    /\ \A j \in 1..Len(q) : j <= k =>
          \A i \in 1..Len(entries) :
              entries[i].depends_on = q[j] => entries[i].id \in Elems(q)

\* A round that visits a holder keeps it.
LEMMA VisitKeeps ==
    ASSUME NEW entries \in Chains, UniqueIds(entries), NEW root \in IdsOf(entries),
           NEW q, NEW k \in Nat \ {0}, k <= Len(q), Visited(entries, root, q, k - 1)
    PROVE  Visited(entries, root, q \o NewDependents(entries, q, q[k]), k)
<1> DEFINE Id == IdsOf(entries)
           n == Len(entries)
           D == DependentsOn(entries, root)
           d == NewDependents(entries, q, q[k])
           r == q \o d
<1>0. n \in Nat /\ DOMAIN entries = 1..n /\ \A i \in 1..n : entries[i].id \in Nat
  BY ChainTypes
<1>1. Id \subseteq Nat /\ \A i \in 1..n : entries[i].id \in Id
  BY <1>0, ZenonT(30) DEF IdsOf
<1>2. q \in Seq(Id) /\ Distinct(q) /\ root \in Elems(q) /\ Elems(q) \subseteq D
  BY ZenonT(30) DEF Visited
<1>3. \A j \in 1..Len(q) : j <= k - 1 =>
          \A i \in 1..n : entries[i].depends_on = q[j] => entries[i].id \in Elems(q)
  BY ZenonT(30) DEF Visited
<1>4. Len(q) \in Nat /\ k \in 1..Len(q) /\ q[k] \in Nat /\ q \in Seq(Nat) /\ q[k] \in Elems(q)
  <2>1. Len(q) \in Nat /\ k \in 1..Len(q)
    BY <1>2
  <2>2. q[k] \in Elems(q)
    BY <2>1, ZenonT(30) DEF Elems
  <2> HIDE DEF Id, D, d, r, n
  <2>3. \A i \in 1..Len(q) : q[i] \in Id
    BY <1>2
  <2>4. \A i \in 1..Len(q) : q[i] \in Nat
    BY ZenonT(30), <2>3, <1>1
  <2>5. q \in Seq(Nat)
    BY <2>4, <1>2
  <2> QED
    BY <2>1, <2>2, <2>4, <2>5
<1>5. /\ d \in Seq(Nat) /\ Distinct(d)
      /\ \A x : x \in Elems(d) <=>
            /\ x \notin Elems(q)
            /\ \E i \in 1..n : entries[i].depends_on = q[k] /\ entries[i].id = x
  BY ZenonT(30), <1>4, NewDependentsFound
<1>6. Elems(d) \subseteq Id /\ Elems(d) \subseteq D /\ Elems(d) \cap Elems(q) = {}
  <2>1. ClosedUnderDependents(entries, D)
    BY DependentsOnClosed
  <2> QED
    BY <2>1, <1>0, <1>1, <1>2, <1>4, <1>5, ZenonT(30) DEF ClosedUnderDependents
<1>7. d \in Seq(Id)
  <2> HIDE DEF Id, d
  <2>1. \A i \in 1..Len(d) : d[i] \in Id
    BY <1>6, ZenonT(30) DEF Elems
  <2> QED
    BY <1>5, <2>1
<1> HIDE DEF Id, D, d
<1>8. Elems(r) = Elems(q) \cup Elems(d)
  BY <1>2, <1>7, ElemsConcat
<1>9. r \in Seq(Id) /\ root \in Elems(r) /\ Elems(r) \subseteq D
  BY <1>2, <1>6, <1>7, <1>8
<1>10. /\ Len(q) \in Nat /\ Len(d) \in Nat /\ Len(r) = Len(q) + Len(d)
       /\ \A i \in 1..Len(q) : r[i] = q[i]
       /\ \A i \in 1..(Len(q) + Len(d)) :
             i \in 1..Len(q) \/ (i - Len(q) \in 1..Len(d) /\ r[i] = d[i - Len(q)])
  BY <1>2, <1>7
<1> HIDE DEF r
<1>11. Distinct(r)
  <2> SUFFICES ASSUME NEW i \in 1..Len(r), NEW j \in 1..Len(r), r[i] = r[j]
               PROVE  i = j
    BY DEF Distinct
  <2>1. \A a \in 1..Len(q), b \in 1..Len(d) : q[a] # d[b]
    <3>1. \A a \in 1..Len(q) : q[a] \in Elems(q)
      BY ZenonT(30) DEF Elems
    <3>2. \A b \in 1..Len(d) : d[b] \in Elems(d)
      BY ZenonT(30) DEF Elems
    <3> QED
      BY <3>1, <3>2, <1>6
  <2>2. CASE i \in 1..Len(q) /\ j \in 1..Len(q)
    BY <2>2, <1>2, <1>10, ZenonT(30) DEF Distinct
  <2>3. CASE i \in 1..Len(q) /\ j \notin 1..Len(q)
    BY ZenonT(30), <2>1, <2>3, <1>10
  <2>4. CASE i \notin 1..Len(q) /\ j \in 1..Len(q)
    BY <2>1, <2>4, <1>10
  <2>5. CASE i \notin 1..Len(q) /\ j \notin 1..Len(q)
    <3>1. i - Len(q) \in 1..Len(d) /\ j - Len(q) \in 1..Len(d) /\ d[i - Len(q)] = d[j - Len(q)]
      BY <2>5, <1>10
    <3>2. i - Len(q) = j - Len(q)
      BY <3>1, <1>5, ZenonT(30) DEF Distinct
    <3> QED
      BY <3>2, <1>10
  <2> QED
    BY <2>2, <2>3, <2>4, <2>5, ZenonT(30)
<1>12. ASSUME NEW j \in 1..Len(r), j <= k, NEW i \in 1..n, entries[i].depends_on = r[j]
       PROVE  entries[i].id \in Elems(r)
  <2>1. j \in 1..Len(q) /\ r[j] = q[j]
    <3>1. j \in Nat /\ 1 <= j
      BY <1>10, <1>12
    <3>2. j \in 1..Len(q)
      BY <1>4, <1>12, <3>1
    <3> QED
      BY ZenonT(30), <1>10, <3>2
  <2>2. CASE j = k
    <3>1. entries[i].id \in Elems(d) \/ entries[i].id \in Elems(q)
      BY <2>1, <2>2, <1>5, <1>12, ZenonT(30)
    <3> QED
      BY <3>1, <1>8
  <2>3. CASE j # k
    <3>1. j <= k - 1
      BY <2>3, <1>4, <1>12
    <3>2. entries[i].id \in Elems(q)
      BY <3>1, <2>1, <1>3, <1>12, ZenonT(30)
    <3> QED
      BY <3>2, <1>8
  <2> QED
    BY <2>2, <2>3
<1> QED
  BY <1>9, <1>11, <1>12, ZenonT(30) DEF Visited, n, r, d, Id, D

\* cascade_hold's breadth-first walk visits the root and everything that depends on it,
\* directly or through others, each once, for every chain whose ids are unique.  The
\* frontier never holds more ids than the chain has entries.
THEOREM CascadeVisitsDependents ==
    ASSUME NEW entries \in Chains, UniqueIds(entries), NEW root \in IdsOf(entries)
    PROVE  /\ Frontier(entries, root) \in Seq(IdsOf(entries))
           /\ Elems(Frontier(entries, root)) = DependentsOn(entries, root)
           /\ Distinct(Frontier(entries, root))
           /\ Len(Frontier(entries, root)) <= Len(entries)
<1> DEFINE n == Len(entries)
           Id == IdsOf(entries)
<1>0. n \in Nat /\ DOMAIN entries = 1..n /\ \A i \in 1..n : entries[i].id \in Nat
  BY ChainTypes
<1>1. root \in Nat
  BY <1>0, ZenonT(30) DEF IdsOf
<1>2. PICK v \in [0..n -> Seq(Nat)] : Visits(entries, root, v)
  BY <1>1, FrontierRounds
<1>3. /\ v[0] = <<root>>
      /\ \A k \in 1..n : v[k] = IF k > Len(v[k - 1]) THEN v[k - 1]
                               ELSE v[k - 1] \o NewDependents(entries, v[k - 1], v[k - 1][k])
      /\ Frontier(entries, root) = v[n]
  BY <1>2, ZenonT(30) DEF Visits
<1> HIDE DEF n, Id
<1> DEFINE holds == {k \in 0..n : Visited(entries, root, v[k], k)}
<1>4. 0 \in holds
  <2> DEFINE q == <<root>>
  <2>1. q \in Seq(Id) /\ Len(q) = 1 /\ q[1] = root
    BY DEF Id
  <2>2. Elems(q) = {root} /\ Distinct(q)
    BY <2>1 DEF Elems, Distinct
  <2>3. root \in DependentsOn(entries, root)
    BY DependentsOnClosed
  <2>4. \A j \in 1..Len(q) : ~(j <= 0)
    BY <2>1
  <2> HIDE DEF q
  <2>5. Visited(entries, root, q, 0)
    BY <2>1, <2>2, <2>3, <2>4, ZenonT(30) DEF Visited, Id
  <2>6. 0 \in 0..n
    BY <1>0
  <2> QED
    BY <2>5, <2>6, <1>3, ZenonT(30) DEF q
<1>5. ASSUME NEW k \in 1..n, k - 1 \in holds PROVE k \in holds
  <2>1. Visited(entries, root, v[k - 1], k - 1)
    BY <1>5, ZenonT(30)
  <2>2. k \in 0..n /\ k \in Nat \ {0} /\ Len(v[k - 1]) \in Nat
    BY <1>0
  <2>3. CASE k > Len(v[k - 1])
    <3>1. v[k] = v[k - 1]
      BY <2>3, <1>3
    <3>2. \A j \in 1..Len(v[k - 1]) : j <= k - 1
      BY <2>2, <2>3
    <3>3. Visited(entries, root, v[k], k)
      BY <2>1, <3>1, <3>2, ZenonT(30) DEF Visited
    <3> QED
      BY <3>3, <2>2, ZenonT(30)
  <2>4. CASE ~(k > Len(v[k - 1]))
    <3>1. v[k] = v[k - 1] \o NewDependents(entries, v[k - 1], v[k - 1][k])
      BY <2>4, <1>3, ZenonT(30)
    <3>2. k <= Len(v[k - 1])
      BY <2>2, <2>4
    <3>3. Visited(entries, root, v[k], k)
      BY <2>1, <2>2, <3>1, <3>2, VisitKeeps
    <3> QED
      BY <3>3, <2>2, ZenonT(30)
  <2> QED
    BY <2>3, <2>4
<1>6. n \in 0..n
  BY <1>0
<1>7. n \in holds
  <2> HIDE DEF holds
  <2> QED
    BY ZenonT(30), <1>0, <1>4, <1>5, <1>6, LoopInduction
<1> DEFINE q == Frontier(entries, root)
<1>8. Visited(entries, root, q, n)
  BY <1>3, <1>7, ZenonT(30)
<1> HIDE DEF q, holds
<1>9. q \in Seq(Id) /\ root \in Elems(q) /\ Distinct(q) /\ Elems(q) \subseteq DependentsOn(entries, root)
  BY <1>8, ZenonT(30) DEF Visited, Id
<1>10. Len(q) <= n /\ Len(q) \in Nat
  <2>1. Len(q) \in Nat
    BY <1>9
  <2> QED
    BY <2>1, <1>9, DistinctFits DEF n, Id
<1>11. ClosedUnderDependents(entries, Elems(q))
  <2>1. ASSUME NEW i \in 1..n, entries[i].depends_on \in Elems(q)
        PROVE  entries[i].id \in Elems(q)
    <3>1. PICK j \in 1..Len(q) : entries[i].depends_on = q[j]
      BY <2>1, ZenonT(30) DEF Elems
    <3>2. j <= n
      BY <1>0, <1>10
    <3> QED
      BY <3>1, <3>2, <1>8, ZenonT(30) DEF Visited, n
  <2> QED
    BY <2>1, <1>0, ZenonT(30) DEF ClosedUnderDependents
<1>12. Elems(q) \in SUBSET IdsOf(entries)
  <2>1. DependentsOn(entries, root) \subseteq IdsOf(entries)
    BY DependentsOnClosed
  <2> QED
    BY <2>1, <1>9
<1>13. DependentsOn(entries, root) \subseteq Elems(q)
  BY <1>9, <1>11, <1>12, ZenonT(30) DEF DependentsOn
<1>14. Elems(q) = DependentsOn(entries, root)
  BY ZenonT(30), <1>9, <1>13
<1> QED
  BY <1>9, <1>10, <1>14, ZenonT(30) DEF q, n, Id

----------------------------------------------------------------------------
(* Chain::try_from *)

\* Position is the place of an id, when the chain has it once.
LEMMA PositionIs ==
    ASSUME NEW entries \in Chains, NEW j \in 1..Len(entries),
           \A a, b \in 1..Len(entries) : entries[a].id = entries[b].id => a = b
    PROVE  Position(entries, entries[j].id) = j
<1>1. Len(entries) \in Nat /\ DOMAIN entries = 1..Len(entries)
  BY ChainTypes
<1> DEFINE P(i) == /\ entries[i].id = entries[j].id
                   /\ \A k \in 1..(i - 1) : entries[k].id # entries[j].id
<1>2. P(j)
  <2>1. \A k \in 1..(j - 1) : k \in 1..Len(entries) /\ k # j
    BY <1>1
  <2> QED
    BY <2>1, ZenonT(30)
<1>3. \A i \in 1..Len(entries) : P(i) => i = j
  BY ZenonT(30)
<1>4. Position(entries, entries[j].id) = CHOOSE i \in 1..Len(entries) : P(i)
  BY <1>1, ZenonT(30) DEF Position
<1> HIDE DEF P
<1> QED
  BY <1>2, <1>3, <1>4

\* Chain::try_from accepts exactly the lists whose ids are unique and whose every
\* dependency is an earlier entry, of 1 to 255 entries: the checks it makes one after
\* the other amount to the invariants its doc comment lists.
THEOREM AcceptedIffWellFormed ==
    ASSUME NEW entries \in Chains
    PROVE  TryFrom(entries) = Accepted <=> WellFormed(entries)
<1> DEFINE n == Len(entries)
           Uniq == \A i, j \in 1..n : entries[i].id = entries[j].id => i = j
           Earlier == \A i \in 1..n : entries[i].depends_on # None =>
                          \E j \in 1..(i - 1) : entries[j].id = entries[i].depends_on
<1>0. n \in Nat /\ DOMAIN entries = 1..n
  BY ChainTypes
<1>1. WellFormed(entries) <=> n \in 1..U8Max /\ Uniq /\ Earlier
  BY <1>0, ZenonT(30) DEF WellFormed
<1>2. DuplicateAt(entries) = {} <=> Uniq
  <2>1. DuplicateAt(entries) = {i \in 1..n : \E j \in 1..(i - 1) : entries[j].id = entries[i].id}
    BY <1>0, ZenonT(30) DEF DuplicateAt
  <2>2. ASSUME Uniq PROVE DuplicateAt(entries) = {}
    <3>1. \A i \in 1..n : \A j \in 1..(i - 1) : j \in 1..n /\ j # i
      BY <1>0
    <3> QED
      BY <2>1, <2>2, <3>1, ZenonT(30)
  <2>3. ASSUME DuplicateAt(entries) = {}, NEW i \in 1..n, NEW j \in 1..n,
               entries[i].id = entries[j].id
        PROVE  i = j
    <3>1. i = j \/ j \in 1..(i - 1) \/ i \in 1..(j - 1)
      BY <1>0
    <3> QED
      BY <3>1, <2>1, <2>3, ZenonT(30)
  <2> QED
    BY <2>2, <2>3, ZenonT(30)
<1>3. ASSUME Uniq PROVE UnknownAt(entries) \cup ForwardAt(entries) = {} <=> Earlier
  <2>1. ASSUME NEW i \in 1..n
        PROVE  (i \notin UnknownAt(entries) /\ i \notin ForwardAt(entries)) <=>
               (entries[i].depends_on # None =>
                   \E j \in 1..(i - 1) : entries[j].id = entries[i].depends_on)
    <3> DEFINE dep == entries[i].depends_on
    <3>1. i \in UnknownAt(entries) <=> dep \notin IdsOf(entries) /\ dep # None
      BY <1>0, <2>1, ZenonT(30) DEF UnknownAt
    <3>2. i \in ForwardAt(entries) <=> dep \in IdsOf(entries) /\ Position(entries, dep) >= i
      BY <1>0, <2>1, ZenonT(30) DEF ForwardAt
    <3>3. \A j \in 1..n : entries[j].id = dep => dep \in IdsOf(entries) /\ Position(entries, dep) = j
      <4>1. \A j \in 1..n : Position(entries, entries[j].id) = j
        BY <1>3, PositionIs
      <4> QED
        BY <4>1, <1>0, ZenonT(30) DEF IdsOf
    <3>4. dep \in IdsOf(entries) => \E j \in 1..n : entries[j].id = dep
      BY <1>0, ZenonT(30) DEF IdsOf
    <3>7. dep \in IdsOf(entries) => dep # None
      BY <3>4, ChainTypes
    <3>5. \A j \in 1..(i - 1) : j \in 1..n /\ ~(j >= i)
      BY <1>0
    <3>6. \A j \in 1..n : ~(j >= i) => j \in 1..(i - 1)
      BY <1>0
    <3>8. dep \in IdsOf(entries) /\ ~(Position(entries, dep) >= i)
            <=> \E j \in 1..(i - 1) : entries[j].id = dep
      BY <3>3, <3>4, <3>5, <3>6, ZenonT(30)
    <3> QED
      BY <3>1, <3>2, <3>7, <3>8, ZenonT(30)
  <2>2. \A i \in UnknownAt(entries) \cup ForwardAt(entries) : i \in 1..n
    BY <1>0, ZenonT(30) DEF UnknownAt, ForwardAt
  <2>3. UnknownAt(entries) \cup ForwardAt(entries) = {}
          <=> \A i \in 1..n : i \notin UnknownAt(entries) /\ i \notin ForwardAt(entries)
    BY <2>2, ZenonT(30)
  <2> QED
    BY <2>1, <2>3, ZenonT(30)
<1>4. entries = <<>> <=> n = 0
  BY DEF Chains
<1>5. TryFrom(entries) = Accepted <=>
          /\ entries # <<>> /\ ~(n > U8Max)
          /\ DuplicateAt(entries) = {}
          /\ UnknownAt(entries) \cup ForwardAt(entries) = {}
  <2>1. \A e, c : Rejection(e, c) = Accepted => e = "Ok"
    BY DEF Rejection, Accepted
  <2> DEFINE least(S) == CHOOSE i \in S : \A j \in S : i <= j
             bad == UnknownAt(entries) \cup ForwardAt(entries)
             i == least(bad)
             why == IF i \in UnknownAt(entries) THEN "UnknownDependency" ELSE "ForwardDependency"
  <2>2. why # "Ok"
    OBVIOUS
  <2>3. TryFrom(entries) =
           IF entries = <<>> THEN Rejection("Empty", None)
           ELSE IF n > U8Max THEN Rejection("TooLong", None)
           ELSE IF DuplicateAt(entries) # {}
                THEN Rejection("DuplicateId", entries[least(DuplicateAt(entries))].id)
           ELSE IF bad # {} THEN Rejection(why, entries[i].id)
           ELSE Accepted
    BY ZenonT(30) DEF TryFrom
  <2> HIDE DEF why, least, bad, i, n
  <2> QED
    BY <2>1, <2>2, <2>3 DEF bad
<1>6. n \in 1..U8Max <=> n # 0 /\ ~(n > U8Max)
  <2>1. \A m \in Nat : m \in 1..U8Max <=> m # 0 /\ ~(m > U8Max)
    BY DEF U8Max
  <2> QED
    BY <2>1, <1>0, ZenonT(30)
<1> QED
  BY <1>1, <1>2, <1>3, <1>4, <1>5, <1>6, ZenonT(30)

----------------------------------------------------------------------------
(* Both, of the machine that the run `chain` checks, with lists of any length *)

\* An answer is that of try_from, and a walk starts in an accepted chain.
ChainInv ==
    /\ listed \in Chains
    /\ admission.error # "Unknown" => admission = TryFrom(listed)
    /\ origin # None => /\ admission = Accepted
                        /\ origin \in IdsOf(listed)
                        /\ walked = Frontier(listed, origin)

\* A function on 1..n is a sequence.
LEMMA FunctionIsSeq ==
    ASSUME NEW R, NEW n \in Nat, NEW f \in [1..n -> R]
    PROVE  f \in Seq(R)
<1>1. f = [i \in 1..n |-> f[i]] /\ \A i \in 1..n : f[i] \in R
  BY ZenonT(30)
<1>2. [i \in 1..n |-> f[i]] \in Seq(R)
  BY <1>1
<1> QED
  BY ZenonT(30), <1>1, <1>2

\* The lists the machine starts from are chains.
LEMMA ChainInitInv == MCInit => ChainInv
<1> SUFFICES ASSUME MCInit PROVE ChainInv
  OBVIOUS
<1> DEFINE R == [id : Nat \ {0}, depends_on : Nat]
<1>0. MaxLen \in Nat /\ LongLen \in Nat
  BY LengthsAssumption
<1>1. /\ listed \in (UNION {[1..n -> Entry(MaxLen)] : n \in 0..MaxLen}) \cup LongChains
      /\ admission = Rejection("Unknown", None) /\ origin = None
  BY ZenonT(30) DEF MCInit
<1>2. ASSUME listed \in UNION {[1..n -> Entry(MaxLen)] : n \in 0..MaxLen}
      PROVE  listed \in Seq(R)
  <2>1. PICK n \in 0..MaxLen : listed \in [1..n -> Entry(MaxLen)]
    BY ZenonT(30), <1>2
  <2>2. n \in Nat /\ Entry(MaxLen) \subseteq R
    BY <1>0, <2>1 DEF Entry
  <2> HIDE DEF R
  <2>3. listed \in [1..n -> R]
    BY <2>1, <2>2
  <2> QED
    BY ZenonT(30), <2>2, <2>3, FunctionIsSeq
<1>3. ASSUME listed \in LongChains PROVE listed \in Seq(R)
  <2>1. PICK dep \in [1..LongLen -> 0..LongLen] :
           listed = [i \in 1..LongLen |-> [id |-> i, depends_on |-> dep[i]]]
    BY ZenonT(30), <1>3 DEF LongChains
  <2>2. \A i \in 1..LongLen : [id |-> i, depends_on |-> dep[i]] \in R
    BY <1>0, <2>1
  <2> HIDE DEF R
  <2>3. listed \in [1..LongLen -> R]
    BY <2>1, <2>2
  <2> QED
    BY ZenonT(30), <1>0, <2>3, FunctionIsSeq
<1>4. listed \in Chains
  BY ZenonT(30), <1>1, <1>2, <1>3 DEF Chains
<1>5. admission.error = "Unknown"
  BY <1>1 DEF Rejection
<1> QED
  BY ZenonT(30), <1>1, <1>4, <1>5 DEF ChainInv

\* A step of the machine keeps what an answer and a walk are.
LEMMA ChainNextInv == ChainInv /\ [MCNext]_mcvars => ChainInv'
<1> SUFFICES ASSUME ChainInv, [MCNext]_mcvars PROVE ChainInv'
  OBVIOUS
<1>1. CASE UNCHANGED mcvars
  BY ZenonT(30), <1>1 DEF mcvars, ChainInv
<1>2. CASE Validate
  <2>1. admission # Accepted
    BY <1>2 DEF Validate, Accepted, Rejection
  <2> QED
    BY ZenonT(30), <1>2, <2>1 DEF Validate, ChainInv
<1>3. CASE Cascade
  BY ZenonT(30), <1>3 DEF Cascade, ChainInv
<1> QED
  BY ZenonT(30), <1>1, <1>2, <1>3 DEF MCNext

\* The machine's invariant, for every MaxLen and LongLen.
LEMMA ChainInvariance == MCSpec => []ChainInv
BY ChainInitInv, ChainNextInv, PTL DEF MCSpec

\* Chain::try_from accepts exactly the lists its doc comment describes: AcceptsWellFormed,
\* for lists of any length over any ids.
THEOREM AcceptsWellFormedAlways == MCSpec => []AcceptsWellFormed
<1>1. ChainInv => AcceptsWellFormed
  BY ZenonT(30), AcceptedIffWellFormed DEF ChainInv, AcceptsWellFormed
<1> QED
  BY <1>1, ChainInvariance, PTL

\* cascade_hold visits exactly the transitive dependents of its root, each once, and its
\* frontier fits the chain's N entries: CascadeIsClosure, for accepted chains of any length.
THEOREM CascadeIsClosureAlways == MCSpec => []CascadeIsClosure
<1>1. ASSUME ChainInv, origin # None PROVE CascadeIsClosure
  <2>1. /\ listed \in Chains /\ origin \in IdsOf(listed) /\ walked = Frontier(listed, origin)
        /\ admission = Accepted
    BY ZenonT(30), <1>1 DEF ChainInv
  <2>2. admission.error # "Unknown"
    BY <2>1 DEF Accepted, Rejection
  <2>3. WellFormed(listed)
    BY ZenonT(30), <1>1, <2>1, <2>2, AcceptedIffWellFormed DEF ChainInv
  <2>4. UniqueIds(listed)
    BY ZenonT(30), <2>3 DEF WellFormed, UniqueIds
  <2>5. /\ walked \in Seq(IdsOf(listed)) /\ Distinct(walked)
        /\ Elems(walked) = DependentsOn(listed, origin) /\ Len(walked) <= Len(listed)
    BY ZenonT(30), <2>1, <2>4, CascadeVisitsDependents
  <2>6. DOMAIN walked = 1..Len(walked)
    BY <2>5
  <2> QED
    BY ZenonT(30), <2>5, <2>6 DEF CascadeIsClosure, Elems, Distinct
<1>2. ChainInv => CascadeIsClosure
  BY ZenonT(30), <1>1 DEF CascadeIsClosure
<1> QED
  BY <1>2, ChainInvariance, PTL

----------------------------------------------------------------------------
(***************************************************************************)
(* Machine-checked proofs about OrchestratorSM, for every chain that       *)
(* Chain::try_from accepts and every retry cap.                            *)
(***************************************************************************)

(***************************************************************************)
(* The inductive invariant.  No part is inductive alone: CursorNotIsolated *)
(* and ReadyMeansServed rest on WalkPrefix, which rests on FlagsConsistent *)
(* and on what advance_to_next_ungated returns.                            *)
(***************************************************************************)
IInv ==
    /\ TypeOK
    /\ CursorNotIsolated
    /\ FlagsConsistent
    /\ WalkPrefix
    /\ ReadyMeansServed
    /\ CascadeContained
    /\ CommitWindow

----------------------------------------------------------------------------
(* Lemmas about the helpers of Rot *)

\* advance_to_next_ungated lands on the first component from `start` on that
\* is not isolated, or on the sentinel when all of them are.
LEMMA NextUngatedIsFirst ==
    ASSUME NEW start \in 1..(N + 2), NEW iso \in SUBSET Comp
    PROVE  /\ NextUngated(start, iso) \in 1..(N + 1)
           /\ start <= N => NextUngated(start, iso) >= start
           /\ NextUngated(start, iso) \notin iso
           /\ \A j \in start..(NextUngated(start, iso) - 1) : j \in iso
<1> DEFINE next == NextUngated(start, iso)
<1>0. N \in 1..255
  BY ChainAssumption
<1>1. CASE \E i \in start..N : FirstUngated(i, start, iso)
  <2>1. next \in start..N /\ FirstUngated(next, start, iso)
    BY <1>1 DEF NextUngated
  <2> QED
    BY <1>0, <2>1 DEF FirstUngated
<1>2. CASE ~\E i \in start..N : FirstUngated(i, start, iso)
  <2>1. next = N + 1
    BY <1>2 DEF NextUngated
  <2> DEFINE T == {i \in start..N : i \notin iso}
  <2>2. T = {}
    <3>1. SUFFICES ASSUME T # {} PROVE FALSE
      OBVIOUS
    <3>2. T \subseteq Nat
      BY <1>0
    <3>3. PICK i \in T : \A j \in T : ~(<<j, i>> \in OpToRel(<, Nat))
      BY <3>1, <3>2, NatLessThanWellFounded, WFMin, ZenonT(30)
    <3>4. \A j \in T : ~(j < i)
      BY ZenonT(30), <3>2, <3>3 DEF OpToRel
    <3>5. FirstUngated(i, start, iso)
      BY <1>0, <3>4 DEF FirstUngated
    <3> QED
      BY <1>2, <3>5
  <2> QED
    BY <1>0, <2>1, <2>2 DEF Comp
<1> QED
  BY <1>1, <1>2

\* A dependent's dependents are the root's too: cascade_hold's set is closed.
LEMMA DependentsClosed ==
    /\ \A c \in Comp : c \in Dependents[c] /\ Dependents[c] \subseteq Comp
    /\ \A c \in Comp : \A d \in Dependents[c] : Dependents[d] \subseteq Dependents[c]
<1>1. IdsOf(Entries) = Comp
  BY DEF IdsOf, Entries
<1> QED
  BY <1>1 DEF Dependents, DependentsOn

\* Gating one component by its policy keeps every cascade contained.
LEMMA GatingContains ==
    ASSUME NEW c \in Comp, NEW iso \in SUBSET Comp, Gates(c),
           \A d \in iso : Policy[d] # "Isolable" => Dependents[d] \subseteq iso
    PROVE  /\ c \in GatedBy(c)
           /\ GatedBy(c) \subseteq Comp
           /\ \A d \in iso \cup GatedBy(c) :
                Policy[d] # "Isolable" => Dependents[d] \subseteq iso \cup GatedBy(c)
<1>1. Policy[c] \in {"Isolable", "Cascading"}
  BY ChainAssumption DEF Gates, Policies
<1>2. CASE Policy[c] = "Isolable"
  BY <1>2 DEF GatedBy
<1>3. CASE Policy[c] = "Cascading"
  BY <1>3, DependentsClosed DEF GatedBy
<1> QED
  BY <1>1, <1>2, <1>3

----------------------------------------------------------------------------
(* The entry actions and the shared handlers preserve the invariant *)

\* An event that only emits effects, or is dropped, keeps the invariant.
LEMMA ReportInv ==
    ASSUME IInv, NEW fx, Report(fx)
    PROVE  IInv'
BY DEF IInv, Report, TypeOK, CursorNotIsolated, FlagsConsistent, WalkPrefix,
       ReadyMeansServed, CascadeContained, CommitWindow

\* Entering Locked keeps the invariant.
LEMMA EnterLockedInv ==
    ASSUME IInv, EnterLocked
    PROVE  IInv'
BY ZenonT(30) DEF IInv, EnterLocked, TypeOK, CursorNotIsolated, FlagsConsistent, WalkPrefix,
       ReadyMeansServed, CascadeContained, CommitWindow, States, Walking, None

\* Entering Recovering for a component of the chain keeps the invariant.
LEMMA EnterRecoveringInv ==
    ASSUME IInv, NEW fx, NEW id \in Comp, EnterRecovering(fx, id)
    PROVE  IInv'
<1>1. TypeOK'
  BY ZenonT(30) DEF IInv, EnterRecovering, TypeOK, States
<1>2. FlagsConsistent'
  BY DEF IInv, EnterRecovering, FlagsConsistent
<1>3. (CursorNotIsolated /\ WalkPrefix /\ ReadyMeansServed /\ CommitWindow)'
  BY DEF EnterRecovering, CursorNotIsolated, WalkPrefix, ReadyMeansServed,
         CommitWindow, Walking
<1>4. CascadeContained'
  BY DEF IInv, EnterRecovering, CascadeContained
<1> QED
  BY <1>1, <1>2, <1>3, <1>4 DEF IInv

\* Entering PreSupervision quiesces what is live and starts the walk again
\* from the first component that is not isolated.
LEMMA EnterPreSupervisionInv ==
    ASSUME IInv, NEW fx, NEW iso \in SUBSET Comp, NEW live, NEW waits,
           waits \subseteq live,
           \A c \in iso : Policy[c] # "Isolable" => Dependents[c] \subseteq iso,
           pending_commit = FALSE,
           retry' \in [Comp -> 0..255],
           EnterPreSupervision(fx, iso, live, waits)
    PROVE  IInv'
<1>0. N \in 1..255
  BY ChainAssumption
<1>1. /\ cursor' \in 1..(N + 1)
      /\ cursor' \notin iso
      /\ \A j \in 1..(cursor' - 1) : j \in iso
  <2>1. cursor' = NextUngated(1, iso)
    BY ZenonT(30) DEF EnterPreSupervision
  <2>2. 1 \in 1..(N + 2)
    BY <1>0
  <2> QED
    BY ZenonT(30), <2>1, <2>2, NextUngatedIsFirst
<1>2. TypeOK'
  BY ZenonT(30), <1>1 DEF EnterPreSupervision, TypeOK, States
<1>3. (FlagsConsistent /\ CursorNotIsolated /\ ReadyMeansServed /\ CommitWindow)'
  BY <1>1 DEF EnterPreSupervision, FlagsConsistent, CursorNotIsolated,
              ReadyMeansServed, CommitWindow
<1>4. WalkPrefix'
  BY <1>0, <1>1 DEF EnterPreSupervision, WalkPrefix, Comp
<1>5. CascadeContained'
  BY DEF EnterPreSupervision, CascadeContained
<1> QED
  BY ZenonT(30), <1>2, <1>3, <1>4, <1>5 DEF IInv

\* Gating by policy outside the walk, handle_corruption.
LEMMA HandleCorruptionInv ==
    ASSUME IInv, NEW fx, NEW id \in Comp, state \notin Walking,
           HandleCorruption(fx, id)
    PROVE  IInv'
<1>1. CASE id \in isolated /\ Report(fx)
  BY <1>1, ReportInv
<1>2. CASE id \notin isolated /\ ~Gates(id) /\ EnterRecovering(fx, id)
  BY <1>2, EnterRecoveringInv
<1>3. CASE /\ id \notin isolated
           /\ Gates(id)
           /\ Hold(NewlyGated(id))
           /\ sink' = fx \o GateEffects(id)
           /\ UNCHANGED <<state, subject, cursor, retry, pending_commit>>
  <2>1. /\ isolated' = isolated \cup GatedBy(id)
        /\ isolated' \subseteq Comp
        /\ CascadeContained'
    BY <1>3, GatingContains DEF IInv, Hold, NewlyGated, CascadeContained, TypeOK
  <2>2. TypeOK'
    BY ZenonT(30), <1>3, <2>1 DEF IInv, Hold, TypeOK
  <2>3. (FlagsConsistent /\ ReadyMeansServed)'
    BY <1>3, <2>1 DEF IInv, Hold, FlagsConsistent, ReadyMeansServed
  <2>4. (CursorNotIsolated /\ WalkPrefix /\ CommitWindow)'
    BY <1>3 DEF IInv, CursorNotIsolated, WalkPrefix, CommitWindow
  <2> QED
    BY ZenonT(30), <2>1, <2>2, <2>3, <2>4 DEF IInv
<1> QED
  BY <1>1, <1>2, <1>3 DEF HandleCorruption

\* Gating by policy during the walk, handle_corruption_advancing: when the
\* component under verification is gated, the walk moves past it.
LEMMA HandleCorruptionAdvancingInv ==
    ASSUME IInv, NEW fx, NEW id \in Comp, state \in Walking,
           HandleCorruptionAdvancing(fx, id)
    PROVE  IInv'
<1> DEFINE gated == IF id \in isolated THEN {} ELSE NewlyGated(id)
           iso   == isolated \cup gated
           next  == NextUngated(cursor + 1, iso)
<1>0. N \in 1..255
  BY ChainAssumption
<1>1. CASE id \notin isolated /\ ~Gates(id) /\ EnterRecovering(fx, id)
  BY <1>1, EnterRecoveringInv
<1>2. ASSUME id \in isolated \/ Gates(id)
      PROVE  /\ iso \subseteq Comp
             /\ \A c \in iso : Policy[c] # "Isolable" => Dependents[c] \subseteq iso
  <2>1. CASE id \in isolated
    BY <2>1 DEF IInv, TypeOK, CascadeContained
  <2>2. CASE id \notin isolated
    <3>1. iso = isolated \cup GatedBy(id)
      BY <2>2 DEF NewlyGated
    <3> QED
      BY ZenonT(30), <1>2, <2>2, <3>1, GatingContains DEF IInv, TypeOK, CascadeContained
  <2> QED
    BY ZenonT(30), <2>1, <2>2
<1>3. CASE (id \in isolated \/ Gates(id)) /\ cursor \notin iso /\ HandleCorruption(fx, id)
  <2>1. CASE id \in isolated
    BY <1>3, <2>1, ReportInv DEF HandleCorruption
  <2>2. CASE id \notin isolated
    <3>1. /\ Hold(gated)
          /\ UNCHANGED <<state, subject, cursor, retry, pending_commit>>
      BY ZenonT(30), <1>3, <2>2 DEF HandleCorruption
    <3>2. isolated' = iso
      BY <3>1 DEF Hold
    <3>3. TypeOK' /\ CascadeContained'
      BY ZenonT(30), <1>2, <1>3, <3>1, <3>2 DEF IInv, Hold, TypeOK, CascadeContained
    <3>4. (CursorNotIsolated /\ FlagsConsistent /\ WalkPrefix)'
      BY <1>3, <3>1, <3>2 DEF IInv, Hold, CursorNotIsolated, FlagsConsistent, WalkPrefix
    <3>5. (ReadyMeansServed /\ CommitWindow)'
      BY <3>1 DEF IInv, ReadyMeansServed, CommitWindow, Walking
    <3> QED
      BY ZenonT(30), <3>3, <3>4, <3>5 DEF IInv
  <2> QED
    BY <2>1, <2>2
<1>4. CASE /\ id \in isolated \/ Gates(id)
           /\ cursor \in iso
           /\ Hold(gated)
           /\ cursor' = next
           /\ UNCHANGED pending_commit
           /\ IF next \in Comp THEN UNCHANGED <<state, subject, retry>> ELSE EnterReady
  <2>1. isolated' = iso /\ released' = released \ gated
    BY ZenonT(30), <1>4 DEF Hold
  <2>2. cursor \in 1..N /\ cursor + 1 \in 1..(N + 2)
    BY <1>0, <1>2, <1>4 DEF Comp
  <2>3. /\ next \in 1..(N + 1)
        /\ next > cursor
        /\ next \notin iso
        /\ \A j \in (cursor + 1)..(next - 1) : j \in iso
    <3>1. /\ next \in 1..(N + 1)
          /\ cursor + 1 <= N => next >= cursor + 1
          /\ next \notin iso
          /\ \A j \in (cursor + 1)..(next - 1) : j \in iso
      BY <1>2, <1>4, <2>2, NextUngatedIsFirst
    <3>2. next > cursor
      <4>1. CASE cursor + 1 <= N
        BY <1>0, <2>2, <3>1, <4>1
      <4>2. CASE cursor = N
        <5>1. next = N + 1
          BY <1>0, <4>2 DEF NextUngated
        <5> QED
          BY <1>0, <4>2, <5>1
      <4> QED
        BY <1>0, <2>2, <4>1, <4>2
    <3> QED
      BY ZenonT(30), <3>1, <3>2
  <2>4. released = {c \in Comp : c < cursor} \ isolated
    BY DEF IInv, WalkPrefix
  <2>5. released' = {c \in Comp : c < next} \ iso
    <3>1. {c \in Comp : c < next} \ iso = {c \in Comp : c < cursor} \ iso
      BY <1>0, <1>4, <2>2, <2>3 DEF Comp
    <3> QED
      BY ZenonT(30), <2>1, <2>4, <3>1
  <2>6. (FlagsConsistent /\ CascadeContained)'
    BY <1>2, <1>4, <2>1 DEF IInv, Hold, FlagsConsistent, CascadeContained
  <2>7. pending_commit' = FALSE
    BY <1>4 DEF IInv, TypeOK, CommitWindow, Walking
  <2>8. CASE next \in Comp
    <3>1. UNCHANGED <<state, subject, retry>>
      BY <1>4, <2>8
    <3>2. TypeOK'
      BY ZenonT(30), <1>2, <1>4, <2>1, <2>3, <3>1 DEF IInv, Hold, TypeOK
    <3>3. (CursorNotIsolated /\ WalkPrefix /\ ReadyMeansServed /\ CommitWindow)'
      BY ZenonT(30), <1>4, <2>1, <2>3, <2>5, <2>7, <3>1
      DEF IInv, CursorNotIsolated, WalkPrefix, ReadyMeansServed, CommitWindow, Walking
    <3> QED
      BY ZenonT(30), <2>6, <3>2, <3>3 DEF IInv
  <2>9. CASE next \notin Comp
    <3>1. EnterReady /\ next = N + 1
      BY <1>0, <1>4, <2>3, <2>9 DEF Comp
    <3>2. TypeOK'
      <4>1. retry' \in [Comp -> 0..255]
        BY <3>1 DEF EnterReady
      <4>2. isolated' \subseteq Comp /\ released' \subseteq Comp /\ awaiting_boot' \subseteq Comp
        BY ZenonT(30), <1>2, <1>4, <2>1 DEF IInv, Hold, TypeOK
      <4>3. /\ state' = "Ready" /\ subject' = None
            /\ cursor' \in 1..(N + 1)
        BY <1>4, <2>3, <3>1 DEF EnterReady
      <4> QED
        BY ZenonT(30), <2>7, <4>1, <4>2, <4>3 DEF TypeOK, States
    <3>3. released' \cup isolated' = Comp
      <4>1. {c \in Comp : c < next} = Comp
        BY <1>0, <3>1 DEF Comp
      <4>2. iso \subseteq Comp
        BY <1>2, <1>4
      <4> QED
        BY <2>1, <2>5, <4>1, <4>2
    <3>4. (CursorNotIsolated /\ WalkPrefix /\ ReadyMeansServed /\ CommitWindow)'
      BY <2>7, <3>1, <3>3 DEF EnterReady, CursorNotIsolated, WalkPrefix,
                              ReadyMeansServed, CommitWindow, Walking
    <3> QED
      BY <2>6, <3>2, <3>4 DEF IInv
  <2> QED
    BY ZenonT(30), <2>8, <2>9
<1> QED
  BY ZenonT(30), <1>1, <1>3, <1>4 DEF HandleCorruptionAdvancing

\* exhaust_recovery: gate the failed component and walk again, or announce
\* that a Required one is beyond recovery.
LEMMA ExhaustRecoveryInv ==
    ASSUME IInv, state = "Recovering", NEW rt \in [Comp -> 0..255],
           ExhaustRecovery(subject, rt)
    PROVE  IInv'
<1>1. subject \in Comp /\ pending_commit = FALSE
  BY DEF IInv, TypeOK, CommitWindow
<1>2. CASE /\ Gates(subject)
           /\ retry' = [rt EXCEPT ![subject] = 0]
           /\ EnterPreSupervision(GateEffects(subject), isolated \cup NewlyGated(subject),
                                  released \ NewlyGated(subject),
                                  awaiting_boot \ NewlyGated(subject))
  <2>1. retry' \in [Comp -> 0..255]
    BY <1>1, <1>2
  <2>2. isolated \cup NewlyGated(subject) = isolated \cup GatedBy(subject)
    BY DEF NewlyGated
  <2>3. /\ isolated \cup NewlyGated(subject) \in SUBSET Comp
        /\ \A c \in isolated \cup NewlyGated(subject) :
              Policy[c] # "Isolable"
                => Dependents[c] \subseteq isolated \cup NewlyGated(subject)
    BY ZenonT(30), <1>1, <1>2, <2>2, GatingContains DEF IInv, TypeOK, CascadeContained
  <2>4. awaiting_boot \ NewlyGated(subject) \subseteq released \ NewlyGated(subject)
    BY ZenonT(30) DEF IInv, FlagsConsistent
  <2> QED
    BY ZenonT(30), <1>1, <1>2, <2>1, <2>3, <2>4, EnterPreSupervisionInv
<1>3. CASE /\ retry' = rt
           /\ UNCHANGED <<state, subject, cursor, isolated, released, awaiting_boot,
                          pending_commit>>
  BY <1>3 DEF IInv, TypeOK, CursorNotIsolated, FlagsConsistent, WalkPrefix,
              ReadyMeansServed, CascadeContained, CommitWindow
<1> QED
  BY <1>2, <1>3 DEF ExhaustRecovery

\* Releasing the component under verification and moving on: the walk goes on
\* as a walk, or the chain is done and the machine enters Ready.
LEMMA ReleaseCursorInv ==
    ASSUME IInv, state \in Walking, cursor \in Comp, ReleaseCursor,
           \/ /\ cursor' \notin Comp
              /\ EnterReady
           \/ /\ cursor' \in Comp
              /\ state' = "AwaitingReady" \/ UNCHANGED state
              /\ subject' = subject \/ (subject' = cursor /\ state' = "AwaitingReady")
              /\ retry' = [retry EXCEPT ![cursor] = 0]
    PROVE  IInv'
<1> DEFINE next == NextUngated(cursor + 1, isolated)
<1>0. N \in 1..255 /\ cursor \in 1..N /\ cursor + 1 \in 1..(N + 2)
  BY ChainAssumption DEF Comp
<1>1. /\ cursor' = next
      /\ next \in 1..(N + 1)
      /\ cursor + 1 <= N => next >= cursor + 1
      /\ next \notin isolated
      /\ \A j \in (cursor + 1)..(next - 1) : j \in isolated
  BY <1>0, NextUngatedIsFirst DEF ReleaseCursor, IInv, TypeOK
<1>2. next > cursor
  <2>1. CASE cursor + 1 <= N
    BY <1>0, <1>1, <2>1
  <2>2. CASE cursor = N
    <3>1. next = N + 1
      BY <1>0, <2>2 DEF NextUngated
    <3> QED
      BY <1>0, <2>2, <3>1
  <2> QED
    BY <1>0, <2>1, <2>2
<1>3. cursor \notin isolated /\ released = {c \in Comp : c < cursor} \ isolated
  BY DEF IInv, CursorNotIsolated, WalkPrefix
<1>4. released' = {c \in Comp : c < next} \ isolated
  <2>1. {c \in Comp : c < next} \ isolated
          = ({c \in Comp : c < cursor} \cup {cursor}) \ isolated
    BY <1>0, <1>1, <1>2 DEF Comp
  <2> QED
    BY ZenonT(30), <1>3, <2>1 DEF ReleaseCursor
<1>5. pending_commit' = FALSE
  BY ZenonT(30) DEF ReleaseCursor, IInv, TypeOK, CommitWindow, Walking
<1>6. /\ isolated' = isolated
      /\ isolated' \subseteq Comp /\ released' \subseteq Comp
      /\ awaiting_boot' \subseteq Comp
      /\ FlagsConsistent' /\ CascadeContained'
  BY <1>3 DEF ReleaseCursor, IInv, TypeOK, FlagsConsistent, CascadeContained
<1>7. CASE cursor' \notin Comp /\ EnterReady
  <2>1. TypeOK'
    <3>1. retry' \in [Comp -> 0..255]
      BY <1>7 DEF EnterReady
    <3>2. state' = "Ready" /\ subject' = None
      BY <1>7 DEF EnterReady
    <3> QED
      BY ZenonT(30), <1>1, <1>5, <1>6, <3>1, <3>2 DEF TypeOK, States
  <2>2. next = N + 1
    BY <1>0, <1>1, <1>7 DEF Comp
  <2>3. released' \cup isolated' = Comp
    <3>1. {c \in Comp : c < next} = Comp
      BY <1>0, <2>2 DEF Comp
    <3> QED
      BY ZenonT(30), <1>4, <1>6, <3>1
  <2>4. (CursorNotIsolated /\ WalkPrefix /\ ReadyMeansServed /\ CommitWindow)'
    BY <1>5, <1>7, <2>3 DEF EnterReady, CursorNotIsolated, WalkPrefix,
                            ReadyMeansServed, CommitWindow, Walking
  <2> QED
    BY <1>6, <2>1, <2>4 DEF IInv
<1>8. CASE /\ cursor' \in Comp
           /\ state' = "AwaitingReady" \/ UNCHANGED state
           /\ subject' = subject \/ (subject' = cursor /\ state' = "AwaitingReady")
           /\ retry' = [retry EXCEPT ![cursor] = 0]
  <2>1. state' \in Walking
    BY <1>8 DEF Walking
  <2>2. retry' \in [Comp -> 0..255]
    BY <1>8 DEF IInv, TypeOK
  <2>3. TypeOK'
    BY ZenonT(30), <1>1, <1>5, <1>6, <1>8, <2>1, <2>2 DEF IInv, TypeOK, States, Walking
  <2>4. (CursorNotIsolated /\ WalkPrefix /\ ReadyMeansServed /\ CommitWindow)'
    BY ZenonT(30), <1>1, <1>4, <1>5, <1>6, <2>1 DEF CursorNotIsolated, WalkPrefix,
                                        ReadyMeansServed, CommitWindow, Walking
  <2> QED
    BY <1>6, <2>3, <2>4 DEF IInv
<1> QED
  BY <1>7, <1>8

\* A boot-progress signal clears the component's flag and nothing else.
LEMMA ClearAwaitingBootInv ==
    ASSUME IInv, NEW id, ClearAwaitingBoot(id), UNCHANGED <<state, subject>>
    PROVE  IInv'
BY ZenonT(30) DEF IInv, ClearAwaitingBoot, TypeOK, CursorNotIsolated, FlagsConsistent, WalkPrefix,
       ReadyMeansServed, CascadeContained, CommitWindow

\* Leaving Updating for Ready, with the commit window opened or not.
LEMMA UpdatingToReadyInv ==
    ASSUME IInv, state = "Updating", EnterReady, pending_commit' \in BOOLEAN,
           UNCHANGED <<cursor, isolated, released, awaiting_boot>>
    PROVE  IInv'
<1>1. retry' \in [Comp -> 0..255]
  BY DEF EnterReady
<1>2. state' = "Ready" /\ subject' = None
  BY DEF EnterReady
<1>3. TypeOK'
  BY <1>1, <1>2 DEF IInv, TypeOK, States
<1> QED
  BY <1>2, <1>3 DEF IInv, CursorNotIsolated, FlagsConsistent, WalkPrefix,
                    ReadyMeansServed, CascadeContained, CommitWindow, Walking

----------------------------------------------------------------------------
(* Each arm of `handle` and of `handle_supervising` preserves the invariant *)

\* The arms of the two states that are not supervised.
LEMMA UnsupervisedArmsInv ==
    ASSUME IInv, NEW ev, InChain(ev),
           \/ PowerGood(ev)
           \/ UnsupervisedEffectFailed(ev)
           \/ PreSupervisionVerificationPassed(ev)
           \/ PreSupervisionVerificationFailed(ev)
           \/ PreSupervisionCorruptionDetected(ev)
           \/ PreSupervisionBooted(ev)
           \/ PreSupervisionTimeout(ev)
           \/ PreSupervisionBootFailed(ev)
    PROVE  IInv'
<1>1. CASE PowerGood(ev)
  <2>1. CASE EnterLocked
    BY <2>1, EnterLockedInv
  <2>2. CASE EnterPreSupervision(<<>>, isolated, released, awaiting_boot) /\ UNCHANGED retry
    <3>1. /\ isolated \in SUBSET Comp
          /\ awaiting_boot \subseteq released
          /\ \A c \in isolated : Policy[c] # "Isolable" => Dependents[c] \subseteq isolated
          /\ pending_commit = FALSE
          /\ retry' \in [Comp -> 0..255]
      BY ZenonT(30), <1>1, <2>2 DEF IInv, TypeOK, FlagsConsistent, CascadeContained, CommitWindow,
                        PowerGood
    <3> QED
      BY ZenonT(30), <2>2, <3>1, EnterPreSupervisionInv
  <2> QED
    BY <1>1, <2>1, <2>2 DEF PowerGood
<1>2. CASE UnsupervisedEffectFailed(ev)
  BY ZenonT(30), <1>2, EnterLockedInv DEF UnsupervisedEffectFailed
<1>3. CASE PreSupervisionVerificationPassed(ev)
  <2>1. CASE Drop
    BY <2>1, ReportInv DEF Drop
  <2>2. CASE ev.id = cursor /\ ~Drop
    <3>1. state \in Walking /\ cursor \in Comp /\ ReleaseCursor
      BY ZenonT(30), <1>3, <2>2 DEF PreSupervisionVerificationPassed, InChain, ComponentEvents, Walking
    <3>2. \/ /\ cursor' \notin Comp
             /\ EnterReady
          \/ /\ cursor' \in Comp
             /\ state' = "AwaitingReady" \/ UNCHANGED state
             /\ subject' = subject \/ (subject' = cursor /\ state' = "AwaitingReady")
             /\ retry' = [retry EXCEPT ![cursor] = 0]
      BY ZenonT(30), <1>3, <2>2 DEF PreSupervisionVerificationPassed
    <3> QED
      BY ZenonT(30), <3>1, <3>2, ReleaseCursorInv
  <2> QED
    BY <1>3, <2>1, <2>2 DEF PreSupervisionVerificationPassed
<1>4. CASE PreSupervisionVerificationFailed(ev)
  <2>1. ev.id \in Comp
    BY <1>4 DEF PreSupervisionVerificationFailed, InChain, ComponentEvents
  <2> QED
    BY ZenonT(30), <1>4, <2>1, ReportInv, EnterRecoveringInv DEF PreSupervisionVerificationFailed, Drop
<1>5. CASE PreSupervisionCorruptionDetected(ev)
  <2>1. ev.id \in Comp /\ state \in Walking
    BY <1>5 DEF PreSupervisionCorruptionDetected, InChain, ComponentEvents, Walking
  <2> QED
    BY ZenonT(30), <1>5, <2>1, HandleCorruptionAdvancingInv DEF PreSupervisionCorruptionDetected
<1>6. CASE PreSupervisionBooted(ev)
  BY ZenonT(30), <1>6, ClearAwaitingBootInv DEF PreSupervisionBooted
<1>7. CASE PreSupervisionTimeout(ev)
  <2>1. ev.id \in Comp
    BY <1>7 DEF PreSupervisionTimeout, InChain, ComponentEvents
  <2> QED
    BY ZenonT(30), <1>7, <2>1, ReportInv, EnterRecoveringInv DEF PreSupervisionTimeout, Drop
<1>8. CASE PreSupervisionBootFailed(ev)
  <2> DEFINE report == <<Fx("ReportBootFailed", ev.id)>>
  <2>1. ev.id \in Comp /\ state \in Walking
    BY <1>8 DEF PreSupervisionBootFailed, InChain, Walking
  <2>2. \/ Drop
        \/ HandleCorruptionAdvancing(report, ev.id)
        \/ EnterRecovering(report, ev.id)
    BY <1>8 DEF PreSupervisionBootFailed
  <2> HIDE DEF report
  <2> QED
    BY ZenonT(30), <2>1, <2>2, ReportInv, HandleCorruptionAdvancingInv, EnterRecoveringInv DEF Drop
<1> QED
  BY ZenonT(30), <1>1, <1>2, <1>3, <1>4, <1>5, <1>6, <1>7, <1>8

\* The arms of AwaitingReady.
LEMMA AwaitingReadyArmsInv ==
    ASSUME IInv, NEW ev, InChain(ev),
           \/ AwaitingReadyComponentReady(ev)
           \/ AwaitingReadyVerificationPassed(ev)
           \/ AwaitingReadyVerificationFailed(ev)
           \/ AwaitingReadyCorruptionDetected(ev)
           \/ AwaitingReadyBootFailed(ev)
    PROVE  IInv'
<1>0. N \in 1..255
  BY ChainAssumption
<1>1. CASE AwaitingReadyComponentReady(ev)
  <2>1. /\ state = "AwaitingReady"
        /\ awaiting_boot' = awaiting_boot \ {ev.id}
        /\ UNCHANGED <<cursor, isolated, released, pending_commit>>
    BY ZenonT(30), <1>1 DEF AwaitingReadyComponentReady
  <2>2. (FlagsConsistent /\ CascadeContained)'
    BY <2>1 DEF IInv, FlagsConsistent, CascadeContained
  <2>3. pending_commit' = FALSE
    BY <2>1 DEF IInv, TypeOK, CommitWindow
  <2>4. CASE cursor > N /\ EnterReady
    <3>1. released' \cup isolated' = Comp
      <4>1. {c \in Comp : c < cursor} = Comp
        BY <1>0, <2>4 DEF IInv, TypeOK, Comp
      <4> QED
        BY ZenonT(30), <2>1, <4>1 DEF IInv, TypeOK, WalkPrefix, Walking
    <3>2. retry' \in [Comp -> 0..255]
      BY <2>4 DEF EnterReady
    <3>3. state' = "Ready" /\ subject' = None
      BY <2>4 DEF EnterReady
    <3>4. TypeOK'
      BY ZenonT(30), <2>1, <3>2, <3>3 DEF IInv, TypeOK, States
    <3> QED
      BY ZenonT(30), <2>2, <2>3, <3>1, <3>3, <3>4
      DEF IInv, CursorNotIsolated, WalkPrefix, ReadyMeansServed, CommitWindow, Walking
  <2>5. CASE state' = state /\ subject' \in {subject, None} /\ retry' = retry
    <3>1. TypeOK'
      BY ZenonT(30), <2>1, <2>5 DEF IInv, TypeOK
    <3> QED
      BY <2>1, <2>2, <2>3, <2>5, <3>1
      DEF IInv, CursorNotIsolated, WalkPrefix, ReadyMeansServed, CommitWindow
  <2> QED
    BY <1>1, <2>4, <2>5 DEF AwaitingReadyComponentReady
<1>2. CASE AwaitingReadyVerificationPassed(ev)
  <2>1. CASE Drop
    BY ZenonT(30), <2>1, ReportInv DEF Drop
  <2>2. CASE ev.id = cursor /\ ~Drop
    <3>1. state \in Walking /\ cursor \in Comp /\ ReleaseCursor
      BY ZenonT(30), <1>2, <2>2 DEF AwaitingReadyVerificationPassed, InChain, ComponentEvents, Walking
    <3>2. \/ /\ cursor' \notin Comp
             /\ EnterReady
          \/ /\ cursor' \in Comp
             /\ state' = "AwaitingReady" \/ UNCHANGED state
             /\ subject' = subject \/ (subject' = cursor /\ state' = "AwaitingReady")
             /\ retry' = [retry EXCEPT ![cursor] = 0]
      BY <1>2, <2>2 DEF AwaitingReadyVerificationPassed
    <3> QED
      BY ZenonT(30), <3>1, <3>2, ReleaseCursorInv
  <2> QED
    BY <1>2, <2>1, <2>2 DEF AwaitingReadyVerificationPassed
<1>3. CASE AwaitingReadyVerificationFailed(ev)
  <2>1. ev.id \in Comp
    BY <1>3 DEF AwaitingReadyVerificationFailed, InChain, ComponentEvents
  <2> QED
    BY <1>3, <2>1, ReportInv, EnterRecoveringInv DEF AwaitingReadyVerificationFailed, Drop
<1>4. CASE AwaitingReadyCorruptionDetected(ev)
  <2>1. ev.id \in Comp /\ state \in Walking
    BY <1>4 DEF AwaitingReadyCorruptionDetected, InChain, ComponentEvents, Walking
  <2> QED
    BY <1>4, <2>1, HandleCorruptionAdvancingInv DEF AwaitingReadyCorruptionDetected
<1>5. CASE AwaitingReadyBootFailed(ev)
  <2>1. ev.id \in Comp /\ state \in Walking
    BY ZenonT(30), <1>5 DEF AwaitingReadyBootFailed, FatalBootFailure, InChain, Walking
  <2> QED
    BY <1>5, <2>1, HandleCorruptionAdvancingInv DEF AwaitingReadyBootFailed
<1> QED
  BY <1>1, <1>2, <1>3, <1>4, <1>5

\* The arms of Ready, Updating and Recovering.
LEMMA ServiceArmsInv ==
    ASSUME IInv, NEW ev, InChain(ev),
           \/ ReadyUpdateRequest(ev)
           \/ ReadyBootConfirmed(ev)
           \/ ReadyCommitTimeout(ev)
           \/ UpdatingVerified(ev)
           \/ UpdatingRejected(ev)
           \/ UpdatingCorruptionDetected(ev)
           \/ RecoveringRestored(ev)
           \/ RecoveringUnavailable(ev)
           \/ RecoveringFailed(ev)
    PROVE  IInv'
<1>1. CASE ReadyUpdateRequest(ev)
  BY ZenonT(30), <1>1 DEF ReadyUpdateRequest, IInv, TypeOK, CursorNotIsolated, FlagsConsistent,
              WalkPrefix, ReadyMeansServed, CascadeContained, CommitWindow, States, Walking
<1>2. CASE ReadyBootConfirmed(ev)
  BY ZenonT(30), <1>2 DEF ReadyBootConfirmed, IInv, TypeOK, CursorNotIsolated, FlagsConsistent,
              WalkPrefix, ReadyMeansServed, CascadeContained, CommitWindow
<1>3. CASE ReadyCommitTimeout(ev)
  BY ZenonT(30), <1>3, EnterLockedInv, ReportInv DEF ReadyCommitTimeout, Drop
<1>4. CASE UpdatingVerified(ev)
  BY <1>4, UpdatingToReadyInv DEF UpdatingVerified
<1>5. CASE UpdatingRejected(ev)
  <2>1. pending_commit' \in BOOLEAN
    BY <1>5 DEF UpdatingRejected, IInv, TypeOK
  <2> QED
    BY <1>5, <2>1, UpdatingToReadyInv DEF UpdatingRejected
<1>6. CASE UpdatingCorruptionDetected(ev)
  <2>1. ev.id \in Comp /\ state \notin Walking
    BY <1>6 DEF UpdatingCorruptionDetected, InChain, ComponentEvents, Walking
  <2> DEFINE fx == <<Fx("DiscardStaged", None), Fx("ReportUpdateAborted", None)>>
  <2>2. HandleCorruption(<<>>, ev.id) \/ EnterRecovering(fx, ev.id)
    BY <1>6 DEF UpdatingCorruptionDetected
  <2> HIDE DEF fx
  <2> QED
    BY ZenonT(30), <2>1, <2>2, HandleCorruptionInv, EnterRecoveringInv
<1>7. CASE RecoveringRestored(ev)
  <2>1. /\ state = "Recovering" /\ subject \in Comp /\ pending_commit = FALSE
        /\ isolated \in SUBSET Comp /\ awaiting_boot \subseteq released
        /\ \A c \in isolated : Policy[c] # "Isolable" => Dependents[c] \subseteq isolated
    <3>1. state = "Recovering"
      BY ZenonT(30), <1>7 DEF RecoveringRestored
    <3>2. pending_commit = FALSE
      BY <3>1 DEF IInv, TypeOK, CommitWindow
    <3> QED
      BY ZenonT(30), <3>1, <3>2 DEF IInv, TypeOK, FlagsConsistent, CascadeContained
  <2>2. BumpRetry(subject) \in [Comp -> 0..255]
    <3>1. retry \in [Comp -> 0..255]
      BY DEF IInv, TypeOK
    <3>2. \A n \in 0..255 : (IF n < 255 THEN n + 1 ELSE n) \in 0..255
      OBVIOUS
    <3> QED
      BY ZenonT(30), <2>1, <3>1, <3>2 DEF BumpRetry
  <2>3. \/ Drop
        \/ /\ retry' = BumpRetry(subject)
           /\ EnterPreSupervision(<<>>, isolated, released, awaiting_boot)
        \/ ExhaustRecovery(subject, BumpRetry(subject))
    BY <1>7 DEF RecoveringRestored
  <2>4. CASE /\ retry' = BumpRetry(subject)
             /\ EnterPreSupervision(<<>>, isolated, released, awaiting_boot)
    BY ZenonT(30), <2>1, <2>2, <2>4, EnterPreSupervisionInv
  <2>5. CASE Drop
    BY ZenonT(30), <2>5, ReportInv DEF Drop
  <2>6. CASE ExhaustRecovery(subject, BumpRetry(subject))
    BY ZenonT(30), <2>1, <2>2, <2>6, ExhaustRecoveryInv
  <2> QED
    BY ZenonT(30), <2>3, <2>4, <2>5, <2>6
<1>8. CASE RecoveringUnavailable(ev)
  <2>1. state = "Recovering" /\ retry \in [Comp -> 0..255]
    BY <1>8 DEF RecoveringUnavailable, IInv, TypeOK
  <2> QED
    BY ZenonT(30), <1>8, <2>1, ReportInv, ExhaustRecoveryInv DEF RecoveringUnavailable, Drop
<1>9. CASE RecoveringFailed(ev)
  BY ZenonT(30), <1>9, EnterLockedInv DEF RecoveringFailed
<1> QED
  BY ZenonT(30), <1>1, <1>2, <1>3, <1>4, <1>5, <1>6, <1>7, <1>8, <1>9

\* The arms of handle_supervising.  A walk is never gated through them: in
\* AwaitingReady the leaf handles corruption and fatal boot failures itself.
LEMMA SupervisingArmsInv ==
    ASSUME IInv, NEW ev, InChain(ev),
           \/ SupervisingAttestation(ev)
           \/ SupervisingCorruptionDetected(ev)
           \/ SupervisingBootProgress(ev)
           \/ SupervisingTimeout(ev)
           \/ SupervisingBootFailed(ev)
           \/ SupervisingUpdateRequest(ev)
           \/ SupervisingEffectFailed(ev)
    PROVE  IInv'
<1>1. CASE SupervisingAttestation(ev)
  BY <1>1, ReportInv DEF SupervisingAttestation
<1>2. CASE SupervisingCorruptionDetected(ev)
  <2>1. ev.id \in Comp
    <3>1. ev.type = "CorruptionDetected"
      BY ZenonT(30), <1>2 DEF SupervisingCorruptionDetected
    <3> QED
      BY <3>1 DEF InChain, ComponentEvents
  <2>2. state \notin Walking
    BY <1>2 DEF SupervisingCorruptionDetected, PassedUp, LeafHandles, LeafArms,
                Supervised, Walking
  <2> QED
    BY <1>2, <2>1, <2>2, HandleCorruptionInv DEF SupervisingCorruptionDetected
<1>3. CASE SupervisingBootProgress(ev)
  BY <1>3, ClearAwaitingBootInv DEF SupervisingBootProgress
<1>4. CASE SupervisingTimeout(ev)
  <2>1. ev.id \in Comp
    BY <1>4 DEF SupervisingTimeout, InChain, ComponentEvents
  <2> QED
    BY ZenonT(30), <1>4, <2>1, ReportInv, EnterRecoveringInv DEF SupervisingTimeout, Drop
<1>5. CASE SupervisingBootFailed(ev)
  <2> DEFINE report == <<Fx("ReportBootFailed", ev.id)>>
  <2>1. ev.id \in Comp
    BY <1>5 DEF SupervisingBootFailed, InChain
  <2>2. \/ Drop
        \/ FatalBootFailure(ev) /\ HandleCorruption(report, ev.id)
        \/ EnterRecovering(report, ev.id)
    BY ZenonT(30), <1>5 DEF SupervisingBootFailed, FatalBootFailure
  <2>3. FatalBootFailure(ev) => state \notin Walking
    BY ZenonT(30), <1>5 DEF SupervisingBootFailed, PassedUp, LeafHandles, Supervised, Walking
  <2> HIDE DEF report
  <2> QED
    BY ZenonT(30), <2>1, <2>2, <2>3, ReportInv, HandleCorruptionInv, EnterRecoveringInv DEF Drop
<1>6. CASE SupervisingUpdateRequest(ev)
  BY <1>6, ReportInv DEF SupervisingUpdateRequest
<1>7. CASE SupervisingEffectFailed(ev)
  BY <1>7, EnterLockedInv DEF SupervisingEffectFailed
<1> QED
  BY ZenonT(30), <1>1, <1>2, <1>3, <1>4, <1>5, <1>6, <1>7

----------------------------------------------------------------------------
(* Theorems *)

\* Every `step` preserves the invariant, whatever event it reduces.
LEMMA StepInv ==
    ASSUME IInv, NEW ev, Step(ev)
    PROVE  IInv'
<1>1. CASE Drop
  BY ZenonT(30), <1>1, ReportInv DEF Drop
<1>2. CASE InChain(ev) /\ Handle(ev)
  BY <1>1, <1>2, UnsupervisedArmsInv, AwaitingReadyArmsInv, ServiceArmsInv,
     SupervisingArmsInv DEF Handle, Discard
<1> QED
  BY <1>1, <1>2 DEF Step

\* Orchestrator::new establishes the invariant.
LEMMA InitInv == Init => IInv
<1> SUFFICES ASSUME Init PROVE IInv
  OBVIOUS
<1>1. retry \in [Comp -> 0..255]
  BY DEF Init
<1>2. cursor \in 1..(N + 1)
  BY ChainAssumption DEF Init
<1>3. TypeOK
  BY ZenonT(30), <1>1, <1>2 DEF Init, TypeOK, States
<1>4. CursorNotIsolated /\ FlagsConsistent /\ WalkPrefix /\ ReadyMeansServed
      /\ CascadeContained /\ CommitWindow
  BY DEF Init, CursorNotIsolated, FlagsConsistent, WalkPrefix, ReadyMeansServed,
         CascadeContained, CommitWindow, Walking
<1> QED
  BY <1>3, <1>4 DEF IInv

\* Steps that change nothing preserve the invariant.
LEMMA StutterInv == IInv /\ UNCHANGED vars => IInv'
BY DEF vars, IInv, TypeOK, CursorNotIsolated, FlagsConsistent, WalkPrefix,
       ReadyMeansServed, CascadeContained, CommitWindow

\* The inductive invariant holds in every reachable state of the reducer.
THEOREM Invariance == Spec => []IInv
<1>1. IInv /\ [Next]_vars => IInv'
  BY StepInv, StutterInv DEF Next
<1> QED
  BY <1>1, InitInv, PTL DEF Spec

\* Type correctness of the reducer, for every chain and retry cap: in
\* particular the retry counters never leave u8 and the cursor the chain.
THEOREM TypeCorrect == Spec => []TypeOK
<1>1. IInv => TypeOK
  BY DEF IInv
<1> QED
  BY <1>1, Invariance, PTL

\* The walk never stands at an isolated component.
THEOREM WalkSkipsIsolated == Spec => []CursorNotIsolated
<1>1. IInv => CursorNotIsolated
  BY DEF IInv
<1> QED
  BY <1>1, Invariance, PTL

\* In the walk the live components are those before the cursor that are not
\* isolated: release order is chain order, and what is under verification or
\* still ahead is held.
THEOREM WalkReleasesPrefix == Spec => []WalkPrefix
<1>1. IInv => WalkPrefix
  BY DEF IInv
<1> QED
  BY <1>1, Invariance, PTL

\* A platform in service has every component live or isolated.
THEOREM ServiceIsComplete == Spec => []ReadyMeansServed
<1>1. IInv => ReadyMeansServed
  BY DEF IInv
<1> QED
  BY <1>1, Invariance, PTL

\* Isolating a component that is not Isolable isolates all that depends on it.
THEOREM CascadesAreContained == Spec => []CascadeContained
<1>1. IInv => CascadeContained
  BY DEF IInv
<1> QED
  BY <1>1, Invariance, PTL

\* What owes a boot signal is live, and what is live is not isolated.
THEOREM FlagsAgree == Spec => []FlagsConsistent
<1>1. IInv => FlagsConsistent
  BY DEF IInv
<1> QED
  BY <1>1, Invariance, PTL

\* The commit window is open only in Ready or Locked.
THEOREM WindowOnlyInReady == Spec => []CommitWindow
<1>1. IInv => CommitWindow
  BY DEF IInv
<1> QED
  BY <1>1, Invariance, PTL

\* In Locked every event is dropped.
LEMMA LockedDrops ==
    ASSUME NEW ev, Step(ev), state = "Locked"
    PROVE  Drop
BY ZenonT(30) DEF Step, Handle, PowerGood, UnsupervisedEffectFailed,
   PreSupervisionVerificationPassed, PreSupervisionVerificationFailed,
   PreSupervisionCorruptionDetected, PreSupervisionBooted, PreSupervisionTimeout,
   PreSupervisionBootFailed, AwaitingReadyComponentReady,
   AwaitingReadyVerificationPassed, AwaitingReadyVerificationFailed,
   AwaitingReadyCorruptionDetected, AwaitingReadyBootFailed, ReadyUpdateRequest,
   ReadyBootConfirmed, ReadyCommitTimeout, UpdatingVerified, UpdatingRejected,
   UpdatingCorruptionDetected, RecoveringRestored, RecoveringUnavailable,
   RecoveringFailed, SupervisingAttestation, SupervisingCorruptionDetected,
   SupervisingBootProgress, SupervisingTimeout, SupervisingBootFailed,
   SupervisingUpdateRequest, SupervisingEffectFailed, Discard, PassedUp, Supervised

\* No event leaves Locked, and none makes it emit an effect.
THEOREM LockedForGood == Spec => LockedIsTerminal
<1>1. Next /\ state = "Locked" => state' = "Locked" /\ sink' = <<>>
  BY LockedDrops DEF Next, Drop, Report
<1>2. [Next]_vars => [state = "Locked" => state' = "Locked" /\ sink' = <<>>]_vars
  BY <1>1
<1> QED
  BY <1>2, PTL DEF Spec, LockedIsTerminal

----------------------------------------------------------------------------
(***************************************************************************)
(* Proofs about dispatch_with, for every chain, every queue capacity that  *)
(* the build accepts, and every platform: nothing is assumed of what       *)
(* `execute` returns, or of which events arrive.                           *)
(***************************************************************************)

Latched == <<Fx("LatchLockdown", None)>>

(***************************************************************************)
(* FailClosed is not inductive: a batch of LatchLockdowns must be known to *)
(* be the one EnterLocked emits, and the queue to be a sequence, so that   *)
(* the injected event is its head.                                         *)
(***************************************************************************)
LoopInv ==
    /\ IInv
    /\ LoopTypeOK
    /\ failed =>
        \/ state = "Locked" /\ sink \in {<<>>, Latched}
        \/ sink = <<>> /\ pending # <<>> /\ Head(pending) = EffectFailed

\* What `latch` injects is an event of the reducer.
LEMMA EffectFailedIsEvent == EffectFailed \in Event
BY DEF EffectFailed, Plain, Event, PlainEvents

\* EffectFailed locks the machine from every state, Locked included.
LEMMA EffectFailedLocks ==
    ASSUME TypeOK, Step(EffectFailed)
    PROVE  state' = "Locked" /\ sink' \in {<<>>, Latched}
<1>1. CASE state = "Locked"
  BY <1>1, LockedDrops DEF Drop, Report
<1>2. CASE state # "Locked"
  <2>1. EffectFailed.type = "EffectFailed"
    BY DEF EffectFailed, Plain
  <2>2. InChain(EffectFailed)
    BY ZenonT(30), <2>1 DEF InChain, ComponentEvents
  <2>3. ~Discard(EffectFailed)
    <3>1. CASE state \in Supervised
      <4>1. "EffectFailed" \in SupervisingArms
        BY ZenonT(30) DEF SupervisingArms
      <4> QED
        BY ZenonT(30), <2>1, <3>1, <4>1 DEF Discard
    <3>2. CASE state \in {"PowerOnReset", "PreSupervision"}
      <4>1. "EffectFailed" \in LeafArms[state]
        BY <3>2 DEF LeafArms
      <4> QED
        BY ZenonT(30), <2>1, <4>1 DEF Discard, LeafHandles
    <3> QED
      BY ZenonT(30), <1>2, <3>1, <3>2 DEF TypeOK, States, Supervised
  <2>4. EnterLocked
    BY ZenonT(30), <2>1, <2>2, <2>3 DEF Step, Handle, PowerGood, UnsupervisedEffectFailed,
       PreSupervisionVerificationPassed, PreSupervisionVerificationFailed,
       PreSupervisionCorruptionDetected, PreSupervisionBooted, PreSupervisionTimeout,
       PreSupervisionBootFailed, AwaitingReadyComponentReady,
       AwaitingReadyVerificationPassed, AwaitingReadyVerificationFailed,
       AwaitingReadyCorruptionDetected, AwaitingReadyBootFailed, FatalBootFailure,
       ReadyUpdateRequest, ReadyBootConfirmed, ReadyCommitTimeout, UpdatingVerified,
       UpdatingRejected, UpdatingCorruptionDetected, RecoveringRestored,
       RecoveringUnavailable, RecoveringFailed, SupervisingAttestation,
       SupervisingCorruptionDetected, SupervisingBootProgress, SupervisingTimeout,
       SupervisingBootFailed, SupervisingUpdateRequest, SupervisingEffectFailed
  <2> QED
    BY <2>4 DEF EnterLocked, Latched
<1> QED
  BY <1>1, <1>2

\* Executing effects leaves the reducer's invariant alone.
LEMMA ReducerUnchanged ==
    ASSUME IInv, UNCHANGED reducer
    PROVE  IInv' /\ TypeOK' /\ state' = state
<1>1. IInv' /\ state' = state
  BY ZenonT(30) DEF reducer, IInv, TypeOK, CursorNotIsolated, FlagsConsistent, WalkPrefix,
         ReadyMeansServed, CascadeContained, CommitWindow
<1> QED
  BY <1>1 DEF IInv

\* `latch` injects EffectFailed at the front and never outgrows the queue.
LEMMA AbandonInv ==
    ASSUME LoopInv, Abandon, UNCHANGED reducer
    PROVE  LoopInv'
<1>1. pending \in Seq(Event) /\ Len(pending) \in Nat /\ Len(pending) <= PendingCap
  BY DEF LoopInv, LoopTypeOK
<1>2. IInv' /\ TypeOK' /\ state' = state
  BY ReducerUnchanged DEF LoopInv
<1>3. CASE failed
  BY <1>1, <1>2, <1>3 DEF LoopInv, LoopTypeOK, Abandon
<1>4. CASE ~failed
  <2>1. Evict \in Seq(Event) /\ Len(Evict) \in Nat /\ Len(Evict) + 1 <= PendingCap
    BY <1>1, PendingCapAssumption DEF Evict
  <2>2. /\ pending' \in Seq(Event)
        /\ Len(pending') <= PendingCap
        /\ pending' # <<>>
        /\ Head(pending') = EffectFailed
    <3>1. pending' = <<EffectFailed>> \o Evict
      BY <1>4 DEF Abandon, Latch
    <3> QED
      BY <2>1, <3>1, EffectFailedIsEvent, PendingCapAssumption
  <2> QED
    BY <1>2, <2>2 DEF LoopInv, LoopTypeOK, Abandon
<1> QED
  BY <1>3, <1>4 DEF LoopInv, LoopTypeOK

\* With the latch injected, only LatchLockdown's batch is ever executed.
LEMMA ConsumeInv ==
    ASSUME LoopInv, sink # <<>>, sink' = Tail(sink), UNCHANGED <<reducer, failed>>,
           pending' \in Seq(Event), Len(pending') <= PendingCap
    PROVE  LoopInv'
<1>1. IInv' /\ TypeOK' /\ state' = state
  BY ReducerUnchanged DEF LoopInv
<1>2. failed => state = "Locked" /\ sink = Latched
  BY DEF LoopInv
<1>3. Tail(Latched) = <<>>
  BY DEF Latched
<1> QED
  BY <1>1, <1>2, <1>3 DEF LoopInv, LoopTypeOK

\* An event that joins the queue keeps the invariant, at its limit too.
LEMMA EnqueueInv ==
    ASSUME LoopInv, NEW ev \in Event, sink # <<>>, Enqueue(ev), UNCHANGED reducer
    PROVE  LoopInv'
<1>1. /\ pending \in Seq(Event) /\ Len(pending) \in Nat /\ PendingCap \in Nat
      /\ Len(pending) <= PendingCap
  BY PendingCapAssumption DEF LoopInv, LoopTypeOK
<1>2. CASE /\ Len(pending) < PendingCap
           /\ pending' = Append(pending, ev)
           /\ sink' = Tail(sink)
           /\ UNCHANGED failed
  <2>1. pending' \in Seq(Event) /\ Len(pending') <= PendingCap
    BY <1>1, <1>2
  <2> QED
    BY <1>2, <2>1, ConsumeInv
<1>3. CASE Abandon
  BY ZenonT(30), <1>3, AbandonInv
<1>4. CASE SinkTail
  BY <1>1, <1>4, ConsumeInv DEF SinkTail
<1> QED
  BY <1>2, <1>3, <1>4 DEF Enqueue

\* Popping one event and stepping the reducer preserves the invariant; when
\* that event is the latch, the machine is Locked afterwards.
LEMMA SettleInv ==
    ASSUME LoopInv, SettleFront
    PROVE  LoopInv'
<1>1. /\ pending \in Seq(Event) /\ pending # <<>>
      /\ Len(pending) \in Nat /\ Len(pending) <= PendingCap /\ PendingCap \in Nat
  BY PendingCapAssumption DEF LoopInv, LoopTypeOK, SettleFront
<1>2. pending' \in Seq(Event) /\ Len(pending') <= PendingCap
  BY <1>1 DEF SettleFront
<1>3. IInv' /\ TypeOK'
  <2>1. IInv'
    BY StepInv DEF LoopInv, SettleFront
  <2> QED
    BY <2>1 DEF IInv
<1>4. ASSUME failed PROVE state' = "Locked" /\ sink' \in {<<>>, Latched}
  <2>1. CASE state = "Locked"
    BY <2>1, LockedDrops DEF SettleFront, Drop, Report
  <2>2. CASE Head(pending) = EffectFailed
    BY <2>2, EffectFailedLocks DEF SettleFront, LoopInv, LoopTypeOK
  <2> QED
    BY <1>4, <2>1, <2>2 DEF LoopInv
<1> QED
  BY ZenonT(30), <1>2, <1>3, <1>4 DEF LoopInv, LoopTypeOK, SettleFront

\* Every step of dispatch_with preserves the invariant.
LEMMA LoopNextInv ==
    ASSUME LoopInv, [LoopNext]_lvars
    PROVE  LoopInv'
<1>1. ASSUME NEW ev \in Event, Start(ev) PROVE LoopInv'
  <2>1. IInv' /\ TypeOK'
    <3>1. IInv'
      BY <1>1, StutterInv DEF Start, LoopInv
    <3> QED
      BY <3>1 DEF IInv
  <2>2. pending' \in Seq(Event) /\ Len(pending') <= PendingCap
    BY <1>1, PendingCapAssumption DEF Start
  <2> QED
    BY ZenonT(30), <1>1, <2>1, <2>2 DEF Start, LoopInv, LoopTypeOK
<1>2. CASE SettleFront
  BY <1>2, SettleInv
<1>3. CASE EmitFront
  BY ZenonT(30), <1>3, EnqueueInv DEF EmitFront
<1>4. CASE ExecuteOk
  BY <1>4, ConsumeInv DEF ExecuteOk, External, SinkTail, LoopInv, LoopTypeOK
<1>5. ASSUME NEW ev \in Replies, ExecuteReply(ev) PROVE LoopInv'
  BY <1>5, EnqueueInv, RepliesAssumption DEF ExecuteReply, External
<1>6. CASE ExecuteErr
  BY <1>6, AbandonInv DEF ExecuteErr
<1>7. CASE UNCHANGED lvars
  <2>1. IInv' /\ TypeOK'
    <3>1. IInv'
      BY <1>7, StutterInv DEF lvars, LoopInv
    <3> QED
      BY <3>1 DEF IInv
  <2> QED
    BY <1>7, <2>1 DEF lvars, vars, LoopInv, LoopTypeOK
<1> QED
  BY ZenonT(30), <1>1, <1>2, <1>3, <1>4, <1>5, <1>6, <1>7 DEF LoopNext

\* An orchestrator just built, with an empty queue, satisfies the invariant.
LEMMA LoopInitInv == LoopInit => LoopInv
<1> SUFFICES ASSUME LoopInit PROVE LoopInv
  OBVIOUS
<1>1. IInv /\ TypeOK
  <2>1. IInv
    BY InitInv DEF LoopInit
  <2> QED
    BY <2>1 DEF IInv
<1>2. pending \in Seq(Event) /\ Len(pending) <= PendingCap /\ failed = FALSE
  BY PendingCapAssumption DEF LoopInit
<1> QED
  BY ZenonT(30), <1>1, <1>2 DEF LoopInv, LoopTypeOK

\* The loop's invariant, which carries the reducer's: no platform can bring
\* the reducer out of it through the queue.
THEOREM LoopInvariance == LoopSpec => []LoopInv
BY LoopInitInv, LoopNextInv, PTL DEF LoopSpec

\* The pending queue of dispatch_with never outgrows PENDING_CAP and the
\* reducer stays well typed, whatever the platform returns.
THEOREM QueueBounded == LoopSpec => []LoopTypeOK
<1>1. LoopInv => LoopTypeOK
  BY DEF LoopInv
<1> QED
  BY <1>1, LoopInvariance, PTL

\* Once an effect has failed or the queue has overflowed, nothing but
\* LatchLockdown is executed and the machine is Locked after the next event.
THEOREM FailsClosed == LoopSpec => []FailClosed
<1>1. LoopInv => FailClosed
  <2>1. \A i \in DOMAIN Latched : Latched[i].op = "LatchLockdown"
    BY DEF Latched, Fx
  <2> QED
    BY <2>1 DEF LoopInv, FailClosed
<1> QED
  BY <1>1, LoopInvariance, PTL

----------------------------------------------------------------------------
(* What the helpers of Rot emit *)

CompOps ==
    {"ReadFirmware", "VerifyFirmware", "AssertReset", "ReleaseReset", "CommitSvnFloor",
     "ReportIsolated", "ReportBootFailed", "ReportRecoveryFailed"}
PlainOps ==
    {"LatchLockdown", "AuthenticateUpdate", "StageUpdate", "ActivateUpdate", "DiscardStaged",
     "ReportUpdateAborted", "ReportUpdateDeferred", "SignAttestation"}

\* The effects `step` emits.
Effect ==
    [op : CompOps, id : Comp] \cup [op : PlainOps, id : {None}]
        \cup [op : {"RecoverComponent"}, id : Comp, attempt : 0..255]
        \cup {Emit("RecoveryFailed")}

\* The elements of the short sequences the reducer builds.
LEMMA ElemsShort ==
    /\ Elems(<<>>) = {}
    /\ \A a : Elems(<<a>>) = {a}
    /\ \A a, b : Elems(<<a, b>>) = {a, b}
<1>1. Elems(<<>>) = {}
  BY DEF Elems
<1>2. \A a : Elems(<<a>>) = {a}
  <2>1. \A a : Len(<<a>>) = 1 /\ <<a>>[1] = a /\ 1..1 = {1}
    OBVIOUS
  <2> QED
    BY <2>1, ZenonT(30) DEF Elems
<1>3. ASSUME NEW a, NEW b PROVE Elems(<<a, b>>) = {a, b}
  <2> DEFINE q == <<a, b>>
  <2>1. Len(q) = 2 /\ q[1] = a /\ q[2] = b
    OBVIOUS
  <2>2. 1..2 = {1, 2}
    OBVIOUS
  <2> HIDE DEF q
  <2>3. Elems(q) = {q[i] : i \in {1, 2}}
    BY <2>1, <2>2, ZenonT(30) DEF Elems
  <2>4. Elems(q) = {a, b}
    BY <2>1, <2>3
  <2> QED
    BY <2>4, ZenonT(30) DEF q
<1> QED
  BY <1>1, <1>2, <1>3, ZenonT(30)

\* The chain of the reducer is one Chain::try_from accepts.
LEMMA EntriesAreChain == Entries \in Chains /\ UniqueIds(Entries) /\ IdsOf(Entries) = Comp
<1>0. N \in Nat
  BY ChainAssumption
<1>1. \A c \in Comp : [id |-> c, depends_on |-> DependsOn[c]] \in [id : Nat \ {0}, depends_on : Nat]
  BY ChainAssumption DEF Comp, None
<1>2. Entries \in [1..N -> [id : Nat \ {0}, depends_on : Nat]]
  BY <1>1, ZenonT(30) DEF Entries, Comp
<1>3. Entries \in Chains
  <2>1. \A R : \A f \in [1..N -> R] : f \in Seq(R)
    BY <1>0
  <2> QED
    BY <2>1, <1>2, ZenonT(30) DEF Chains
<1>4. DOMAIN Entries = Comp /\ \A c \in Comp : Entries[c].id = c
  BY DEF Entries
<1>5. UniqueIds(Entries) /\ IdsOf(Entries) = Comp
  BY <1>4 DEF UniqueIds, IdsOf
<1> QED
  BY <1>3, <1>5

\* gate_by_policy visits what the policy gates, each component once.
LEMMA GateOrderIs ==
    ASSUME NEW c \in Comp
    PROVE  GateOrder(c) \in Seq(Comp) /\ Elems(GateOrder(c)) = GatedBy(c) /\ Distinct(GateOrder(c))
<1>1. CASE Policy[c] = "Cascading"
  <2>1. GateOrder(c) = Frontier(Entries, c) /\ GatedBy(c) = DependentsOn(Entries, c)
    BY <1>1, ZenonT(30) DEF GateOrder, GatedBy, CascadeOrder, Dependents
  <2>2. c \in IdsOf(Entries)
    BY EntriesAreChain
  <2>3. /\ Frontier(Entries, c) \in Seq(IdsOf(Entries))
        /\ Elems(Frontier(Entries, c)) = DependentsOn(Entries, c)
        /\ Distinct(Frontier(Entries, c))
    BY <2>2, EntriesAreChain, CascadeVisitsDependents
  <2> QED
    BY <2>1, <2>3, EntriesAreChain
<1>2. CASE Policy[c] # "Cascading"
  <2>1. GateOrder(c) = <<c>> /\ GatedBy(c) = {c}
    BY <1>2, ZenonT(30) DEF GateOrder, GatedBy
  <2> QED
    BY <2>1 DEF Elems, Distinct
<1> QED
  BY <1>1, <1>2

\* What gating c emits: a reset and a report for each component newly gated.
GateParts(c) ==
    [i \in DOMAIN GateOrder(c) |->
        IF GateOrder(c)[i] \in isolated THEN <<>>
        ELSE <<Fx("AssertReset", GateOrder(c)[i]), Fx("ReportIsolated", GateOrder(c)[i])>>]

\* Gating emits one part per component of the gate order: nothing for one that
\* is isolated already, else AssertReset and ReportIsolated.
LEMMA GatePartsAre ==
    ASSUME NEW c \in Comp
    PROVE  /\ GateEffects(c) = Concat(GateParts(c))
           /\ GateParts(c) \in Seq(Seq(Effect))
           /\ Len(GateParts(c)) = Len(GateOrder(c)) /\ Len(GateOrder(c)) \in Nat
           /\ \A i \in 1..Len(GateOrder(c)) :
                 /\ GateOrder(c)[i] \in isolated => GateParts(c)[i] = <<>>
                 /\ GateOrder(c)[i] \notin isolated =>
                      GateParts(c)[i] = <<Fx("AssertReset", GateOrder(c)[i]),
                                          Fx("ReportIsolated", GateOrder(c)[i])>>
<1> DEFINE order == GateOrder(c)
           parts == GateParts(c)
<1>1. GateEffects(c) = Concat(parts)
  BY ZenonT(30) DEF GateEffects, GateParts
<1>2. order \in Seq(Comp)
  BY GateOrderIs
<1>3. parts = [i \in DOMAIN order |->
                 IF order[i] \in isolated THEN <<>>
                 ELSE <<Fx("AssertReset", order[i]), Fx("ReportIsolated", order[i])>>]
  BY ZenonT(30) DEF GateParts
<1> HIDE DEF order, parts
<1>4. Len(order) \in Nat /\ DOMAIN order = 1..Len(order) /\ \A i \in 1..Len(order) : order[i] \in Comp
  BY <1>2
<1>5. \A d \in Comp : Fx("AssertReset", d) \in Effect /\ Fx("ReportIsolated", d) \in Effect
  BY DEF Fx, Effect, CompOps
<1>6. \A d \in Comp : <<Fx("AssertReset", d), Fx("ReportIsolated", d)>> \in Seq(Effect)
  <2>1. \A S : \A a, b \in S : <<a, b>> \in Seq(S)
    OBVIOUS
  <2> QED
    BY <2>1, <1>5, ZenonT(30)
<1>7. <<>> \in Seq(Effect)
  OBVIOUS
<1>8. parts \in [1..Len(order) -> Seq(Effect)]
  BY <1>3, <1>4, <1>6, <1>7, ZenonT(30)
<1>9. parts \in Seq(Seq(Effect)) /\ Len(parts) = Len(order)
  <2>1. \A S : \A f \in [1..Len(order) -> S] : f \in Seq(S) /\ Len(f) = Len(order)
    BY <1>4
  <2> QED
    BY <2>1, <1>8, ZenonT(30)
<1>10. \A i \in 1..Len(order) :
          /\ order[i] \in isolated => parts[i] = <<>>
          /\ order[i] \notin isolated =>
               parts[i] = <<Fx("AssertReset", order[i]), Fx("ReportIsolated", order[i])>>
  BY <1>3, <1>4, ZenonT(30)
<1> QED
  BY <1>1, <1>4, <1>9, <1>10, ZenonT(30) DEF order, parts

\* Gating holds and reports exactly the components it takes out of service now.
LEMMA GateContents ==
    ASSUME NEW c \in Comp
    PROVE  /\ GateEffects(c) \in Seq(Effect)
           /\ \A e : e \in Elems(GateEffects(c)) <=>
                \E d \in NewlyGated(c) : e = Fx("AssertReset", d) \/ e = Fx("ReportIsolated", d)
<1> DEFINE order == GateOrder(c)
           parts == GateParts(c)
           n == Len(order)
<1>1. /\ GateEffects(c) = Concat(parts) /\ parts \in Seq(Seq(Effect)) /\ Len(parts) = n
      /\ \A i \in 1..n :
            /\ order[i] \in isolated => parts[i] = <<>>
            /\ order[i] \notin isolated =>
                 parts[i] = <<Fx("AssertReset", order[i]), Fx("ReportIsolated", order[i])>>
  BY GatePartsAre, ZenonT(30)
<1>2. Elems(order) = GatedBy(c)
  BY GateOrderIs
<1> HIDE DEF order, parts, n
<1>3. Concat(parts) \in Seq(Effect) /\ Elems(Concat(parts)) = UNION {Elems(parts[k]) : k \in 1..n}
  BY ZenonT(30), <1>1, ElemsOfConcat
<1>4. \A a, b : Elems(<<a, b>>) = {a, b}
  BY ElemsShort, ZenonT(30)
<1>5. \A e : e \notin Elems(<<>>)
  BY ElemsShort
<1>6. \A d : d \in NewlyGated(c) <=> \E i \in 1..n : d = order[i] /\ order[i] \notin isolated
  BY <1>2, ZenonT(30) DEF NewlyGated, Elems, n
<1>7. ASSUME NEW e
      PROVE  e \in Elems(Concat(parts)) <=>
                \E d \in NewlyGated(c) : e = Fx("AssertReset", d) \/ e = Fx("ReportIsolated", d)
  <2>1. e \in Elems(Concat(parts)) <=> \E i \in 1..n : e \in Elems(parts[i])
    BY <1>3, ZenonT(30)
  <2>2. \A i \in 1..n : e \in Elems(parts[i]) <=>
           /\ order[i] \notin isolated
           /\ e = Fx("AssertReset", order[i]) \/ e = Fx("ReportIsolated", order[i])
    <3> SUFFICES ASSUME NEW i \in 1..n
                 PROVE  e \in Elems(parts[i]) <=>
                           /\ order[i] \notin isolated
                           /\ e = Fx("AssertReset", order[i]) \/ e = Fx("ReportIsolated", order[i])
      OBVIOUS
    <3>1. CASE order[i] \in isolated
      <4>1. parts[i] = <<>>
        BY <3>1, <1>1, ZenonT(30)
      <4> QED
        BY <4>1, <3>1, <1>5, ZenonT(30)
    <3>2. CASE order[i] \notin isolated
      <4>1. parts[i] = <<Fx("AssertReset", order[i]), Fx("ReportIsolated", order[i])>>
        BY <3>2, <1>1, ZenonT(30)
      <4>2. e \in Elems(parts[i]) <=> e = Fx("AssertReset", order[i]) \/ e = Fx("ReportIsolated", order[i])
        <5>1. Elems(parts[i]) = {Fx("AssertReset", order[i]), Fx("ReportIsolated", order[i])}
          BY <4>1, <1>4, ZenonT(30)
        <5> QED
          BY <5>1
      <4> QED
        BY <4>2, <3>2, ZenonT(30)
    <3> QED
      BY <3>1, <3>2
  <2> QED
    BY <2>1, <2>2, <1>6, ZenonT(30)
<1> QED
  BY <1>1, <1>3, <1>7, ZenonT(30)

\* What quiesce_all emits: a reset for each live component.
LEMMA QuiesceContents ==
    ASSUME NEW live \in SUBSET Comp
    PROVE  /\ QuiesceEffects(live) \in Seq(Effect)
           /\ \A e : e \in Elems(QuiesceEffects(live)) <=> \E d \in live : e = Fx("AssertReset", d)
           /\ Len(QuiesceEffects(live)) <= Cardinality(live)
<1> DEFINE parts == [c \in Comp |-> IF c \in live THEN <<Fx("AssertReset", c)>> ELSE <<>>]
<1>0. N \in Nat
  BY ChainAssumption
<1>1. QuiesceEffects(live) = Concat(parts)
  BY ZenonT(30) DEF QuiesceEffects
<1>2. \A c \in Comp : <<Fx("AssertReset", c)>> \in Seq(Effect)
  <2>1. \A S : \A a \in S : <<a>> \in Seq(S)
    OBVIOUS
  <2>2. \A c \in Comp : Fx("AssertReset", c) \in Effect
    BY DEF Fx, Effect, CompOps
  <2> QED
    BY <2>1, <2>2, ZenonT(30)
<1>3. parts \in Seq(Seq(Effect)) /\ Len(parts) = N
  <2>1. \A S : \A f \in [1..N -> S] : f \in Seq(S) /\ Len(f) = N
    BY <1>0
  <2>2. <<>> \in Seq(Effect)
    OBVIOUS
  <2>3. parts \in [1..N -> Seq(Effect)]
    BY <1>2, <2>2, ZenonT(30) DEF Comp
  <2> QED
    BY <2>1, <2>3, ZenonT(30)
<1>4. \A c \in Comp : /\ c \in live => parts[c] = <<Fx("AssertReset", c)>>
                      /\ c \notin live => parts[c] = <<>>
  BY ZenonT(30)
<1> HIDE DEF parts
<1>5. Concat(parts) \in Seq(Effect) /\ Elems(Concat(parts)) = UNION {Elems(parts[k]) : k \in Comp}
  BY ZenonT(30), <1>3, ElemsOfConcat DEF Comp
<1>6. \A a, e : e \in Elems(<<a>>) <=> e = a
  <2>1. \A a : Elems(<<a>>) = {a}
    BY ElemsShort, ZenonT(30)
  <2> QED
    BY <2>1, ZenonT(30)
<1>7. \A e : e \notin Elems(<<>>)
  BY ElemsShort
<1>8. \A e : e \in Elems(Concat(parts)) <=> \E d \in live : e = Fx("AssertReset", d)
  <2>1. \A e : e \in Elems(Concat(parts)) <=> \E i \in Comp : e \in Elems(parts[i])
    BY <1>5, ZenonT(30)
  <2>2. \A e : \A i \in Comp : e \in Elems(parts[i]) <=> i \in live /\ e = Fx("AssertReset", i)
    BY <1>4, <1>6, <1>7, ZenonT(30)
  <2> QED
    BY <2>1, <2>2, ZenonT(30)
<1>9. Len(Concat(parts)) <= Cardinality(live)
  <2>1. Len(<<>>) = 0 /\ \A a : Len(<<a>>) = 1
    OBVIOUS
  <2>2. \A k \in 1..N : Len(parts[k]) \in {0, 1} /\ (Len(parts[k]) = 1 <=> k \in live)
    <3>1. \A k \in 1..N : /\ k \in live => Len(parts[k]) = 1
                          /\ k \notin live => Len(parts[k]) = 0
      BY <2>1, <1>4, ZenonT(30) DEF Comp
    <3> QED
      BY <3>1
  <2>3. {k \in 1..N : Len(parts[k]) = 1} = live
    BY ZenonT(30), <2>2 DEF Comp
  <2>4. Len(Concat(parts)) = 1 * Cardinality(live)
    BY ZenonT(30), <2>2, <2>3, <1>3, LengthOfConcat
  <2>5. Cardinality(live) \in Nat
    <3>1. IsFiniteSet(1..N)
      BY <1>0, FS_Interval
    <3>2. IsFiniteSet(live)
      BY ZenonT(30), <3>1, FS_Subset DEF Comp
    <3> QED
      BY <3>2, FS_CardinalityType
  <2> QED
    BY <2>4, <2>5
<1> QED
  BY <1>1, <1>5, <1>8, <1>9, ZenonT(30)

----------------------------------------------------------------------------
(* How a batch is built *)

Has(q, op, c) == \E e \in Elems(q) : e.op = op /\ e.id = c

\* The executor takes c out of service: it asserts its reset or restores it.
Cuts(q, c) == Has(q, "AssertReset", c) \/ Has(q, "RecoverComponent", c)

\* The effects that may put an event of their own into the queue.
Spawns(e) == e.op \in {"VerifyFirmware", "RecoverComponent", "AuthenticateUpdate", "Emit"}
Quiet(q) == q \in Seq(Effect) /\ \A e \in Elems(q) : ~Spawns(e)

\* The batch spawns at most once; a verification is the last effect, of the
\* component under the cursor, and right after its read; Emit is the last too.
Shaped(q, c) ==
    /\ \A i, j \in 1..Len(q) : Spawns(q[i]) /\ Spawns(q[j]) => i = j
    /\ \A i \in 1..Len(q) : q[i].op = "VerifyFirmware" =>
          i = Len(q) /\ q[i].id = c /\ (i > 1 => q[i - 1] = Fx("ReadFirmware", c))
    /\ \A i \in 1..Len(q) : q[i].op = "Emit" => i = Len(q)

\* What a batch does to the resets: who is cut, and who is released.
Profile(q, cut, rel) ==
    \A c \in Comp : /\ Cuts(q, c) <=> c \in cut
                    /\ Has(q, "ReleaseReset", c) <=> c \in rel

\* What comes before or after the effects that matter here.
Inert(q) ==
    q \in Seq(Effect) /\ \A e \in Elems(q) : ~Spawns(e) /\ e.op \notin {"AssertReset", "ReleaseReset"}

\* The fields of an effect built by Fx.
LEMMA FxIs == \A op, c : Fx(op, c).op = op /\ Fx(op, c).id = c
BY DEF Fx

\* An effect that is in the batch, by its fields.
LEMMA FxHas ==
    ASSUME NEW q, NEW op, NEW c, Fx(op, c) \in Elems(q)
    PROVE  Has(q, op, c)
<1>1. Fx(op, c).op = op /\ Fx(op, c).id = c
  BY FxIs
<1> QED
  BY <1>1, ZenonT(30) DEF Has

\* What Fx builds for the ops of the reducer is an Effect.
LEMMA FxIsEffect ==
    /\ \A op \in CompOps : \A c \in Comp : Fx(op, c) \in Effect
    /\ \A op \in PlainOps : Fx(op, None) \in Effect
<1>1. \A op \in CompOps : \A c \in Comp : Fx(op, c) \in Effect
  BY DEF Fx, Effect
<1>2. \A op \in PlainOps : Fx(op, None) \in Effect
  BY DEF Fx, Effect
<1> QED
  BY ZenonT(30), <1>1, <1>2

\* The sequences of one and of two effects.
LEMMA ShortBatch ==
    /\ <<>> \in Seq(Effect)
    /\ \A a \in Effect : <<a>> \in Seq(Effect) /\ Len(<<a>>) = 1
    /\ \A a, b \in Effect : <<a, b>> \in Seq(Effect) /\ Len(<<a, b>>) = 2
<1>1. \A S : /\ <<>> \in Seq(S)
             /\ \A a \in S : <<a>> \in Seq(S) /\ Len(<<a>>) = 1
             /\ \A a, b \in S : <<a, b>> \in Seq(S) /\ Len(<<a, b>>) = 2
  OBVIOUS
<1> QED
  BY <1>1, ZenonT(30)

\* The contents of two batches in a row.
LEMMA HasConcat ==
    ASSUME NEW a \in Seq(Effect), NEW b \in Seq(Effect)
    PROVE  \A op, c : Has(a \o b, op, c) <=> Has(a, op, c) \/ Has(b, op, c)
<1>1. Elems(a \o b) = Elems(a) \cup Elems(b)
  BY ElemsConcat
<1> QED
  BY <1>1, ZenonT(30) DEF Has

\* Two batches in a row cut and release what either does.
LEMMA ProfileConcat ==
    ASSUME NEW a \in Seq(Effect), NEW b \in Seq(Effect), NEW A, NEW R, NEW B, NEW S,
           Profile(a, A, R), Profile(b, B, S)
    PROVE  Profile(a \o b, A \cup B, R \cup S)
<1>1. \A c : (Cuts(a \o b, c) <=> Cuts(a, c) \/ Cuts(b, c))
  BY HasConcat, ZenonT(30) DEF Cuts
<1>2. \A c : (Has(a \o b, "ReleaseReset", c) <=> Has(a, "ReleaseReset", c) \/ Has(b, "ReleaseReset", c))
  BY HasConcat, ZenonT(30)
<1> QED
  BY <1>1, <1>2, ZenonT(30) DEF Profile

\* Two batches that spawn nothing, in a row.
LEMMA QuietConcat ==
    ASSUME NEW a, NEW b, Quiet(a), Quiet(b)
    PROVE  Quiet(a \o b)
<1>1. a \in Seq(Effect) /\ b \in Seq(Effect)
  BY DEF Quiet
<1>2. Elems(a \o b) = Elems(a) \cup Elems(b)
  BY <1>1, ElemsConcat
<1>3. a \o b \in Seq(Effect)
  BY <1>1
<1> QED
  BY <1>2, <1>3, ZenonT(30) DEF Quiet

\* A batch of reports neither cuts nor releases anyone.
LEMMA InertProfile ==
    ASSUME NEW q, Inert(q)
    PROVE  Quiet(q) /\ Profile(q, {}, {})
<1>1. Quiet(q)
  BY ZenonT(30) DEF Inert, Quiet
<1>2. \A c : ~Has(q, "AssertReset", c) /\ ~Has(q, "ReleaseReset", c)
  BY ZenonT(30) DEF Inert, Has
<1>3. \A c : ~Has(q, "RecoverComponent", c)
  <2>1. \A e \in Elems(q) : e.op # "RecoverComponent"
    BY DEF Inert, Spawns
  <2> QED
    BY <2>1, ZenonT(30) DEF Has
<1> QED
  BY <1>1, <1>2, <1>3, ZenonT(30) DEF Profile, Cuts

\* Gating cuts exactly the components it takes out of service now.
LEMMA GateProfile ==
    ASSUME NEW id \in Comp
    PROVE  /\ Quiet(GateEffects(id)) /\ GateEffects(id) \in Seq(Effect)
           /\ Profile(GateEffects(id), NewlyGated(id), {})
<1> DEFINE q == GateEffects(id)
<1>1. q \in Seq(Effect) /\ \A e : e \in Elems(q) <=>
         \E d \in NewlyGated(id) : e = Fx("AssertReset", d) \/ e = Fx("ReportIsolated", d)
  BY GateContents, ZenonT(30)
<1> HIDE DEF q
<1>2. \A e \in Elems(q) : e.op \in {"AssertReset", "ReportIsolated"}
  <2> SUFFICES ASSUME NEW e \in Elems(q) PROVE e.op \in {"AssertReset", "ReportIsolated"}
    OBVIOUS
  <2>1. PICK d \in NewlyGated(id) : e = Fx("AssertReset", d) \/ e = Fx("ReportIsolated", d)
    BY <1>1, ZenonT(30)
  <2> QED
    BY <2>1, FxIs
<1>3. Quiet(q)
  BY <1>1, <1>2 DEF Quiet, Spawns
<1>4. \A c : ~Has(q, "ReleaseReset", c) /\ ~Has(q, "RecoverComponent", c)
  BY <1>2 DEF Has
<1>5. \A c : Has(q, "AssertReset", c) <=> c \in NewlyGated(id)
  <2>1. \A c : c \in NewlyGated(id) => Has(q, "AssertReset", c)
    <3>1. \A c \in NewlyGated(id) : Fx("AssertReset", c) \in Elems(q)
      BY <1>1, ZenonT(30)
    <3> QED
      BY <3>1, FxHas, ZenonT(30)
  <2>2. ASSUME NEW c, Has(q, "AssertReset", c) PROVE c \in NewlyGated(id)
    <3>1. PICK e \in Elems(q) : e.op = "AssertReset" /\ e.id = c
      BY <2>2, ZenonT(30) DEF Has
    <3>2. PICK d \in NewlyGated(id) : e = Fx("AssertReset", d) \/ e = Fx("ReportIsolated", d)
      BY <1>1, ZenonT(30)
    <3>3. e.id = d
      BY <3>2, FxIs, ZenonT(30)
    <3> QED
      BY <3>1, <3>3
  <2> QED
    BY <2>1, <2>2, ZenonT(30)
<1>6. Profile(q, NewlyGated(id), {})
  BY <1>4, <1>5, ZenonT(30) DEF Profile, Cuts
<1> QED
  BY <1>1, <1>3, <1>6, ZenonT(30) DEF q

\* quiesce_live cuts exactly the live components.
LEMMA QuiesceProfile ==
    ASSUME NEW live \in SUBSET Comp
    PROVE  /\ Quiet(QuiesceEffects(live)) /\ QuiesceEffects(live) \in Seq(Effect)
           /\ Profile(QuiesceEffects(live), live, {})
<1> DEFINE q == QuiesceEffects(live)
<1>1. q \in Seq(Effect) /\ \A e : e \in Elems(q) <=> \E d \in live : e = Fx("AssertReset", d)
  BY QuiesceContents, ZenonT(30)
<1> HIDE DEF q
<1>2. \A e \in Elems(q) : e.op = "AssertReset" /\ e.id \in live
  <2> SUFFICES ASSUME NEW e \in Elems(q) PROVE e.op = "AssertReset" /\ e.id \in live
    OBVIOUS
  <2>1. PICK d \in live : e = Fx("AssertReset", d)
    BY <1>1, ZenonT(30)
  <2> QED
    BY <2>1, FxIs
<1>3. Quiet(q)
  BY <1>1, <1>2 DEF Quiet, Spawns
<1>4. \A c : ~Has(q, "ReleaseReset", c) /\ ~Has(q, "RecoverComponent", c)
  BY <1>2 DEF Has
<1>5. \A c : Has(q, "AssertReset", c) <=> c \in live
  <2>1. \A c : c \in live => Has(q, "AssertReset", c)
    <3>1. \A c \in live : Fx("AssertReset", c) \in Elems(q)
      BY <1>1, ZenonT(30)
    <3> QED
      BY <3>1, FxHas, ZenonT(30)
  <2>2. \A c : Has(q, "AssertReset", c) => c \in live
    BY <1>2, ZenonT(30) DEF Has
  <2> QED
    BY <2>1, <2>2, ZenonT(30)
<1>6. Profile(q, live, {})
  BY <1>4, <1>5, ZenonT(30) DEF Profile, Cuts
<1> QED
  BY <1>1, <1>3, <1>6, ZenonT(30) DEF q

\* A batch that spawns nothing is well shaped.
LEMMA QuietShaped ==
    ASSUME NEW q, Quiet(q), NEW c
    PROVE  /\ Shaped(q, c)
           /\ \A op, d : op \in {"VerifyFirmware", "RecoverComponent", "AuthenticateUpdate", "Emit"}
                            => ~Has(q, op, d)
<1>1. \A i \in 1..Len(q) : ~Spawns(q[i])
  BY ZenonT(30) DEF Quiet, Elems
<1>2. \A i \in 1..Len(q) : q[i].op # "VerifyFirmware" /\ q[i].op # "Emit"
  BY <1>1 DEF Spawns
<1>3. Shaped(q, c)
  BY <1>1, <1>2, ZenonT(30) DEF Shaped
<1>4. \A e \in Elems(q) : e.op \notin {"VerifyFirmware", "RecoverComponent", "AuthenticateUpdate", "Emit"}
  BY ZenonT(30) DEF Quiet, Spawns
<1> QED
  BY <1>3, <1>4, ZenonT(30) DEF Has

\* One effect after a batch that spawns nothing, a verification excepted.
LEMMA LastShaped ==
    ASSUME NEW q, Quiet(q), NEW e \in Effect, e.op # "VerifyFirmware", NEW c
    PROVE  /\ Shaped(q \o <<e>>, c) /\ q \o <<e>> \in Seq(Effect)
           /\ Elems(q \o <<e>>) = Elems(q) \cup {e} /\ Len(q \o <<e>>) = Len(q) + 1
<1> DEFINE r == q \o <<e>>
<1>1. q \in Seq(Effect)
  BY DEF Quiet
<1>2. <<e>> \in Seq(Effect) /\ Len(<<e>>) = 1
  BY ShortBatch
<1>3. \A S : \A a \in Seq(S) : \A x \in S :
        /\ a \o <<x>> \in Seq(S) /\ Len(a \o <<x>>) = Len(a) + 1 /\ Len(a) \in Nat
        /\ \A i \in 1..Len(a) : (a \o <<x>>)[i] = a[i]
        /\ (a \o <<x>>)[Len(a) + 1] = x
  OBVIOUS
<1>4. /\ r \in Seq(Effect) /\ Len(r) = Len(q) + 1 /\ Len(q) \in Nat
      /\ \A i \in 1..Len(q) : r[i] = q[i]
      /\ r[Len(q) + 1] = e
  BY <1>1, <1>3, ZenonT(30)
<1>5. Elems(r) = Elems(q) \cup {e}
  <2>1. Elems(r) = Elems(q) \cup Elems(<<e>>)
    BY ZenonT(30), <1>1, <1>2, ElemsConcat
  <2> QED
    BY <2>1, ElemsShort, ZenonT(30)
<1> HIDE DEF r
<1>6. \A i \in 1..Len(q) : ~Spawns(q[i])
  BY ZenonT(30) DEF Quiet, Elems
<1>7. \A i \in 1..Len(r) : i = Len(r) \/ (i \in 1..Len(q) /\ ~Spawns(r[i]))
  <2>1. \A i \in 1..Len(r) : i = Len(r) \/ i \in 1..Len(q)
    BY <1>4
  <2> QED
    BY <2>1, <1>4, <1>6, ZenonT(30)
<1>8. \A i \in 1..Len(r) : i = Len(r) \/ (r[i].op # "VerifyFirmware" /\ r[i].op # "Emit")
  BY <1>7 DEF Spawns
<1>9. r[Len(r)].op # "VerifyFirmware"
  BY <1>4
<1>10. Shaped(r, c)
  BY <1>7, <1>8, <1>9, ZenonT(30) DEF Shaped
<1> QED
  BY <1>4, <1>5, <1>10, ZenonT(30) DEF r

\* A pair, built from its two halves.
LEMMA PairIs ==
    ASSUME NEW S, NEW x \in S, NEW y \in S
    PROVE  <<x>> \o <<y>> = <<x, y>>
<1> DEFINE a == <<x>> \o <<y>>
           b == <<x, y>>
<1>1. a \in Seq(S) /\ b \in Seq(S) /\ Len(a) = 2 /\ Len(b) = 2
  OBVIOUS
<1>2. a[1] = x /\ a[2] = y /\ b[1] = x /\ b[2] = y
  OBVIOUS
<1> HIDE DEF a, b
<1>3. DOMAIN a = 1..2 /\ DOMAIN b = 1..2
  BY <1>1
<1>4. \A i \in 1..2 : a[i] = b[i]
  BY <1>2
<1>5. a = b
  BY <1>1, <1>3, <1>4
<1> QED
  BY <1>5 DEF a, b

\* A batch with two more effects at its end.
LEMMA TwoMore ==
    ASSUME NEW S, NEW p \in Seq(S), NEW x \in S, NEW y \in S
    PROVE  /\ p \o <<x, y>> \in Seq(S) /\ Len(p \o <<x, y>>) = Len(p) + 2 /\ Len(p) \in Nat
           /\ \A i \in 1..Len(p) : (p \o <<x, y>>)[i] = p[i]
           /\ (p \o <<x, y>>)[Len(p) + 1] = x
           /\ (p \o <<x, y>>)[Len(p) + 2] = y
OBVIOUS

\* The walk's effects after a batch that spawns nothing.
LEMMA WalkShaped ==
    ASSUME NEW q, Quiet(q), NEW n \in 1..(N + 1)
    PROVE  /\ Shaped(q \o WalkEffects(n), n) /\ q \o WalkEffects(n) \in Seq(Effect)
           /\ Elems(q \o WalkEffects(n)) =
                Elems(q) \cup (IF n \in Comp THEN {Fx("ReadFirmware", n), Fx("VerifyFirmware", n)} ELSE {})
           /\ Len(q \o WalkEffects(n)) = IF n \in Comp THEN Len(q) + 2 ELSE Len(q)
           /\ WalkEffects(n) \in Seq(Effect) /\ Profile(WalkEffects(n), {}, {})
<1>1. q \in Seq(Effect)
  BY DEF Quiet
<1>2. CASE n \notin Comp
  <2>1. WalkEffects(n) = <<>>
    BY <1>2, ZenonT(30) DEF WalkEffects
  <2>2. \A S : \A a \in Seq(S) : a \o <<>> = a
    OBVIOUS
  <2>3. q \o <<>> = q
    BY <1>1, <2>2, ZenonT(30)
  <2>4. Shaped(q, n)
    BY QuietShaped
  <2>5. <<>> \in Seq(Effect) /\ Elems(<<>>) = {}
    BY ShortBatch, ElemsShort
  <2>6. Profile(<<>>, {}, {})
    BY <2>5 DEF Profile, Cuts, Has
  <2> QED
    BY <1>1, <1>2, <2>1, <2>3, <2>4, <2>5, <2>6
<1>3. CASE n \in Comp
  <2> DEFINE a == Fx("ReadFirmware", n)
             b == Fx("VerifyFirmware", n)
             r == q \o <<a, b>>
  <2>1. WalkEffects(n) = <<a, b>>
    BY <1>3, ZenonT(30) DEF WalkEffects, ReadAndVerify
  <2>2. a \in Effect /\ b \in Effect
    BY <1>3, FxIsEffect DEF CompOps
  <2>16. a.op = "ReadFirmware" /\ a.id = n /\ b.op = "VerifyFirmware" /\ b.id = n
    BY FxIs
  <2>14. a = Fx("ReadFirmware", n)
    OBVIOUS
  <2>15. b = Fx("VerifyFirmware", n)
    OBVIOUS
  <2> HIDE DEF a, b
  <2>3. <<a, b>> \in Seq(Effect) /\ Elems(<<a, b>>) = {a, b}
    BY <2>2, ShortBatch, ElemsShort, ZenonT(30)
  <2>5. /\ r \in Seq(Effect) /\ Len(r) = Len(q) + 2 /\ Len(q) \in Nat
        /\ \A i \in 1..Len(q) : r[i] = q[i]
        /\ r[Len(q) + 1] = a
        /\ r[Len(q) + 2] = b
    <3> HIDE DEF r
    <3>1. a \in Effect /\ b \in Effect
      BY <2>2
    <3>2. /\ q \o <<a, b>> \in Seq(Effect) /\ Len(q \o <<a, b>>) = Len(q) + 2 /\ Len(q) \in Nat
          /\ \A i \in 1..Len(q) : (q \o <<a, b>>)[i] = q[i]
          /\ (q \o <<a, b>>)[Len(q) + 1] = a
          /\ (q \o <<a, b>>)[Len(q) + 2] = b
      BY <1>1, <3>1, TwoMore
    <3> QED
      BY <3>2, ZenonT(30) DEF r
  <2>6. Elems(r) = Elems(q) \cup {a, b}
    <3>1. Elems(q \o <<a, b>>) = Elems(q) \cup Elems(<<a, b>>)
      BY <1>1, <2>3, ElemsConcat, ZenonT(30)
    <3> QED
      BY <2>3, <3>1, ZenonT(30)
  <2> HIDE DEF r
  <2>8. \A i \in 1..Len(q) : ~Spawns(q[i])
    BY ZenonT(30) DEF Quiet, Elems
  <2>9. \A i \in 1..Len(r) : i = Len(r) \/ ~Spawns(r[i])
    <3>1. \A i \in 1..Len(r) : i = Len(r) \/ i = Len(q) + 1 \/ i \in 1..Len(q)
      BY <2>5
    <3>2. ~Spawns(a)
      BY <2>16 DEF Spawns
    <3> QED
      BY <2>5, <2>8, <3>1, <3>2, ZenonT(30)
  <2>10. \A i \in 1..Len(r) : i = Len(r) \/ (r[i].op # "VerifyFirmware" /\ r[i].op # "Emit")
    BY <2>9 DEF Spawns
  <2>11. /\ r[Len(r)].op = "VerifyFirmware" /\ r[Len(r)].id = n
         /\ r[Len(r) - 1] = Fx("ReadFirmware", n)
    BY <2>5, <2>16, <2>14, <2>15
  <2>12. Shaped(r, n)
    BY <2>9, <2>10, <2>11, ZenonT(30) DEF Shaped
  <2>13. Profile(<<a, b>>, {}, {})
    <3>1. \A e \in {a, b} : e.op \notin {"AssertReset", "RecoverComponent", "ReleaseReset"}
      BY <2>16
    <3> QED
      BY <2>3, <3>1, ZenonT(30) DEF Profile, Cuts, Has
  <2> QED
    <3>1. Elems(r) = Elems(q) \cup {Fx("ReadFirmware", n), Fx("VerifyFirmware", n)}
      BY <2>6, <2>14, <2>15, ZenonT(30)
    <3>2. q \o WalkEffects(n) = r
      BY <2>1, ZenonT(30) DEF r
    <3> QED
      BY <1>3, <2>1, <2>3, <2>5, <2>12, <2>13, <3>1, <3>2, ZenonT(30)
<1> QED
  BY <1>2, <1>3

\* Counting components.
LEMMA CompCounts ==
    /\ \A S \in SUBSET Comp : IsFiniteSet(S) /\ Cardinality(S) \in Nat /\ Cardinality(S) <= N
    /\ \A S \in SUBSET Comp : \A c \in Comp \ S : Cardinality(S) + 1 <= N
    /\ \A S, T \in SUBSET Comp : S \cap T = {} => Cardinality(S) + Cardinality(T) <= N
<1>0. N \in Nat
  BY ChainAssumption
<1>1. IsFiniteSet(Comp) /\ Cardinality(Comp) = N
  <2>1. IsFiniteSet(1..N) /\ Cardinality(1..N) = IF 1 > N THEN 0 ELSE N - 1 + 1
    BY <1>0, FS_Interval
  <2> QED
    BY <2>1, <1>0, ChainAssumption DEF Comp
<1>2. \A S \in SUBSET Comp : IsFiniteSet(S) /\ Cardinality(S) <= N
  BY <1>1, FS_Subset
<1>3. \A S \in SUBSET Comp : Cardinality(S) \in Nat
  BY <1>2, FS_CardinalityType
<1>4. ASSUME NEW S \in SUBSET Comp, NEW T \in SUBSET Comp, S \cap T = {}
      PROVE  Cardinality(S) + Cardinality(T) <= N
  <2>1. Cardinality(S \cup T) = Cardinality(S) + Cardinality(T) - Cardinality({})
    BY <1>2, <1>4, FS_Union
  <2>2. Cardinality({}) = 0
    BY FS_EmptySet
  <2>3. S \cup T \in SUBSET Comp
    OBVIOUS
  <2>4. Cardinality(S \cup T) <= N /\ Cardinality(S) \in Nat /\ Cardinality(T) \in Nat
    BY <1>2, <1>3, <2>3
  <2> QED
    BY <2>1, <2>2, <2>4
<1>5. ASSUME NEW S \in SUBSET Comp, NEW c \in Comp \ S PROVE Cardinality(S) + 1 <= N
  <2>1. {c} \in SUBSET Comp /\ S \cap {c} = {}
    OBVIOUS
  <2>2. Cardinality({c}) = 1
    BY FS_Singleton
  <2>3. Cardinality(S) + Cardinality({c}) <= N
    BY <2>1, <1>4, ZenonT(30)
  <2> QED
    BY <2>2, <2>3
<1> QED
  BY <1>2, <1>3, <1>4, <1>5, ZenonT(30)

\* Two effects for each component newly gated.
LEMMA GateLength ==
    ASSUME NEW c \in Comp, GatedBy(c) \subseteq Comp
    PROVE  /\ Len(GateEffects(c)) \in Nat
           /\ Len(GateEffects(c)) <= 2 * Cardinality(NewlyGated(c))
<1> DEFINE order == GateOrder(c)
           parts == GateParts(c)
           n == Len(order)
           K == {k \in 1..n : Len(parts[k]) = 2}
           D == NewlyGated(c)
<1>1. /\ GateEffects(c) = Concat(parts) /\ parts \in Seq(Seq(Effect)) /\ Len(parts) = n
      /\ \A i \in 1..n :
            /\ order[i] \in isolated => parts[i] = <<>>
            /\ order[i] \notin isolated =>
                 parts[i] = <<Fx("AssertReset", order[i]), Fx("ReportIsolated", order[i])>>
  BY GatePartsAre, ZenonT(30)
<1>2. Elems(order) = GatedBy(c) /\ Distinct(order)
  BY GateOrderIs
<1>3. D \subseteq Comp /\ D = GatedBy(c) \ isolated
  BY DEF NewlyGated
<1> HIDE DEF order, parts, n, K, D
<1>4. Len(<<>>) = 0 /\ \A x, y : Len(<<x, y>>) = 2
  OBVIOUS
<1>5. \A i \in 1..n : /\ order[i] \in isolated => Len(parts[i]) = 0
                      /\ order[i] \notin isolated => Len(parts[i]) = 2
  BY <1>1, <1>4, ZenonT(30)
<1>6. \A i \in 1..n : Len(parts[i]) \in {0, 2}
  BY <1>5
<1>7. \A k : k \in K <=> k \in 1..n /\ order[k] \notin isolated
  <2>0. 0 # 2
    OBVIOUS
  <2>1. \A k \in 1..n : (Len(parts[k]) = 2 <=> order[k] \notin isolated)
    BY <2>0, <1>5, ZenonT(30)
  <2> QED
    BY <2>1, ZenonT(30) DEF K
<1>8. Len(Concat(parts)) = 2 * Cardinality(K)
  BY ZenonT(30), <1>1, <1>6, LengthOfConcat DEF K
<1>9. IsFiniteSet(D) /\ Cardinality(D) \in Nat
  BY <1>3, CompCounts
<1>10. Cardinality(K) <= Cardinality(D) /\ Cardinality(K) \in Nat
  <2> DEFINE f == [k \in K |-> order[k]]
  <2>1. \A k \in K : order[k] \in D
    <3>1. \A k \in 1..n : order[k] \in GatedBy(c)
      BY <1>2, ZenonT(30) DEF Elems, n
    <3> QED
      BY <3>1, <1>3, <1>7, ZenonT(30)
  <2>2. \A j, k \in K : order[j] = order[k] => j = k
    BY <1>2, <1>7, ZenonT(30) DEF Distinct, n
  <2>3. f \in Injection(K, D)
    <3>1. f \in [K -> D] /\ \A k \in K : f[k] = order[k]
      BY <2>1, ZenonT(30)
    <3> HIDE DEF f
    <3>2. \A j, k \in K : f[j] = f[k] => j = k
      BY <2>2, <3>1, ZenonT(30)
    <3> QED
      BY <3>1, <3>2, ZenonT(30) DEF Injection, IsInjective
  <2> HIDE DEF f
  <2>4. IsFiniteSet(K) /\ Cardinality(K) <= Cardinality(D)
    BY <1>9, <2>3, FS_Injection
  <2> QED
    BY <2>4, FS_CardinalityType
<1>11. \A x, y \in Nat : x <= y => 2 * x \in Nat /\ 2 * x <= 2 * y
  OBVIOUS
<1>12. 2 * Cardinality(K) \in Nat /\ 2 * Cardinality(K) <= 2 * Cardinality(D)
  BY <1>9, <1>10, <1>11, ZenonT(30)
<1> QED
  BY <1>1, <1>8, <1>12, ZenonT(30) DEF D

----------------------------------------------------------------------------
(***************************************************************************)
(* What the dispatch loop needs to know of one step of the reducer that    *)
(* does not lock it.  Every shared handler keeps these promises, and so    *)
(* does every arm.                                                         *)
(***************************************************************************)
Below(n) == n = 0 \/ n < MaxRetry

\* ev is an answer the reducer waits for.
Awaits(ev) ==
    \/ /\ state \in Walking /\ cursor \in Comp
       /\ ev.type \in {"VerificationPassed", "VerificationFailed"}
       /\ ev.id = cursor
    \/ state = "Recovering" /\ ev.type = "RecoveryFailed"
    \/ /\ state = "Recovering"
       /\ ev.type \in {"Restored", "RecoveryUnavailable"}
       /\ ev.id = subject
    \/ state = "Updating" /\ ev.type \in {"UpdateVerified", "UpdateRejected"}

\* The resets in the batch are the change in what the reducer takes for live,
\* and only the component under the cursor is released.
Agrees ==
    \A c \in Comp :
        /\ c \in released' \ released => Has(sink', "ReleaseReset", c)
        /\ c \in released \ released' => Cuts(sink', c)
        /\ c \in released' => ~Cuts(sink', c)
        /\ c \notin released' => ~Has(sink', "ReleaseReset", c)
        /\ Has(sink', "ReleaseReset", c) => state \in Walking /\ c = cursor

\* Whoever the reducer waits for was asked in this batch, or was waited for
\* before and is not who answered.
Asks(ev) ==
    /\ state' \in Walking /\ cursor' \in Comp =>
         \/ Has(sink', "VerifyFirmware", cursor')
         \/ state \in Walking /\ cursor' = cursor /\ ~Awaits(ev) /\ ~Cuts(sink', cursor)
    /\ state' = "Recovering" =>
         \/ Has(sink', "RecoverComponent", subject')
         \/ Emit("RecoveryFailed") \in Elems(sink')
         \/ state = "Recovering" /\ subject' = subject /\ ~Awaits(ev)
    /\ state' = "Updating" =>
         \/ Has(sink', "AuthenticateUpdate", None)
         \/ state = "Updating" /\ ~Awaits(ev)

\* Attempt numbers are retry counts, and a count that reaches the cap comes
\* with the announcement that recovery failed.
Counts ==
    /\ \A e \in Elems(sink') : e.op = "RecoverComponent" => \E c \in Comp : e.attempt = retry[c]
    /\ (\A c \in Comp : Below(retry[c])) =>
         \/ \A c \in Comp : Below(retry'[c])
         \/ state' = "Recovering" /\ Emit("RecoveryFailed") \in Elems(sink')

Shapes ==
    /\ sink' \in Seq(Effect)
    /\ Len(sink') <= 2 * N + 2
    /\ Shaped(sink', cursor')
    /\ Has(sink', "VerifyFirmware", cursor') =>
         state' \in Walking /\ Fx("ReadFirmware", cursor') \in Elems(sink')

Batch(ev) == state' # "Locked" /\ Shapes /\ Agrees /\ Asks(ev) /\ Counts

\* Cutting `cut` and releasing `rel` is what becomes of the live components.
Moves(cut, rel) ==
    \A c \in Comp : /\ c \in released' \ released => c \in rel
                    /\ c \in released \ released' => c \in cut
                    /\ c \in released' => c \notin cut
                    /\ c \in rel => c \in released'
                    /\ c \in rel => state \in Walking /\ c = cursor

----------------------------------------------------------------------------
(* The front of a batch, and of the queue *)

\* ev waits in queue q.
Queued(q, ev) == \E j \in 1..Len(q) : q[j] = ev

\* What an effect of the batch is about.
LEMMA EffectIs ==
    ASSUME NEW e \in Effect
    PROVE  /\ e.op \in {"ReleaseReset", "AssertReset", "RecoverComponent", "VerifyFirmware",
                        "CommitSvnFloor"}
                => e.id \in Comp
           /\ e.op = "Emit" => e = Emit("RecoveryFailed")
<1>1. CASE e \in [op : CompOps, id : Comp]
  BY <1>1 DEF CompOps
<1>2. CASE e \in [op : PlainOps, id : {None}]
  BY <1>2 DEF PlainOps
<1>3. CASE e \in [op : {"RecoverComponent"}, id : Comp, attempt : 0..255]
  BY <1>3
<1>4. CASE e = Emit("RecoveryFailed")
  BY <1>4 DEF Emit
<1> QED
  BY ZenonT(30), <1>1, <1>2, <1>3, <1>4 DEF Effect

\* The front of a batch and the rest of it.
LEMMA Front ==
    ASSUME NEW q \in Seq(Effect), q # <<>>
    PROVE  /\ Head(q) \in Effect /\ Head(q) \in Elems(q) /\ Tail(q) \in Seq(Effect)
           /\ Elems(q) = {Head(q)} \cup Elems(Tail(q))
           /\ Head(q) = q[1] /\ Len(q) \in Nat \ {0} /\ Len(Tail(q)) = Len(q) - 1
           /\ \A i \in 1..Len(Tail(q)) : i + 1 \in 1..Len(q) /\ Tail(q)[i] = q[i + 1]
<1>1. \A S : \A a \in Seq(S) : a # <<>> =>
         /\ Head(a) = a[1] /\ Head(a) \in S /\ Tail(a) \in Seq(S)
         /\ Len(a) \in Nat \ {0} /\ Len(Tail(a)) = Len(a) - 1
         /\ \A i \in 1..Len(Tail(a)) : i + 1 \in 1..Len(a) /\ Tail(a)[i] = a[i + 1]
  OBVIOUS
<1>2. /\ Head(q) = q[1] /\ Head(q) \in Effect /\ Tail(q) \in Seq(Effect)
      /\ Len(q) \in Nat \ {0} /\ Len(Tail(q)) = Len(q) - 1
      /\ \A i \in 1..Len(Tail(q)) : i + 1 \in 1..Len(q) /\ Tail(q)[i] = q[i + 1]
  BY <1>1, ZenonT(30)
<1> DEFINE t == Tail(q)
           n == Len(q)
<1>3. n \in Nat \ {0} /\ Len(t) = n - 1 /\ \A i \in 1..Len(t) : t[i] = q[i + 1]
  BY <1>2
<1>4. Head(q) \in Elems(q)
  <2>1. 1 \in 1..Len(q)
    BY <1>2
  <2> QED
    BY <1>2, <2>1, ZenonT(30) DEF Elems
<1>5. Elems(q) = {Head(q)} \cup Elems(t)
  <2> HIDE DEF t, n
  <2>1. \A i \in 1..n : i = 1 \/ (i - 1 \in 1..Len(t) /\ t[i - 1] = q[i])
    <3> SUFFICES ASSUME NEW i \in 1..n, i # 1 PROVE i - 1 \in 1..Len(t) /\ t[i - 1] = q[i]
      OBVIOUS
    <3>1. i - 1 \in 1..Len(t) /\ (i - 1) + 1 = i
      BY <1>3
    <3> QED
      BY <1>3, <3>1
  <2>2. Elems(q) \subseteq {Head(q)} \cup Elems(t)
    <3>1. \A i \in 1..n : q[i] = Head(q) \/ q[i] \in Elems(t)
      BY <1>2, <2>1, ZenonT(30) DEF Elems
    <3> QED
      BY <3>1, ZenonT(30) DEF Elems, n
  <2>3. Elems(t) \subseteq Elems(q)
    <3>1. \A i \in 1..Len(t) : i + 1 \in 1..Len(q) /\ t[i] = q[i + 1]
      BY <1>2 DEF t
    <3> QED
      BY <3>1, ZenonT(30) DEF Elems
  <2> QED
    BY <1>4, <2>2, <2>3
<1> QED
  BY <1>2, <1>4, <1>5

\* Executing the front of a batch leaves a batch of the same shape.
LEMMA ShapedTail ==
    ASSUME NEW q \in Seq(Effect), q # <<>>, NEW c, Shaped(q, c)
    PROVE  /\ Shaped(Tail(q), c)
           /\ Spawns(Head(q)) => \A e \in Elems(Tail(q)) : ~Spawns(e)
           /\ Head(q).op \in {"VerifyFirmware", "Emit"} => Tail(q) = <<>>
           /\ Head(q).op = "VerifyFirmware" => Head(q).id = c
<1> DEFINE t == Tail(q)
           n == Len(q)
<1>1. /\ Head(q) = q[1] /\ n \in Nat \ {0} /\ Len(t) = n - 1 /\ t \in Seq(Effect)
      /\ \A i \in 1..Len(t) : i + 1 \in 1..n /\ t[i] = q[i + 1]
  BY Front
<1>2. \A i \in 1..Len(t) : t[i] = q[i + 1] /\ i + 1 \in 1..n
  BY <1>1
<1>3. /\ \A i, j \in 1..n : Spawns(q[i]) /\ Spawns(q[j]) => i = j
      /\ \A i \in 1..n : q[i].op = "VerifyFirmware" =>
            i = n /\ q[i].id = c /\ (i > 1 => q[i - 1] = Fx("ReadFirmware", c))
      /\ \A i \in 1..n : q[i].op = "Emit" => i = n
  BY DEF Shaped
<1> HIDE DEF t, n
<1>4. 1 \in 1..n
  BY <1>1
<1>5. \A i, j \in 1..Len(t) : Spawns(t[i]) /\ Spawns(t[j]) => i = j
  <2> SUFFICES ASSUME NEW i \in 1..Len(t), NEW j \in 1..Len(t), Spawns(t[i]), Spawns(t[j])
               PROVE  i = j
    OBVIOUS
  <2>1. i + 1 = j + 1
    BY <1>2, <1>3, ZenonT(30)
  <2> QED
    BY <1>1, <2>1
<1>6. \A i \in 1..Len(t) : t[i].op = "VerifyFirmware" =>
         i = Len(t) /\ t[i].id = c /\ (i > 1 => t[i - 1] = Fx("ReadFirmware", c))
  <2> SUFFICES ASSUME NEW i \in 1..Len(t), t[i].op = "VerifyFirmware"
               PROVE  i = Len(t) /\ t[i].id = c /\ (i > 1 => t[i - 1] = Fx("ReadFirmware", c))
    OBVIOUS
  <2>1. /\ i + 1 = n /\ t[i].id = c /\ (i + 1 > 1 => q[(i + 1) - 1] = Fx("ReadFirmware", c))
    BY <1>2, <1>3, ZenonT(30)
  <2>2. i = Len(t) /\ (i + 1) - 1 = i /\ i + 1 > 1
    BY <1>1, <2>1
  <2>3. i > 1 => i - 1 \in 1..Len(t) /\ (i - 1) + 1 = i
    BY <1>1
  <2>4. i > 1 => t[i - 1] = q[i]
    BY <1>2, <2>3
  <2> QED
    BY ZenonT(30), <2>1, <2>2, <2>4
<1>7. \A i \in 1..Len(t) : t[i].op = "Emit" => i = Len(t)
  <2> SUFFICES ASSUME NEW i \in 1..Len(t), t[i].op = "Emit" PROVE i = Len(t)
    OBVIOUS
  <2>1. i + 1 = n
    BY <1>2, <1>3, ZenonT(30)
  <2> QED
    BY <1>1, <2>1
<1>8. Spawns(Head(q)) => \A e \in Elems(t) : ~Spawns(e)
  <2> SUFFICES ASSUME Spawns(Head(q)), NEW i \in 1..Len(t), Spawns(t[i]) PROVE FALSE
    BY ZenonT(30) DEF Elems
  <2>1. i + 1 = 1
    BY <1>1, <1>2, <1>3, <1>4, ZenonT(30)
  <2> QED
    BY <1>1, <2>1
<1>9. Head(q).op \in {"VerifyFirmware", "Emit"} => t = <<>>
  <2> SUFFICES ASSUME Head(q).op \in {"VerifyFirmware", "Emit"} PROVE t = <<>>
    OBVIOUS
  <2>1. 1 = n
    BY <1>1, <1>3, <1>4
  <2>2. \A S : \A a \in Seq(S) : Len(a) = 0 => a = <<>>
    OBVIOUS
  <2>3. Len(t) = 0
    BY <1>1, <2>1
  <2> QED
    BY <1>1, <2>2, <2>3, ZenonT(30)
<1>10. Head(q).op = "VerifyFirmware" => Head(q).id = c
  BY <1>1, <1>3, <1>4
<1>11. Shaped(t, c)
  BY <1>5, <1>6, <1>7, ZenonT(30) DEF Shaped
<1> QED
  BY ZenonT(30), <1>8, <1>9, <1>10, <1>11 DEF t

\* What was in the batch is its front or still in it.
LEMMA FrontHas ==
    ASSUME NEW q \in Seq(Effect), q # <<>>
    PROVE  \A op, c : Has(q, op, c) <=> (Head(q).op = op /\ Head(q).id = c) \/ Has(Tail(q), op, c)
<1>1. Elems(q) = {Head(q)} \cup Elems(Tail(q))
  BY Front
<1> QED
  BY <1>1, ZenonT(30) DEF Has

\* A queue of one event.
LEMMA QueuedOnly ==
    /\ \A a, ev : Queued(<<a>>, ev) <=> ev = a
    /\ \A ev : ~Queued(<<>>, ev)
<1>1. \A a : Len(<<a>>) = 1 /\ <<a>>[1] = a
  OBVIOUS
<1>2. 1..1 = {1} /\ 1..0 = {} /\ Len(<<>>) = 0
  OBVIOUS
<1> QED
  BY <1>1, <1>2, ZenonT(30) DEF Queued

\* A queue of at most one event, and not empty.
LEMMA OneIs ==
    ASSUME NEW S, NEW q \in Seq(S), q # <<>>, Len(q) <= 1
    PROVE  q = <<Head(q)>> /\ Tail(q) = <<>>
<1> DEFINE b == <<Head(q)>>
<1>1. Len(q) = 1 /\ Head(q) = q[1] /\ q[1] \in S
  <2>1. Len(q) \in Nat /\ Len(q) # 0
    OBVIOUS
  <2>2. Len(q) = 1
    BY <2>1
  <2> QED
    BY <2>2
<1>2. b \in Seq(S) /\ Len(b) = 1 /\ b[1] = q[1]
  BY <1>1
<1>3. Tail(q) = <<>>
  <2>1. Tail(q) \in Seq(S) /\ Len(Tail(q)) = 0
    BY <1>1
  <2> QED
    BY <2>1
<1> HIDE DEF b
<1>4. DOMAIN q = 1..1 /\ DOMAIN b = 1..1
  BY <1>1, <1>2
<1>5. \A i \in 1..1 : q[i] = b[i]
  BY <1>2
<1>6. q = b
  BY <1>2, <1>4, <1>5
<1> QED
  BY <1>3, <1>6 DEF b
====
