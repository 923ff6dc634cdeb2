---------------------------- MODULE BatchProofs ----------------------------
(***************************************************************************)
(* What each arm of the reducer promises of the batch it leaves in `sink`, *)
(* for every chain, retry cap and event, and what executing a batch keeps. *)
(***************************************************************************)
EXTENDS ReducerProofs

\* A leaf that names no prover is tried with these, in this order, for so many seconds
\* each.  The repeated SMT only matters on a loaded machine, where one attempt can stall.
USE SMTT(30), SMTT(31), ZenonT(30), SMTT(32)

\* A batch with the profile of the moves it makes agrees with them.
LEMMA AgreesFrom ==
    ASSUME NEW cut, NEW rel, Profile(sink', cut, rel), Moves(cut, rel)
    PROVE  Agrees
BY ZenonT(30) DEF Profile, Agrees, Moves

\* A step that emits reports at most, and moves on to Ready at most.
LEMMA InertBatch ==
    ASSUME IInv, NEW fx, Inert(fx), Len(fx) <= 2,
           sink' = fx, cursor' = cursor, released' = released,
           retry' = retry \/ retry' = [c \in Comp |-> 0],
           \/ state' = "Ready"
           \/ state' = state /\ state # "Locked" /\ (subject' = subject \/ state \in Walking),
           NEW ev, state' = "Ready" \/ ~Awaits(ev)
    PROVE  Batch(ev)
<1>0. N \in 1..255
  BY ChainAssumption
<1>2. Quiet(fx) /\ Profile(fx, {}, {})
  BY InertProfile
<1>3. fx \in Seq(Effect) /\ Len(fx) \in Nat
  BY <1>2 DEF Quiet
<1>4. Shaped(fx, cursor) /\ ~Has(fx, "VerifyFirmware", cursor)
  BY <1>2, QuietShaped
<1>5. Shapes
  BY <1>0, <1>3, <1>4 DEF Shapes
<1>6. Agrees
  <2>1. Profile(sink', {}, {})
    BY <1>2
  <2>2. Moves({}, {})
    BY DEF Moves
  <2> QED
    BY <2>1, <2>2, AgreesFrom
<1>7. \A c \in Comp : ~Cuts(sink', c)
  BY <1>2, ZenonT(30) DEF Profile
<1>8. Asks(ev)
  <2>1. CASE state' = "Ready"
    BY <2>1 DEF Asks, Walking
  <2>2. CASE state' = state /\ ~Awaits(ev) /\ (subject' = subject \/ state \in Walking)
    <3>1. "Recovering" \notin Walking
      BY DEF Walking
    <3> QED
      BY <1>7, <2>2, <3>1, ZenonT(30) DEF Asks
  <2> QED
    BY <2>1, <2>2
<1>9. \A e \in Elems(fx) : e.op # "RecoverComponent"
  BY DEF Inert, Spawns
<1>10. Counts
  <2>1. retry' = [c \in Comp |-> 0] => \A c \in Comp : Below(retry'[c])
    BY ZenonT(30) DEF Below
  <2> QED
    BY <1>9, <2>1, ZenonT(30) DEF Counts
<1>11. state' # "Locked"
  OBVIOUS
<1> QED
  BY <1>5, <1>6, <1>8, <1>10, <1>11, ZenonT(30) DEF Batch

\* An event that is dropped or only reported, and was not waited for.
LEMMA ReportBatch ==
    ASSUME IInv, state # "Locked", NEW fx, Inert(fx), Len(fx) <= 2, Report(fx),
           NEW ev, ~Awaits(ev)
    PROVE  Batch(ev)
<1>1. /\ sink' = fx /\ state' = state /\ subject' = subject /\ cursor' = cursor
      /\ released' = released /\ retry' = retry
  BY DEF Report
<1> QED
  BY <1>1, InertBatch

\* Entering Recovering: the failed component is held and a restore asked for.
LEMMA RecoveringBatch ==
    ASSUME IInv, NEW fx, Inert(fx), Len(fx) <= 2, NEW id \in Comp, EnterRecovering(fx, id), NEW ev
    PROVE  Batch(ev)
<1> DEFINE e == RecoverComponent(id)
<1>0. N \in 1..255
  BY ChainAssumption
<1>1. /\ state' = "Recovering" /\ subject' = id
      /\ released' = released \ {id} /\ retry' = retry /\ sink' = fx \o <<e>>
  BY DEF EnterRecovering
<1>2. Quiet(fx) /\ Profile(fx, {}, {}) /\ fx \in Seq(Effect)
  BY InertProfile DEF Inert
<1>3. e.op = "RecoverComponent" /\ e.id = id /\ e.attempt = retry[id] /\ e \in Effect
  <2>1. retry[id] \in 0..255
    BY ZenonT(30) DEF IInv, TypeOK
  <2> QED
    BY ZenonT(30), <2>1 DEF RecoverComponent, Effect
<1> HIDE DEF e
<1>4. /\ Shaped(fx \o <<e>>, cursor') /\ fx \o <<e>> \in Seq(Effect)
      /\ Elems(fx \o <<e>>) = Elems(fx) \cup {e} /\ Len(fx \o <<e>>) = Len(fx) + 1
  <2>1. e.op # "VerifyFirmware"
    BY <1>3
  <2> QED
    BY <1>2, <1>3, <2>1, LastShaped, ZenonT(30)
<1>5. ~Has(fx \o <<e>>, "VerifyFirmware", cursor')
  <2>1. \A x \in Elems(fx) : x.op # "VerifyFirmware"
    BY DEF Inert, Spawns
  <2> QED
    BY <1>3, <1>4, <2>1 DEF Has
<1>6. Shapes
  <2>1. Len(fx) \in Nat
    BY <1>2
  <2> QED
    BY <1>0, <1>1, <1>4, <1>5, <2>1 DEF Shapes
<1>7. Profile(<<e>>, {id}, {})
  <2>1. Elems(<<e>>) = {e}
    BY ElemsShort, ZenonT(30)
  <2> QED
    BY <1>3, <2>1 DEF Profile, Cuts, Has
<1>8. Agrees
  <2>1. <<e>> \in Seq(Effect)
    BY <1>3, ShortBatch
  <2>2. Profile(fx \o <<e>>, {} \cup {id}, {} \cup {})
    BY ZenonT(30), <1>2, <1>7, <2>1, ProfileConcat
  <2>3. Profile(sink', {id}, {})
    <3>1. {} \cup {id} = {id} /\ {} \cup {} = {}
      OBVIOUS
    <3> QED
      BY <1>1, <2>2, <3>1
  <2>4. Moves({id}, {})
    BY <1>1 DEF Moves
  <2> QED
    BY <2>3, <2>4, AgreesFrom
<1>9. Asks(ev)
  <2>1. Has(sink', "RecoverComponent", subject')
    BY <1>1, <1>3, <1>4 DEF Has
  <2> QED
    BY <1>1, <2>1 DEF Asks, Walking
<1>10. Counts
  <2>1. \A x \in Elems(fx) : x.op # "RecoverComponent"
    BY DEF Inert, Spawns
  <2> QED
    BY <1>1, <1>3, <1>4, <2>1, ZenonT(30) DEF Counts
<1> QED
  BY ZenonT(30), <1>1, <1>6, <1>8, <1>9, <1>10 DEF Batch

\* Entering PreSupervision: whoever is live is held before the walk starts.
LEMMA PreSupervisionBatch ==
    ASSUME IInv, NEW fx, Quiet(fx), NEW cut \in SUBSET Comp, Profile(fx, cut, {}),
           NEW iso \in SUBSET Comp, NEW live \in SUBSET Comp, NEW waits,
           released \subseteq cut \cup live, Len(fx) + Cardinality(live) <= 2 * N,
           EnterPreSupervision(fx, iso, live, waits),
           (\A c \in Comp : Below(retry[c])) => (\A c \in Comp : Below(retry'[c])),
           NEW ev
    PROVE  Batch(ev)
<1> DEFINE q == QuiesceEffects(live)
           n == NextUngated(1, iso)
           w == WalkEffects(n)
           fq == fx \o q
           all == fq \o w
<1>0. N \in 1..255
  BY ChainAssumption
<1>1. state' = "PreSupervision" /\ released' = {} /\ cursor' = n /\ sink' = all
  BY ZenonT(30) DEF EnterPreSupervision
<1>2. n \in 1..(N + 1)
  BY <1>0, NextUngatedIsFirst
<1>3. Quiet(q) /\ q \in Seq(Effect) /\ Profile(q, live, {})
  BY QuiesceProfile
<1>4. Len(q) <= Cardinality(live)
  BY ZenonT(30), QuiesceContents
<1> HIDE DEF q, n, w, all
<1>5. fx \in Seq(Effect)
  BY DEF Quiet
<1>6. Quiet(fq) /\ fq \in Seq(Effect) /\ Len(fq) = Len(fx) + Len(q)
      /\ Len(fx) \in Nat /\ Len(q) \in Nat
  <2>1. \A S : \A a, b \in Seq(S) : /\ a \o b \in Seq(S) /\ Len(a \o b) = Len(a) + Len(b)
                                   /\ Len(a) \in Nat /\ Len(b) \in Nat
    OBVIOUS
  <2>2. Quiet(fq)
    BY <1>3, QuietConcat
  <2> QED
    BY <1>3, <1>5, <2>1, <2>2
<1> HIDE DEF fq
<1>7. /\ Shaped(all, n) /\ all \in Seq(Effect)
      /\ Elems(all) =
           Elems(fq) \cup (IF n \in Comp THEN {Fx("ReadFirmware", n), Fx("VerifyFirmware", n)} ELSE {})
      /\ Len(all) = IF n \in Comp THEN Len(fq) + 2 ELSE Len(fq)
      /\ w \in Seq(Effect) /\ Profile(w, {}, {})
  BY <1>2, <1>6, WalkShaped DEF w, all
<1>8. Shapes
  <2>1. Cardinality(live) \in Nat
    BY CompCounts
  <2>2. Len(all) <= 2 * N + 2
    <3>1. Len(all) <= Len(fq) + 2 /\ Len(fq) = Len(fx) + Len(q)
      BY <1>6, <1>7
    <3> QED
      BY <1>0, <1>4, <1>6, <2>1, <3>1
  <2>3. n \notin Comp => ~Has(sink', "VerifyFirmware", n)
    <3>1. \A e \in Elems(fq) : e.op # "VerifyFirmware"
      BY <1>6 DEF Quiet, Spawns
    <3> QED
      BY <1>1, <1>7, <3>1 DEF Has
  <2>4. n \in Comp => Fx("ReadFirmware", n) \in Elems(sink')
    BY <1>1, <1>7
  <2>5. state' \in Walking
    BY <1>1 DEF Walking
  <2> QED
    BY ZenonT(30), <1>1, <1>7, <2>2, <2>3, <2>4, <2>5 DEF Shapes
<1>9. Agrees
  <2>1. Profile(fq, cut \cup live, {} \cup {})
    BY ZenonT(30), <1>3, <1>5, ProfileConcat DEF fq
  <2>2. Profile(all, (cut \cup live) \cup {}, ({} \cup {}) \cup {})
    BY ZenonT(30), <1>6, <1>7, <2>1, ProfileConcat DEF all
  <2>3. Profile(sink', cut \cup live, {})
    <3>1. (cut \cup live) \cup {} = cut \cup live /\ ({} \cup {}) \cup {} = {}
      BY ZenonT(30)
    <3> QED
      BY <1>1, <2>2, <3>1
  <2>4. Moves(cut \cup live, {})
    BY <1>1 DEF Moves
  <2> QED
    BY <2>3, <2>4, AgreesFrom
<1>10. Asks(ev)
  <2>1. n \in Comp => Has(sink', "VerifyFirmware", n)
    <3>1. n \in Comp => Fx("VerifyFirmware", n) \in Elems(sink')
      BY <1>1, <1>7
    <3> QED
      BY <3>1, FxHas
  <2> QED
    BY <1>1, <2>1 DEF Asks
<1>11. Counts
  <2>1. \A e \in Elems(fq) : e.op # "RecoverComponent"
    BY <1>6 DEF Quiet, Spawns
  <2>2. Fx("ReadFirmware", n).op # "RecoverComponent" /\ Fx("VerifyFirmware", n).op # "RecoverComponent"
    BY FxIs
  <2>3. \A e \in Elems(sink') : e.op # "RecoverComponent"
    BY <1>1, <1>7, <2>1, <2>2
  <2> QED
    BY <2>3 DEF Counts
<1> QED
  BY ZenonT(30), <1>1, <1>8, <1>9, <1>10, <1>11 DEF Batch

\* Gating by policy outside the walk, or past nobody under verification.
LEMMA GateBatch ==
    ASSUME IInv, state # "Locked", NEW fx, Inert(fx), Len(fx) <= 1, NEW id \in Comp, Gates(id),
           Hold(NewlyGated(id)), sink' = fx \o GateEffects(id),
           UNCHANGED <<state, subject, cursor, retry>>,
           state \in Walking => cursor \notin NewlyGated(id),
           NEW ev, ~Awaits(ev)
    PROVE  Batch(ev)
<1> DEFINE q == GateEffects(id)
           G == NewlyGated(id)
<1>0. N \in 1..255
  BY ChainAssumption
<1>1. GatedBy(id) \subseteq Comp
  BY GatingContains DEF IInv, TypeOK, CascadeContained
<1>2. G \subseteq Comp
  BY <1>1 DEF NewlyGated
<1>3. Quiet(q) /\ q \in Seq(Effect) /\ Profile(q, G, {})
  BY GateProfile
<1>4. Len(q) \in Nat /\ Len(q) <= 2 * Cardinality(G) /\ Cardinality(G) \in Nat /\ Cardinality(G) <= N
  BY <1>1, <1>2, GateLength, CompCounts
<1>5. released' = released \ G /\ sink' = fx \o q
  BY DEF Hold
<1>6. state \in Walking => cursor \notin G
  OBVIOUS
<1> HIDE DEF q, G
<1>7. Quiet(fx) /\ Profile(fx, {}, {}) /\ fx \in Seq(Effect)
  BY InertProfile DEF Inert
<1>8. Quiet(fx \o q) /\ fx \o q \in Seq(Effect) /\ Len(fx \o q) = Len(fx) + Len(q) /\ Len(fx) \in Nat
  <2>1. \A S : \A a, b \in Seq(S) : /\ a \o b \in Seq(S) /\ Len(a \o b) = Len(a) + Len(b)
                                   /\ Len(a) \in Nat
    OBVIOUS
  <2>2. Quiet(fx \o q)
    BY <1>3, <1>7, QuietConcat
  <2> QED
    BY <1>3, <1>7, <2>1, <2>2, ZenonT(30)
<1>9. Shaped(fx \o q, cursor') /\ ~Has(fx \o q, "VerifyFirmware", cursor')
  BY <1>8, QuietShaped
<1>10. Shapes
  <2>1. Len(fx \o q) <= 2 * N + 2
    BY <1>0, <1>4, <1>8
  <2> QED
    BY ZenonT(30), <1>5, <1>8, <1>9, <2>1 DEF Shapes
<1>11. Profile(sink', G, {})
  <2>1. Profile(fx \o q, {} \cup G, {} \cup {})
    BY <1>3, <1>7, ProfileConcat
  <2>2. {} \cup G = G /\ {} \cup {} = {}
    OBVIOUS
  <2> QED
    BY <1>5, <2>1, <2>2
<1>12. Agrees
  <2>1. Moves(G, {})
    BY <1>5 DEF Moves
  <2> QED
    BY <1>11, <2>1, AgreesFrom
<1>13. Asks(ev)
  <2>1. state \in Walking /\ cursor \in Comp => ~Cuts(sink', cursor)
    BY <1>6, <1>11, ZenonT(30) DEF Profile
  <2> QED
    BY <2>1, ZenonT(30) DEF Asks
<1>14. Counts
  <2>1. \A e \in Elems(fx \o q) : e.op # "RecoverComponent"
    BY <1>8 DEF Quiet, Spawns
  <2> QED
    BY <1>5, <2>1, ZenonT(30) DEF Counts
<1> QED
  BY <1>10, <1>12, <1>13, <1>14, ZenonT(30) DEF Batch

\* Gating the component under verification: the walk moves past it.
LEMMA AdvanceBatch ==
    ASSUME IInv, state \in Walking, NEW fx, Inert(fx), Len(fx) <= 1, NEW id \in Comp, Gates(id),
           Hold(NewlyGated(id)), NEW n \in 1..(N + 1), n \notin NewlyGated(id), cursor' = n,
           sink' = (fx \o GateEffects(id)) \o WalkEffects(n),
           IF n \in Comp THEN UNCHANGED <<state, subject, retry>> ELSE EnterReady,
           NEW ev
    PROVE  Batch(ev)
<1> DEFINE q == GateEffects(id)
           G == NewlyGated(id)
           w == WalkEffects(n)
<1>0. N \in 1..255
  BY ZenonT(30), ChainAssumption
<1>1. GatedBy(id) \subseteq Comp
  BY GatingContains DEF IInv, TypeOK, CascadeContained
<1>2. G \subseteq Comp
  BY <1>1 DEF NewlyGated
<1>3. Quiet(q) /\ q \in Seq(Effect) /\ Profile(q, G, {})
  BY GateProfile
<1>4. Len(q) \in Nat /\ Len(q) <= 2 * Cardinality(G) /\ Cardinality(G) \in Nat /\ Cardinality(G) <= N
  BY ZenonT(30), <1>1, <1>2, GateLength, CompCounts
<1>5. n \in Comp => Cardinality(G) + 1 <= N
  BY <1>2, CompCounts
<1>6. released' = released \ G /\ sink' = (fx \o q) \o w
  BY DEF Hold
<1> HIDE DEF q, G, w
<1>7. Quiet(fx) /\ Profile(fx, {}, {}) /\ fx \in Seq(Effect)
  BY InertProfile DEF Inert
<1>8. Quiet(fx \o q) /\ fx \o q \in Seq(Effect) /\ Len(fx \o q) = Len(fx) + Len(q) /\ Len(fx) \in Nat
  <2>1. \A S : \A a, b \in Seq(S) : /\ a \o b \in Seq(S) /\ Len(a \o b) = Len(a) + Len(b)
                                   /\ Len(a) \in Nat
    OBVIOUS
  <2>2. Quiet(fx \o q)
    BY <1>3, <1>7, QuietConcat
  <2> QED
    BY <1>3, <1>7, <2>1, <2>2, ZenonT(30)
<1>9. /\ Shaped((fx \o q) \o w, n) /\ (fx \o q) \o w \in Seq(Effect)
      /\ Elems((fx \o q) \o w) =
           Elems(fx \o q) \cup (IF n \in Comp THEN {Fx("ReadFirmware", n), Fx("VerifyFirmware", n)} ELSE {})
      /\ Len((fx \o q) \o w) = IF n \in Comp THEN Len(fx \o q) + 2 ELSE Len(fx \o q)
      /\ w \in Seq(Effect) /\ Profile(w, {}, {})
  BY <1>8, WalkShaped, ZenonT(30) DEF w
<1>10. \A e \in Elems(fx \o q) : e.op # "RecoverComponent" /\ e.op # "VerifyFirmware"
  BY <1>8 DEF Quiet, Spawns
<1>11. n \in Comp => state' \in Walking
  OBVIOUS
<1>12. n \notin Comp => state' = "Ready" /\ retry' = [c \in Comp |-> 0]
  BY ZenonT(30) DEF EnterReady
<1>13. Shapes
  <2>1. Len((fx \o q) \o w) <= 2 * N + 2
    <3>1. CASE n \in Comp
      BY <1>0, <1>4, <1>5, <1>8, <1>9, <3>1
    <3>2. CASE n \notin Comp
      BY <1>0, <1>4, <1>8, <1>9, <3>2
    <3> QED
      BY <3>1, <3>2
  <2>2. n \notin Comp => ~Has(sink', "VerifyFirmware", n)
    BY ZenonT(30), <1>6, <1>9, <1>10 DEF Has
  <2>3. n \in Comp => Fx("ReadFirmware", n) \in Elems(sink')
    BY <1>6, <1>9
  <2> QED
    BY <1>6, <1>9, <1>11, <2>1, <2>2, <2>3, ZenonT(30) DEF Shapes
<1>14. Agrees
  <2>1. Profile(fx \o q, {} \cup G, {} \cup {})
    BY <1>3, <1>7, ProfileConcat
  <2>2. Profile((fx \o q) \o w, ({} \cup G) \cup {}, ({} \cup {}) \cup {})
    BY ZenonT(30), <1>8, <1>9, <2>1, ProfileConcat
  <2>3. Profile(sink', G, {})
    <3>1. ({} \cup G) \cup {} = G /\ ({} \cup {}) \cup {} = {}
      OBVIOUS
    <3> QED
      BY ZenonT(30), <1>6, <2>2, <3>1
  <2>4. Moves(G, {})
    BY <1>6 DEF Moves
  <2> QED
    BY ZenonT(30), <2>3, <2>4, AgreesFrom
<1>15. Asks(ev)
  <2>1. n \in Comp => Has(sink', "VerifyFirmware", n)
    <3>1. n \in Comp => Fx("VerifyFirmware", n) \in Elems(sink')
      BY <1>6, <1>9
    <3> QED
      BY <3>1, FxHas, ZenonT(30)
  <2>2. CASE n \in Comp
    BY <1>11, <2>1, <2>2 DEF Asks, Walking
  <2>3. CASE n \notin Comp
    BY <1>12, <2>3 DEF Asks, Walking
  <2> QED
    BY <2>2, <2>3
<1>16. Counts
  <2>2. Fx("ReadFirmware", n).op # "RecoverComponent" /\ Fx("VerifyFirmware", n).op # "RecoverComponent"
    BY FxIs
  <2>3. \A e \in Elems(sink') : e.op # "RecoverComponent"
    BY <1>6, <1>9, <1>10, <2>2
  <2>4. CASE n \in Comp
    <3>1. retry' = retry
      BY <2>4
    <3> QED
      BY <2>3, <3>1, ZenonT(30) DEF Counts
  <2>5. CASE n \notin Comp
    <3>1. \A c \in Comp : Below(retry'[c])
      BY <1>12, <2>5, ZenonT(30) DEF Below
    <3> QED
      BY <2>3, <3>1, ZenonT(30) DEF Counts
  <2> QED
    BY <2>4, <2>5
<1>17. state' # "Locked"
  BY <1>11, <1>12 DEF Walking
<1> QED
  BY <1>13, <1>14, <1>15, <1>16, <1>17, ZenonT(30) DEF Batch

\* Releasing the component under the cursor and moving on.
LEMMA ReleaseBatch ==
    ASSUME IInv, state \in Walking, cursor \in Comp, ReleaseCursor,
           \/ cursor' \notin Comp /\ EnterReady
           \/ /\ cursor' \in Comp
              /\ state' = "AwaitingReady" \/ UNCHANGED state
              /\ retry' = [retry EXCEPT ![cursor] = 0],
           NEW ev
    PROVE  Batch(ev)
<1> DEFINE n == NextUngated(cursor + 1, isolated)
           q == <<Fx("ReleaseReset", cursor)>>
           w == WalkEffects(n)
<1>0. N \in 1..255 /\ cursor + 1 \in 1..(N + 2)
  BY ChainAssumption DEF Comp
<1>1. released' = released \cup {cursor} /\ cursor' = n /\ sink' = q \o w
  BY DEF ReleaseCursor
<1>2. n \in 1..(N + 1)
  BY <1>0, NextUngatedIsFirst DEF IInv, TypeOK
<1>3. Fx("ReleaseReset", cursor) \in Effect
  BY FxIsEffect DEF CompOps
<1>4. /\ Elems(q) = {Fx("ReleaseReset", cursor)} /\ q \in Seq(Effect) /\ Len(q) = 1
      /\ Fx("ReleaseReset", cursor).op = "ReleaseReset" /\ Fx("ReleaseReset", cursor).id = cursor
  BY <1>3, ElemsShort, ShortBatch, FxIs, ZenonT(30)
<1>5. Quiet(q) /\ Profile(q, {}, {cursor})
  <2> HIDE DEF q
  <2>1. \A e \in Elems(q) : e.op = "ReleaseReset" /\ e.id = cursor
    BY <1>4
  <2>2. Quiet(q)
    BY <1>4, <2>1 DEF Quiet, Spawns
  <2>3. Profile(q, {}, {cursor})
    BY <1>4, <2>1 DEF Profile, Cuts, Has
  <2> QED
    BY <2>2, <2>3
<1> HIDE DEF n, q, w
<1>6. /\ Shaped(q \o w, n) /\ q \o w \in Seq(Effect)
      /\ Elems(q \o w) =
           Elems(q) \cup (IF n \in Comp THEN {Fx("ReadFirmware", n), Fx("VerifyFirmware", n)} ELSE {})
      /\ Len(q \o w) = IF n \in Comp THEN Len(q) + 2 ELSE Len(q)
      /\ w \in Seq(Effect) /\ Profile(w, {}, {})
  BY <1>2, <1>5, WalkShaped, ZenonT(30) DEF w
<1>7. n \in Comp => state' \in Walking
  BY <1>1 DEF Walking
<1>8. n \notin Comp => state' = "Ready" /\ retry' = [c \in Comp |-> 0]
  BY <1>1, ZenonT(30) DEF EnterReady
<1>9. \A e \in Elems(q) : e.op # "RecoverComponent" /\ e.op # "VerifyFirmware"
  BY <1>4
<1>10. Shapes
  <2>1. Len(q \o w) <= 2 * N + 2
    BY <1>0, <1>4, <1>6
  <2>2. n \notin Comp => ~Has(sink', "VerifyFirmware", n)
    BY ZenonT(30), <1>1, <1>6, <1>9 DEF Has
  <2>3. n \in Comp => Fx("ReadFirmware", n) \in Elems(sink')
    BY <1>1, <1>6
  <2> QED
    BY <1>1, <1>6, <1>7, <2>1, <2>2, <2>3, ZenonT(30) DEF Shapes
<1>11. Agrees
  <2>1. Profile(q \o w, {} \cup {}, {cursor} \cup {})
    BY ZenonT(30), <1>4, <1>5, <1>6, ProfileConcat
  <2>2. Profile(sink', {}, {cursor})
    <3>1. {} \cup {} = {} /\ {cursor} \cup {} = {cursor}
      OBVIOUS
    <3> QED
      BY <1>1, <2>1, <3>1
  <2>3. Moves({}, {cursor})
    BY <1>1 DEF Moves
  <2> QED
    BY <2>2, <2>3, AgreesFrom
<1>12. Asks(ev)
  <2>1. n \in Comp => Has(sink', "VerifyFirmware", n)
    <3>1. n \in Comp => Fx("VerifyFirmware", n) \in Elems(sink')
      BY <1>1, <1>6
    <3> QED
      BY <3>1, FxHas, ZenonT(30)
  <2>2. CASE n \in Comp
    BY ZenonT(30), <1>1, <1>7, <2>1, <2>2 DEF Asks, Walking
  <2>3. CASE n \notin Comp
    BY <1>8, <2>3 DEF Asks, Walking
  <2> QED
    BY <2>2, <2>3
<1>13. Counts
  <2>2. Fx("ReadFirmware", n).op # "RecoverComponent" /\ Fx("VerifyFirmware", n).op # "RecoverComponent"
    BY FxIs
  <2>3. \A e \in Elems(sink') : e.op # "RecoverComponent"
    BY <1>1, <1>6, <1>9, <2>2
  <2>4. CASE n \in Comp
    <3>1. retry' = [retry EXCEPT ![cursor] = 0] /\ retry \in [Comp -> 0..255]
      BY ZenonT(30), <1>1, <2>4 DEF IInv, TypeOK
    <3>2. \A c \in Comp : retry'[c] = 0 \/ retry'[c] = retry[c]
      BY <3>1
    <3>3. (\A c \in Comp : Below(retry[c])) => (\A c \in Comp : Below(retry'[c]))
      BY <3>2, ZenonT(30) DEF Below
    <3> QED
      BY <2>3, <3>3, ZenonT(30) DEF Counts
  <2>5. CASE n \notin Comp
    <3>1. \A c \in Comp : Below(retry'[c])
      BY <1>8, <2>5, ZenonT(30) DEF Below
    <3> QED
      BY <2>3, <3>1, ZenonT(30) DEF Counts
  <2> QED
    BY <2>4, <2>5
<1>14. state' # "Locked"
  BY <1>7, <1>8 DEF Walking
<1> QED
  BY <1>10, <1>11, <1>12, <1>13, <1>14, ZenonT(30) DEF Batch

\* Nothing, or a report of one component, before the effects that matter.
LEMMA ReportsInert ==
    /\ Inert(<<>>) /\ Len(<<>>) = 0
    /\ \A c \in Comp : /\ Inert(<<Fx("ReportBootFailed", c)>>) /\ Len(<<Fx("ReportBootFailed", c)>>) = 1
                       /\ Inert(<<Fx("CommitSvnFloor", c)>>) /\ Len(<<Fx("CommitSvnFloor", c)>>) = 1
    /\ \A op \in PlainOps \ {"AuthenticateUpdate"} :
          Inert(<<Fx(op, None)>>) /\ Len(<<Fx(op, None)>>) = 1
<1>1. Inert(<<>>) /\ Len(<<>>) = 0
  BY ElemsShort DEF Inert
<1>2. ASSUME NEW e \in Effect, ~Spawns(e), e.op \notin {"AssertReset", "ReleaseReset"}
      PROVE  Inert(<<e>>) /\ Len(<<e>>) = 1
  <2>1. Elems(<<e>>) = {e}
    BY ElemsShort, ZenonT(30)
  <2>2. <<e>> \in Seq(Effect) /\ Len(<<e>>) = 1
    BY ShortBatch, ZenonT(30)
  <2> QED
    BY <1>2, <2>1, <2>2, ZenonT(30) DEF Inert
<1>3. ASSUME NEW c \in Comp, NEW op \in {"ReportBootFailed", "CommitSvnFloor"}
      PROVE  Inert(<<Fx(op, c)>>) /\ Len(<<Fx(op, c)>>) = 1
  <2>1. op \in CompOps
    BY DEF CompOps
  <2>2. Fx(op, c) \in Effect
    BY <2>1, FxIsEffect, ZenonT(30)
  <2>3. ~Spawns(Fx(op, c)) /\ Fx(op, c).op \notin {"AssertReset", "ReleaseReset"}
    BY FxIs DEF Spawns
  <2> QED
    BY <1>2, <2>2, <2>3, ZenonT(30)
<1>4. ASSUME NEW op \in PlainOps \ {"AuthenticateUpdate"}
      PROVE  Inert(<<Fx(op, None)>>) /\ Len(<<Fx(op, None)>>) = 1
  <2>1. Fx(op, None) \in Effect
    BY FxIsEffect, ZenonT(30)
  <2>2. ~Spawns(Fx(op, None)) /\ Fx(op, None).op \notin {"AssertReset", "ReleaseReset"}
    BY FxIs DEF Spawns, PlainOps
  <2> QED
    BY <1>2, <2>1, <2>2, ZenonT(30)
<1> QED
  BY ZenonT(30), <1>1, <1>3, <1>4

\* The empty batch.
LEMMA EmptyInert == Inert(<<>>) /\ Len(<<>>) <= 1 /\ Len(<<>>) <= 2 /\ Len(<<>>) = 0
<1>1. Inert(<<>>)
  BY ReportsInert, ZenonT(30)
<1>2. Len(<<>>) = 0
  OBVIOUS
<1> QED
  BY <1>1, <1>2

\* handle_corruption outside the walk.
LEMMA CorruptionBatch ==
    ASSUME IInv, state # "Locked", state \notin Walking, NEW fx, Inert(fx), Len(fx) <= 1,
           NEW id \in Comp, HandleCorruption(fx, id), NEW ev, ~Awaits(ev)
    PROVE  Batch(ev)
<1>0. Len(fx) <= 2
  <2>1. Len(fx) \in Nat
    BY DEF Inert
  <2> QED
    BY <2>1
<1>1. CASE id \in isolated /\ Report(fx)
  BY <1>0, <1>1, ReportBatch
<1>2. CASE id \notin isolated /\ ~Gates(id) /\ EnterRecovering(fx, id)
  BY ZenonT(30), <1>0, <1>2, RecoveringBatch
<1>3. CASE /\ id \notin isolated
           /\ Gates(id)
           /\ Hold(NewlyGated(id))
           /\ sink' = fx \o GateEffects(id)
           /\ UNCHANGED <<state, subject, cursor, retry, pending_commit>>
  BY <1>3, GateBatch
<1> QED
  BY <1>1, <1>2, <1>3 DEF HandleCorruption

\* handle_corruption_advancing, during the walk.
LEMMA CorruptionAdvancingBatch ==
    ASSUME IInv, state \in Walking, NEW fx, Inert(fx), Len(fx) <= 1,
           NEW id \in Comp, HandleCorruptionAdvancing(fx, id), NEW ev, ~Awaits(ev)
    PROVE  Batch(ev)
<1> DEFINE gated == IF id \in isolated THEN {} ELSE NewlyGated(id)
           iso   == isolated \cup gated
           next  == NextUngated(cursor + 1, iso)
<1>0. N \in 1..255 /\ state # "Locked"
  BY ChainAssumption DEF Walking
<1>1. Len(fx) <= 2
  <2>1. Len(fx) \in Nat
    BY DEF Inert
  <2> QED
    BY <2>1
<1>2. \/ id \notin isolated /\ ~Gates(id) /\ EnterRecovering(fx, id)
      \/ /\ id \in isolated \/ Gates(id)
         /\ cursor \notin iso
         /\ HandleCorruption(fx, id)
      \/ /\ id \in isolated \/ Gates(id)
         /\ cursor \in iso
         /\ Hold(gated)
         /\ cursor' = next
         /\ sink' = fx \o (IF id \in isolated THEN <<>> ELSE GateEffects(id)) \o WalkEffects(next)
         /\ IF next \in Comp THEN UNCHANGED <<state, subject, retry>> ELSE EnterReady
  BY ZenonT(30) DEF HandleCorruptionAdvancing
<1>3. CASE EnterRecovering(fx, id)
  BY ZenonT(30), <1>1, <1>3, RecoveringBatch
<1>4. CASE cursor \notin iso /\ HandleCorruption(fx, id)
  <2>1. CASE id \in isolated /\ Report(fx)
    BY ZenonT(30), <1>0, <1>1, <2>1, ReportBatch
  <2>2. CASE id \notin isolated /\ ~Gates(id) /\ EnterRecovering(fx, id)
    BY ZenonT(30), <1>1, <2>2, RecoveringBatch
  <2>3. CASE /\ id \notin isolated
             /\ Gates(id)
             /\ Hold(NewlyGated(id))
             /\ sink' = fx \o GateEffects(id)
             /\ UNCHANGED <<state, subject, cursor, retry, pending_commit>>
    <3>1. cursor \notin NewlyGated(id)
      BY ZenonT(30), <1>4, <2>3
    <3> QED
      BY ZenonT(30), <1>0, <2>3, <3>1, GateBatch
  <2> QED
    BY ZenonT(30), <1>4, <2>1, <2>2, <2>3 DEF HandleCorruption
<1>5. CASE /\ id \in isolated \/ Gates(id)
           /\ cursor \in iso
           /\ Hold(gated)
           /\ cursor' = next
           /\ sink' = fx \o (IF id \in isolated THEN <<>> ELSE GateEffects(id)) \o WalkEffects(next)
           /\ IF next \in Comp THEN UNCHANGED <<state, subject, retry>> ELSE EnterReady
  <2>1. cursor \notin isolated
    BY DEF IInv, CursorNotIsolated
  <2>2. id \notin isolated /\ gated = NewlyGated(id)
    BY <1>5, <2>1
  <2>3. GatedBy(id) \subseteq Comp
    BY ZenonT(30), <1>5, <2>2, GatingContains DEF IInv, TypeOK, CascadeContained
  <2>4. iso \in SUBSET Comp
    BY ZenonT(30), <2>2, <2>3 DEF NewlyGated, IInv, TypeOK
  <2>5. cursor \in Comp /\ cursor + 1 \in 1..(N + 2)
    BY <1>0, <1>5, <2>4 DEF Comp
  <2>6. next \in 1..(N + 1) /\ next \notin iso
    <3> HIDE DEF iso
    <3> QED
      BY ZenonT(30), <2>4, <2>5, NextUngatedIsFirst
  <2>7. next \notin NewlyGated(id)
    BY <2>2, <2>6
  <2>8. sink' = (fx \o GateEffects(id)) \o WalkEffects(next)
    BY <1>5, <2>2, ZenonT(30)
  <2>9. /\ Gates(id) /\ Hold(NewlyGated(id)) /\ cursor' = next
        /\ IF next \in Comp THEN UNCHANGED <<state, subject, retry>> ELSE EnterReady
    BY <1>5, <2>2, ZenonT(30)
  <2> HIDE DEF next
  <2> QED
    BY ZenonT(30), <2>6, <2>7, <2>8, <2>9, AdvanceBatch
<1> QED
  BY <1>2, <1>3, <1>4, <1>5, ZenonT(30)

\* exhaust_recovery, after the restores of `subject` have run out.
LEMMA ExhaustBatch ==
    ASSUME IInv, state = "Recovering", NEW rt \in [Comp -> 0..255],
           \A c \in Comp : c # subject => rt[c] = retry[c],
           ExhaustRecovery(subject, rt), NEW ev
    PROVE  Batch(ev)
<1>0. N \in 1..255 /\ subject \in Comp /\ isolated \in SUBSET Comp /\ released \in SUBSET Comp
  BY ChainAssumption DEF IInv, TypeOK
<1>1. CASE /\ Gates(subject)
           /\ retry' = [rt EXCEPT ![subject] = 0]
           /\ EnterPreSupervision(GateEffects(subject), isolated \cup NewlyGated(subject),
                                  released \ NewlyGated(subject),
                                  awaiting_boot \ NewlyGated(subject))
  <2> DEFINE G == NewlyGated(subject)
             q == GateEffects(subject)
             live == released \ G
             iso == isolated \cup G
  <2>1. GatedBy(subject) \subseteq Comp
    BY ZenonT(30), <1>0, <1>1, GatingContains DEF IInv, TypeOK, CascadeContained
  <2>2. G \in SUBSET Comp
    BY <2>1 DEF NewlyGated
  <2>3. Quiet(q) /\ Profile(q, G, {})
    BY <1>0, GateProfile
  <2>4. Len(q) \in Nat /\ Len(q) <= 2 * Cardinality(G) /\ Cardinality(G) \in Nat /\ Cardinality(G) <= N
    BY ZenonT(30), <1>0, <2>1, <2>2, GateLength, CompCounts
  <2>5. EnterPreSupervision(q, iso, live, awaiting_boot \ G)
    BY <1>1
  <2> HIDE DEF G, q
  <2>6. live \in SUBSET Comp /\ iso \in SUBSET Comp /\ released \subseteq G \cup live /\ G \cap live = {}
    BY <1>0, <2>2
  <2> HIDE DEF live, iso
  <2>7. Cardinality(live) \in Nat /\ Cardinality(G) + Cardinality(live) <= N
    BY ZenonT(30), <2>2, <2>6, CompCounts
  <2>8. Len(q) + Cardinality(live) <= 2 * N
    BY <1>0, <2>4, <2>7
  <2>9. (\A c \in Comp : Below(retry[c])) => (\A c \in Comp : Below(retry'[c]))
    <3>1. \A c \in Comp : retry'[c] = 0 \/ retry'[c] = retry[c]
      BY <1>0, <1>1
    <3> QED
      BY <3>1, ZenonT(30) DEF Below
  <2> QED
    BY <2>2, <2>3, <2>5, <2>6, <2>8, <2>9, PreSupervisionBatch, ZenonT(30)
<1>2. CASE /\ ~Gates(subject)
           /\ retry' = rt
           /\ sink' = <<Fx("ReportRecoveryFailed", subject), Emit("RecoveryFailed")>>
           /\ UNCHANGED <<state, subject, cursor, isolated, released, awaiting_boot,
                          pending_commit>>
  <2> DEFINE a == Fx("ReportRecoveryFailed", subject)
             b == Emit("RecoveryFailed")
  <2>1. a \in Effect /\ a.op = "ReportRecoveryFailed"
    BY ZenonT(30), <1>0, FxIsEffect, FxIs DEF CompOps
  <2>2. b \in Effect /\ b.op = "Emit"
    BY DEF Effect, Emit
  <2>3. sink' = <<a, b>>
    BY <1>2
  <2>0. Emit("RecoveryFailed") = b
    OBVIOUS
  <2> HIDE DEF a, b
  <2>4. <<a>> \o <<b>> = <<a, b>>
    BY <2>1, <2>2, PairIs
  <2>5. Elems(<<a>>) = {a} /\ <<a>> \in Seq(Effect) /\ Len(<<a>>) = 1
    BY <2>1, ElemsShort, ShortBatch, ZenonT(30)
  <2>6. Quiet(<<a>>)
    BY <2>1, <2>5 DEF Quiet, Spawns
  <2>7. Shaped(<<a>> \o <<b>>, cursor) /\ <<a>> \o <<b>> \in Seq(Effect)
        /\ Elems(<<a>> \o <<b>>) = Elems(<<a>>) \cup {b} /\ Len(<<a>> \o <<b>>) = Len(<<a>>) + 1
    <3>1. b.op # "VerifyFirmware"
      BY <2>2
    <3> QED
      BY <2>2, <2>6, <3>1, LastShaped, ZenonT(30)
  <2>8. Elems(sink') = {a, b} /\ Len(sink') = 2 /\ sink' \in Seq(Effect) /\ Shaped(sink', cursor)
    <3>1. Elems(sink') = {a} \cup {b} /\ Len(sink') = 1 + 1 /\ sink' \in Seq(Effect) /\ Shaped(sink', cursor)
      BY <2>3, <2>4, <2>5, <2>7, ZenonT(30)
    <3> QED
      BY <3>1
  <2>9. \A e \in Elems(sink') : e.op \in {"ReportRecoveryFailed", "Emit"}
    BY ZenonT(30), <2>1, <2>2, <2>8
  <2>10. cursor' = cursor /\ released' = released /\ state' = "Recovering"
    BY <1>2
  <2>11. Shapes
    <3>1. ~Has(sink', "VerifyFirmware", cursor')
      BY <2>9 DEF Has
    <3> QED
      BY <1>0, <2>8, <2>10, <3>1 DEF Shapes
  <2>12. Agrees
    <3>1. \A c : /\ ~Has(sink', "ReleaseReset", c)
                 /\ ~Has(sink', "AssertReset", c)
                 /\ ~Has(sink', "RecoverComponent", c)
      BY <2>9 DEF Has
    <3>2. Profile(sink', {}, {})
      BY <3>1 DEF Profile, Cuts
    <3>3. Moves({}, {})
      BY <2>10 DEF Moves
    <3> QED
      BY ZenonT(30), <3>2, <3>3, AgreesFrom
  <2>13. Emit("RecoveryFailed") \in Elems(sink')
    BY <2>0, <2>8
  <2>14. Asks(ev)
    BY ZenonT(30), <2>10, <2>13 DEF Asks, Walking
  <2>15. Counts
    BY <2>9, <2>10, <2>13 DEF Counts
  <2> QED
    BY ZenonT(30), <2>10, <2>11, <2>12, <2>14, <2>15 DEF Batch
<1> QED
  BY ZenonT(30), <1>1, <1>2 DEF ExhaustRecovery

\* The start of an update: authentication is asked for, then staging.
LEMMA UpdateBatch ==
    ASSUME IInv, NEW ev, ReadyUpdateRequest(ev)
    PROVE  Batch(ev)
<1> DEFINE a == Fx("AuthenticateUpdate", None)
           b == Fx("StageUpdate", None)
<1>0. N \in 1..255
  BY ChainAssumption
<1>1. a \in Effect /\ a.op = "AuthenticateUpdate" /\ a.id = None
  BY FxIsEffect, FxIs DEF PlainOps
<1>2. b \in Effect /\ b.op = "StageUpdate"
  BY FxIsEffect, FxIs DEF PlainOps
<1>3. /\ sink' = <<a, b>> /\ state' = "Updating" /\ released' = released /\ retry' = retry
      /\ cursor' = cursor
  BY DEF ReadyUpdateRequest
<1> HIDE DEF a, b
<1>4. Elems(sink') = {a, b} /\ sink' \in Seq(Effect) /\ Len(sink') = 2
  BY <1>1, <1>2, <1>3, ElemsShort, ShortBatch, ZenonT(30)
<1>5. sink'[1] = a /\ sink'[2] = b
  BY <1>3
<1>6. \A e \in Elems(sink') : e.op \in {"AuthenticateUpdate", "StageUpdate"}
  BY <1>1, <1>2, <1>4
<1>7. Shapes
  <2>1. \A i \in 1..Len(sink') : i \in {1, 2}
    BY <1>4
  <2>2. \A i \in 1..Len(sink') : Spawns(sink'[i]) => i = 1
    BY <1>2, <1>5, <2>1 DEF Spawns
  <2>3. \A i \in 1..Len(sink') : sink'[i].op # "VerifyFirmware" /\ sink'[i].op # "Emit"
    BY <1>1, <1>2, <1>5, <2>1
  <2>4. Shaped(sink', cursor')
    BY <2>2, <2>3, ZenonT(30) DEF Shaped
  <2>5. ~Has(sink', "VerifyFirmware", cursor')
    BY <1>6 DEF Has
  <2> QED
    BY <1>0, <1>4, <2>4, <2>5 DEF Shapes
<1>8. Agrees
  <2>1. \A c : /\ ~Has(sink', "ReleaseReset", c)
               /\ ~Has(sink', "AssertReset", c)
               /\ ~Has(sink', "RecoverComponent", c)
    BY <1>6 DEF Has
  <2>2. Profile(sink', {}, {})
    BY <2>1 DEF Profile, Cuts
  <2>3. Moves({}, {})
    BY <1>3 DEF Moves
  <2> QED
    BY <2>2, <2>3, AgreesFrom
<1>9. Asks(ev)
  <2>1. Has(sink', "AuthenticateUpdate", None)
    BY <1>1, <1>4 DEF Has
  <2> QED
    BY <1>3, <2>1 DEF Asks, Walking
<1>10. Counts
  BY ZenonT(30), <1>3, <1>6 DEF Counts
<1> QED
  BY ZenonT(30), <1>3, <1>7, <1>8, <1>9, <1>10 DEF Batch

----------------------------------------------------------------------------
\* What a step leaves behind: the machine locked, or a batch as promised.
Outcome(ev) == (state' = "Locked" /\ sink' = Latched) \/ Batch(ev)

\* Entering Locked is one of the two outcomes.
LEMMA LockedOutcome ==
    ASSUME EnterLocked, NEW ev
    PROVE  Outcome(ev)
BY DEF EnterLocked, Outcome, Latched

\* Dropping an event that was not waited for, outside Locked.
LEMMA DropBatch ==
    ASSUME IInv, state # "Locked", Drop, NEW ev, ~Awaits(ev)
    PROVE  Batch(ev)
<1>1. Inert(<<>>) /\ Len(<<>>) <= 2
  BY EmptyInert
<1> QED
  BY <1>1, ReportBatch DEF Drop

\* The arms of the two states that are not supervised.
LEMMA UnsupervisedArmsBatch ==
    ASSUME IInv, NEW ev, InChain(ev),
           \/ PowerGood(ev)
           \/ UnsupervisedEffectFailed(ev)
           \/ PreSupervisionVerificationPassed(ev)
           \/ PreSupervisionVerificationFailed(ev)
           \/ PreSupervisionCorruptionDetected(ev)
           \/ PreSupervisionBooted(ev)
           \/ PreSupervisionTimeout(ev)
           \/ PreSupervisionBootFailed(ev)
    PROVE  Outcome(ev)
<1>0. Inert(<<>>) /\ Len(<<>>) <= 1 /\ Len(<<>>) <= 2
  BY EmptyInert
<1>1. CASE PowerGood(ev)
  <2>1. CASE EnterLocked
    BY <2>1, LockedOutcome
  <2>2. CASE EnterPreSupervision(<<>>, isolated, released, awaiting_boot) /\ UNCHANGED retry
    <3>1. Quiet(<<>>) /\ Profile(<<>>, {}, {})
      BY ZenonT(30), <1>0, InertProfile
    <3>2. isolated \in SUBSET Comp /\ released \in SUBSET Comp /\ {} \in SUBSET Comp
      BY DEF IInv, TypeOK
    <3>3. Len(<<>>) + Cardinality(released) <= 2 * N
      <4>1. Len(<<>>) = 0 /\ N \in 1..255
        BY ChainAssumption
      <4>2. Cardinality(released) \in Nat /\ Cardinality(released) <= N
        BY <3>2, CompCounts
      <4> QED
        BY <4>1, <4>2
    <3>4. released \subseteq {} \cup released
      OBVIOUS
    <3>5. (\A c \in Comp : Below(retry[c])) => (\A c \in Comp : Below(retry'[c]))
      BY <2>2, ZenonT(30)
    <3>6. Batch(ev)
      BY <2>2, <3>1, <3>2, <3>3, <3>4, <3>5, PreSupervisionBatch, ZenonT(30)
    <3> QED
      BY <3>6 DEF Outcome
  <2> QED
    BY <1>1, <2>1, <2>2 DEF PowerGood
<1>2. CASE UnsupervisedEffectFailed(ev)
  BY <1>2, LockedOutcome DEF UnsupervisedEffectFailed
<1>3. CASE PreSupervisionVerificationPassed(ev)
  <2>1. CASE ev.id # cursor /\ Drop
    <3>1. state = "PreSupervision"
      BY <1>3 DEF PreSupervisionVerificationPassed
    <3>2. ~Awaits(ev)
      BY <2>1, <3>1 DEF Awaits
    <3> QED
      BY ZenonT(30), <2>1, <3>1, <3>2, DropBatch DEF Outcome
  <2>2. CASE ~(ev.id # cursor /\ Drop)
    <3>1. state \in Walking /\ cursor \in Comp /\ ReleaseCursor
      BY ZenonT(30), <1>3, <2>2 DEF PreSupervisionVerificationPassed, InChain, ComponentEvents, Walking
    <3>2. \/ cursor' \notin Comp /\ EnterReady
          \/ /\ cursor' \in Comp
             /\ state' = "AwaitingReady" \/ UNCHANGED state
             /\ retry' = [retry EXCEPT ![cursor] = 0]
      BY <1>3, <2>2 DEF PreSupervisionVerificationPassed
    <3> QED
      BY <3>1, <3>2, ReleaseBatch DEF Outcome
  <2> QED
    BY <2>1, <2>2
<1>4. CASE PreSupervisionVerificationFailed(ev)
  <2>1. ev.id \in Comp /\ state = "PreSupervision"
    BY <1>4 DEF PreSupervisionVerificationFailed, InChain, ComponentEvents
  <2>2. CASE ev.id \in isolated
    <3>1. ~Awaits(ev)
      BY <2>1, <2>2 DEF Awaits, IInv, CursorNotIsolated
    <3> QED
      BY <1>4, <2>1, <2>2, <3>1, DropBatch DEF PreSupervisionVerificationFailed, Outcome
  <2>3. CASE ev.id \notin isolated
    <3>1. EnterRecovering(<<>>, ev.id)
      BY <1>4, <2>3 DEF PreSupervisionVerificationFailed
    <3> QED
      BY <1>0, <2>1, <3>1, RecoveringBatch, ZenonT(30) DEF Outcome
  <2> QED
    BY <2>2, <2>3
<1>5. CASE PreSupervisionCorruptionDetected(ev)
  <2>1. ev.id \in Comp /\ state \in Walking /\ ev.type = "CorruptionDetected"
    BY <1>5 DEF PreSupervisionCorruptionDetected, InChain, ComponentEvents, Walking
  <2>2. ~Awaits(ev)
    BY <2>1 DEF Awaits, Walking
  <2>3. HandleCorruptionAdvancing(<<>>, ev.id)
    BY <1>5 DEF PreSupervisionCorruptionDetected
  <2> QED
    BY <1>0, <2>1, <2>2, <2>3, CorruptionAdvancingBatch, ZenonT(30) DEF Outcome
<1>6. CASE PreSupervisionBooted(ev)
  <2>1. /\ state = "PreSupervision" /\ state' = state /\ subject' = subject /\ cursor' = cursor
        /\ released' = released /\ retry' = retry /\ sink' = <<>> /\ ev.type = "Booted"
    BY <1>6 DEF PreSupervisionBooted, ClearAwaitingBoot
  <2>2. ~Awaits(ev)
    BY <2>1 DEF Awaits
  <2> QED
    BY ZenonT(30), <1>0, <2>1, <2>2, InertBatch DEF Outcome
<1>7. CASE PreSupervisionTimeout(ev)
  <2>1. ev.id \in Comp /\ state = "PreSupervision" /\ ev.type = "Timeout"
    BY <1>7 DEF PreSupervisionTimeout, InChain, ComponentEvents
  <2>2. ~Awaits(ev)
    BY <2>1 DEF Awaits
  <2>3. CASE EnterRecovering(<<>>, ev.id)
    BY <1>0, <2>1, <2>3, RecoveringBatch, ZenonT(30) DEF Outcome
  <2>4. CASE Drop
    BY ZenonT(30), <2>1, <2>2, <2>4, DropBatch DEF Outcome
  <2> QED
    BY ZenonT(30), <1>7, <2>3, <2>4 DEF PreSupervisionTimeout
<1>8. CASE PreSupervisionBootFailed(ev)
  <2> DEFINE report == <<Fx("ReportBootFailed", ev.id)>>
  <2>1. ev.id \in Comp /\ state = "PreSupervision" /\ ev.type = "BootFailed" /\ state \in Walking
    BY <1>8 DEF PreSupervisionBootFailed, InChain, Walking
  <2>2. \/ Drop
        \/ HandleCorruptionAdvancing(report, ev.id)
        \/ EnterRecovering(report, ev.id)
    BY <1>8 DEF PreSupervisionBootFailed
  <2>3. ~Awaits(ev)
    BY <2>1 DEF Awaits
  <2>4. Inert(report) /\ Len(report) <= 1 /\ Len(report) <= 2
    <3>1. Inert(report) /\ Len(report) = 1
      BY <2>1, ReportsInert, ZenonT(30)
    <3> HIDE DEF report
    <3> QED
      BY <3>1
  <2> HIDE DEF report
  <2>5. CASE Drop
    BY ZenonT(30), <2>1, <2>3, <2>5, DropBatch DEF Outcome
  <2>6. CASE HandleCorruptionAdvancing(report, ev.id)
    BY <2>1, <2>3, <2>4, <2>6, CorruptionAdvancingBatch, ZenonT(30) DEF Outcome
  <2>7. CASE EnterRecovering(report, ev.id)
    BY <2>1, <2>4, <2>7, RecoveringBatch, ZenonT(30) DEF Outcome
  <2> QED
    BY ZenonT(30), <2>2, <2>5, <2>6, <2>7
<1> QED
  BY <1>1, <1>2, <1>3, <1>4, <1>5, <1>6, <1>7, <1>8

\* The arms of AwaitingReady.
LEMMA AwaitingReadyArmsBatch ==
    ASSUME IInv, NEW ev, InChain(ev),
           \/ AwaitingReadyComponentReady(ev)
           \/ AwaitingReadyVerificationPassed(ev)
           \/ AwaitingReadyVerificationFailed(ev)
           \/ AwaitingReadyCorruptionDetected(ev)
           \/ AwaitingReadyBootFailed(ev)
    PROVE  Outcome(ev)
<1>0. Inert(<<>>) /\ Len(<<>>) <= 1 /\ Len(<<>>) <= 2
  BY EmptyInert
<1>1. CASE AwaitingReadyComponentReady(ev)
  <2>1. /\ state = "AwaitingReady" /\ state \in Walking /\ ev.type = "ComponentReady"
        /\ cursor' = cursor /\ released' = released /\ sink' = <<>>
    BY <1>1 DEF AwaitingReadyComponentReady, Walking
  <2>2. ~Awaits(ev)
    BY <2>1 DEF Awaits
  <2>3. \/ state' = state /\ retry' = retry
        \/ state' = "Ready" /\ retry' = [c \in Comp |-> 0]
    BY <1>1, ZenonT(30) DEF AwaitingReadyComponentReady, EnterReady
  <2>4. state # "Locked"
    BY <2>1
  <2>5. /\ \/ state' = "Ready"
           \/ state' = state /\ state # "Locked" /\ (subject' = subject \/ state \in Walking)
        /\ retry' = retry \/ retry' = [c \in Comp |-> 0]
    BY <2>1, <2>3, <2>4, ZenonT(30)
  <2> QED
    BY <1>0, <2>1, <2>2, <2>5, InertBatch, ZenonT(30) DEF Outcome
<1>2. CASE AwaitingReadyVerificationPassed(ev)
  <2>1. CASE ev.id # cursor /\ Drop
    <3>1. state = "AwaitingReady"
      BY <1>2 DEF AwaitingReadyVerificationPassed
    <3>2. ~Awaits(ev)
      BY <2>1, <3>1 DEF Awaits
    <3> QED
      BY ZenonT(30), <2>1, <3>1, <3>2, DropBatch DEF Outcome
  <2>2. CASE ~(ev.id # cursor /\ Drop)
    <3>1. state \in Walking /\ cursor \in Comp /\ ReleaseCursor
      BY <1>2, <2>2 DEF AwaitingReadyVerificationPassed, InChain, ComponentEvents, Walking
    <3>2. \/ cursor' \notin Comp /\ EnterReady
          \/ /\ cursor' \in Comp
             /\ state' = "AwaitingReady" \/ UNCHANGED state
             /\ retry' = [retry EXCEPT ![cursor] = 0]
      BY ZenonT(30), <1>2, <2>2 DEF AwaitingReadyVerificationPassed
    <3> QED
      BY ZenonT(30), <3>1, <3>2, ReleaseBatch DEF Outcome
  <2> QED
    BY <2>1, <2>2
<1>3. CASE AwaitingReadyVerificationFailed(ev)
  <2>1. ev.id \in Comp /\ state = "AwaitingReady"
    BY <1>3 DEF AwaitingReadyVerificationFailed, InChain, ComponentEvents
  <2>2. CASE ev.id \in isolated
    <3>1. ~Awaits(ev)
      BY ZenonT(30), <2>1, <2>2 DEF Awaits, IInv, CursorNotIsolated
    <3> QED
      BY ZenonT(30), <1>3, <2>1, <2>2, <3>1, DropBatch DEF AwaitingReadyVerificationFailed, Outcome
  <2>3. CASE ev.id \notin isolated
    <3>1. EnterRecovering(<<>>, ev.id)
      BY <1>3, <2>3 DEF AwaitingReadyVerificationFailed
    <3> QED
      BY <1>0, <2>1, <3>1, RecoveringBatch, ZenonT(30) DEF Outcome
  <2> QED
    BY <2>2, <2>3
<1>4. CASE AwaitingReadyCorruptionDetected(ev)
  <2>1. ev.id \in Comp /\ state \in Walking /\ ev.type = "CorruptionDetected"
    BY <1>4 DEF AwaitingReadyCorruptionDetected, InChain, ComponentEvents, Walking
  <2>2. ~Awaits(ev)
    BY <2>1 DEF Awaits, Walking
  <2>3. HandleCorruptionAdvancing(<<>>, ev.id)
    BY <1>4 DEF AwaitingReadyCorruptionDetected
  <2> QED
    BY <1>0, <2>1, <2>2, <2>3, CorruptionAdvancingBatch, ZenonT(30) DEF Outcome
<1>5. CASE AwaitingReadyBootFailed(ev)
  <2> DEFINE report == <<Fx("ReportBootFailed", ev.id)>>
  <2>1. ev.id \in Comp /\ ev.type = "BootFailed" /\ state = "AwaitingReady" /\ state \in Walking
    BY <1>5 DEF AwaitingReadyBootFailed, FatalBootFailure, InChain, Walking
  <2>2. HandleCorruptionAdvancing(report, ev.id)
    BY <1>5 DEF AwaitingReadyBootFailed
  <2>3. ~Awaits(ev)
    BY <2>1 DEF Awaits
  <2>4. Inert(report) /\ Len(report) <= 1
    <3>1. Inert(report) /\ Len(report) = 1
      BY <2>1, ReportsInert, ZenonT(30)
    <3> HIDE DEF report
    <3> QED
      BY <3>1
  <2> HIDE DEF report
  <2> QED
    BY <2>1, <2>2, <2>3, <2>4, CorruptionAdvancingBatch, ZenonT(30) DEF Outcome
<1> QED
  BY <1>1, <1>2, <1>3, <1>4, <1>5

\* The arms of Ready and Updating.
LEMMA ServiceArmsBatch ==
    ASSUME IInv, NEW ev, InChain(ev),
           \/ ReadyUpdateRequest(ev)
           \/ ReadyBootConfirmed(ev)
           \/ ReadyCommitTimeout(ev)
           \/ UpdatingVerified(ev)
           \/ UpdatingRejected(ev)
           \/ UpdatingCorruptionDetected(ev)
    PROVE  Outcome(ev)
<1>0. Inert(<<>>) /\ Len(<<>>) <= 1 /\ Len(<<>>) <= 2
  BY EmptyInert
<1>1. CASE ReadyUpdateRequest(ev)
  BY <1>1, UpdateBatch DEF Outcome
<1>2. CASE ReadyBootConfirmed(ev)
  <2> DEFINE fx == <<Fx("CommitSvnFloor", ev.id)>>
  <2>1. /\ state = "Ready" /\ state' = "Ready" /\ cursor' = cursor /\ released' = released
        /\ retry' = retry /\ sink' = fx /\ ev.id \in Comp
    BY ZenonT(30), <1>2 DEF ReadyBootConfirmed, InChain, ComponentEvents
  <2>2. Inert(fx) /\ Len(fx) <= 2
    <3>1. Inert(fx) /\ Len(fx) = 1
      BY <2>1, ReportsInert, ZenonT(30)
    <3> HIDE DEF fx
    <3> QED
      BY <3>1
  <2> HIDE DEF fx
  <2> QED
    BY <2>1, <2>2, InertBatch, ZenonT(30) DEF Outcome
<1>3. CASE ReadyCommitTimeout(ev)
  <2>1. state = "Ready"
    BY ZenonT(30), <1>3 DEF ReadyCommitTimeout
  <2>2. ~Awaits(ev)
    BY <2>1 DEF Awaits, Walking
  <2>3. CASE Drop
    BY ZenonT(30), <2>1, <2>2, <2>3, DropBatch DEF Outcome
  <2>4. CASE EnterLocked
    BY <2>4, LockedOutcome
  <2> QED
    BY <1>3, <2>3, <2>4 DEF ReadyCommitTimeout
<1>4. CASE UpdatingVerified(ev)
  <2> DEFINE fx == <<Fx("ActivateUpdate", None)>>
  <2>1. /\ state' = "Ready" /\ cursor' = cursor /\ released' = released
        /\ retry' = [c \in Comp |-> 0] /\ sink' = fx
    BY <1>4, ZenonT(30) DEF UpdatingVerified, EnterReady
  <2>2. Inert(fx) /\ Len(fx) <= 2
    <3>1. "ActivateUpdate" \in PlainOps \ {"AuthenticateUpdate"}
      BY DEF PlainOps
    <3>2. Inert(fx) /\ Len(fx) = 1
      BY <3>1, ReportsInert, ZenonT(30)
    <3> HIDE DEF fx
    <3> QED
      BY <3>2
  <2> HIDE DEF fx
  <2> QED
    BY <2>1, <2>2, InertBatch, ZenonT(30) DEF Outcome
<1>5. CASE UpdatingRejected(ev)
  <2> DEFINE fx == <<Fx("DiscardStaged", None)>>
  <2>1. /\ state' = "Ready" /\ cursor' = cursor /\ released' = released
        /\ retry' = [c \in Comp |-> 0] /\ sink' = fx
    BY <1>5, ZenonT(30) DEF UpdatingRejected, EnterReady
  <2>2. Inert(fx) /\ Len(fx) <= 2
    <3>1. "DiscardStaged" \in PlainOps \ {"AuthenticateUpdate"}
      BY DEF PlainOps
    <3>2. Inert(fx) /\ Len(fx) = 1
      BY <3>1, ReportsInert, ZenonT(30)
    <3> HIDE DEF fx
    <3> QED
      BY <3>2
  <2> HIDE DEF fx
  <2> QED
    BY <2>1, <2>2, InertBatch, ZenonT(30) DEF Outcome
<1>6. CASE UpdatingCorruptionDetected(ev)
  <2> DEFINE a == Fx("DiscardStaged", None)
             b == Fx("ReportUpdateAborted", None)
             fx == <<a, b>>
  <2>1. ev.id \in Comp /\ state = "Updating" /\ state \notin Walking /\ ev.type = "CorruptionDetected"
    BY <1>6 DEF UpdatingCorruptionDetected, InChain, ComponentEvents, Walking
  <2>2. HandleCorruption(<<>>, ev.id) \/ EnterRecovering(fx, ev.id)
    BY <1>6 DEF UpdatingCorruptionDetected
  <2>3. ~Awaits(ev)
    BY <2>1 DEF Awaits
  <2>4. a \in Effect /\ b \in Effect /\ a.op = "DiscardStaged" /\ b.op = "ReportUpdateAborted"
    BY FxIsEffect, FxIs DEF PlainOps
  <2>5. Inert(fx) /\ Len(fx) <= 2
    <3> HIDE DEF a, b
    <3>1. Elems(fx) = {a, b} /\ fx \in Seq(Effect) /\ Len(fx) = 2
      BY <2>4, ElemsShort, ShortBatch, ZenonT(30)
    <3> HIDE DEF fx
    <3> QED
      BY <2>4, <3>1 DEF Inert, Spawns
  <2> HIDE DEF a, b, fx
  <2>6. CASE HandleCorruption(<<>>, ev.id)
    BY ZenonT(30), <1>0, <2>1, <2>3, <2>6, CorruptionBatch DEF Outcome
  <2>7. CASE EnterRecovering(fx, ev.id)
    BY <2>1, <2>5, <2>7, RecoveringBatch, ZenonT(30) DEF Outcome
  <2> QED
    BY ZenonT(30), <2>2, <2>6, <2>7
<1> QED
  BY ZenonT(30), <1>1, <1>2, <1>3, <1>4, <1>5, <1>6

\* The arms of Recovering.
LEMMA RecoveringArmsBatch ==
    ASSUME IInv, NEW ev, InChain(ev),
           \/ RecoveringRestored(ev)
           \/ RecoveringUnavailable(ev)
           \/ RecoveringFailed(ev)
    PROVE  Outcome(ev)
<1>0. /\ state = "Recovering" /\ subject \in Comp /\ state \notin Walking /\ state # "Locked"
      /\ isolated \in SUBSET Comp /\ released \in SUBSET Comp /\ retry \in [Comp -> 0..255]
  BY ZenonT(30) DEF RecoveringRestored, RecoveringUnavailable, RecoveringFailed, IInv, TypeOK, Walking
<1>1. CASE RecoveringRestored(ev)
  <2> DEFINE bumped == BumpRetry(subject)
  <2>1. bumped \in [Comp -> 0..255] /\ \A c \in Comp : c # subject => bumped[c] = retry[c]
    <3>1. \A n \in 0..255 : (IF n < 255 THEN n + 1 ELSE n) \in 0..255
      OBVIOUS
    <3>2. PICK v \in 0..255 : bumped = [retry EXCEPT ![subject] = v]
      BY ZenonT(30), <1>0, <3>1 DEF BumpRetry
    <3> HIDE DEF bumped
    <3> QED
      BY <1>0, <3>2
  <2>2. /\ ev.type = "Restored"
        /\ \/ ev.id # subject /\ Drop
           \/ /\ bumped[subject] < MaxRetry
              /\ retry' = bumped
              /\ EnterPreSupervision(<<>>, isolated, released, awaiting_boot)
           \/ ExhaustRecovery(subject, bumped)
    BY <1>1, ZenonT(30) DEF RecoveringRestored
  <2> HIDE DEF bumped
  <2>3. CASE ev.id # subject /\ Drop
    <3>1. ~Awaits(ev)
      BY ZenonT(30), <1>0, <2>2, <2>3 DEF Awaits
    <3> QED
      BY ZenonT(30), <1>0, <2>3, <3>1, DropBatch DEF Outcome
  <2>4. CASE /\ bumped[subject] < MaxRetry
             /\ retry' = bumped
             /\ EnterPreSupervision(<<>>, isolated, released, awaiting_boot)
    <3>1. Quiet(<<>>) /\ Profile(<<>>, {}, {}) /\ {} \in SUBSET Comp
      BY ZenonT(30), EmptyInert, InertProfile
    <3>2. Len(<<>>) + Cardinality(released) <= 2 * N
      <4>1. Len(<<>>) = 0 /\ N \in 1..255
        BY ZenonT(30), ChainAssumption
      <4>2. Cardinality(released) \in Nat /\ Cardinality(released) <= N
        BY <1>0, CompCounts
      <4> QED
        BY <4>1, <4>2
    <3>3. released \subseteq {} \cup released
      OBVIOUS
    <3>4. (\A c \in Comp : Below(retry[c])) => (\A c \in Comp : Below(retry'[c]))
      <4>1. \A c \in Comp : retry'[c] = retry[c] \/ retry'[c] < MaxRetry
        BY <2>1, <2>4
      <4> QED
        BY <4>1, ZenonT(30) DEF Below
    <3>5. Batch(ev)
      BY <1>0, <2>4, <3>1, <3>2, <3>3, <3>4, PreSupervisionBatch, ZenonT(30)
    <3> QED
      BY <3>5 DEF Outcome
  <2>5. CASE ExhaustRecovery(subject, bumped)
    BY <1>0, <2>1, <2>5, ExhaustBatch, ZenonT(30) DEF Outcome
  <2> QED
    BY <2>2, <2>3, <2>4, <2>5, ZenonT(30)
<1>2. CASE RecoveringUnavailable(ev)
  <2>1. CASE ev.id # subject /\ Drop
    <3>1. ~Awaits(ev)
      BY <1>0, <1>2, <2>1 DEF Awaits, RecoveringUnavailable
    <3> QED
      BY <1>0, <2>1, <3>1, DropBatch DEF Outcome
  <2>2. CASE ExhaustRecovery(subject, retry)
    BY <1>0, <2>2, ExhaustBatch, ZenonT(30) DEF Outcome
  <2> QED
    BY ZenonT(30), <1>2, <2>1, <2>2 DEF RecoveringUnavailable
<1>3. CASE RecoveringFailed(ev)
  BY ZenonT(30), <1>3, LockedOutcome DEF RecoveringFailed
<1> QED
  BY <1>1, <1>2, <1>3

\* The arms of handle_supervising.
LEMMA SupervisingArmsBatch ==
    ASSUME IInv, NEW ev, InChain(ev),
           \/ SupervisingAttestation(ev)
           \/ SupervisingCorruptionDetected(ev)
           \/ SupervisingBootProgress(ev)
           \/ SupervisingTimeout(ev)
           \/ SupervisingBootFailed(ev)
           \/ SupervisingUpdateRequest(ev)
           \/ SupervisingEffectFailed(ev)
    PROVE  Outcome(ev)
<1>0. /\ Inert(<<>>) /\ Len(<<>>) <= 1 /\ Len(<<>>) <= 2
  BY ZenonT(30), EmptyInert
<1>1. state # "Locked"
  BY DEF SupervisingAttestation, SupervisingCorruptionDetected, SupervisingBootProgress,
         SupervisingTimeout, SupervisingBootFailed, SupervisingUpdateRequest,
         SupervisingEffectFailed, PassedUp, Supervised
<1>2. ~Awaits(ev)
  <2>1. ev.type \in SupervisingArms
    BY DEF SupervisingAttestation, SupervisingCorruptionDetected, SupervisingBootProgress,
         SupervisingTimeout, SupervisingBootFailed, SupervisingUpdateRequest,
         SupervisingEffectFailed, SupervisingArms
  <2> QED
    BY <2>1 DEF Awaits, SupervisingArms
<1>3. ASSUME NEW op \in PlainOps \ {"AuthenticateUpdate"}, Report(<<Fx(op, None)>>) PROVE Outcome(ev)
  <2> DEFINE fx == <<Fx(op, None)>>
  <2>1. Inert(fx) /\ Len(fx) = 1 /\ Report(fx)
    BY <1>3, ReportsInert, ZenonT(30)
  <2> HIDE DEF fx
  <2>2. Len(fx) <= 2
    BY <2>1
  <2> QED
    BY ZenonT(30), <1>1, <1>2, <2>1, <2>2, ReportBatch DEF Outcome
<1>4. CASE SupervisingAttestation(ev)
  <2>1. "SignAttestation" \in PlainOps \ {"AuthenticateUpdate"}
    BY DEF PlainOps
  <2> QED
    BY <1>3, <1>4, <2>1, ZenonT(30) DEF SupervisingAttestation
<1>5. CASE SupervisingCorruptionDetected(ev)
  <2>1. ev.id \in Comp
    <3>1. ev.type = "CorruptionDetected"
      BY ZenonT(30), <1>5 DEF SupervisingCorruptionDetected
    <3> QED
      BY <3>1 DEF InChain, ComponentEvents
  <2>2. state \notin Walking
    BY <1>5 DEF SupervisingCorruptionDetected, PassedUp, LeafHandles, LeafArms,
                Supervised, Walking
  <2>3. HandleCorruption(<<>>, ev.id)
    BY <1>5 DEF SupervisingCorruptionDetected
  <2> QED
    BY <1>0, <1>1, <1>2, <2>1, <2>2, <2>3, CorruptionBatch, ZenonT(30) DEF Outcome
<1>6. CASE SupervisingBootProgress(ev)
  <2>1. /\ state' = state /\ subject' = subject /\ cursor' = cursor
        /\ released' = released /\ retry' = retry /\ sink' = <<>>
    BY <1>6 DEF SupervisingBootProgress, ClearAwaitingBoot
  <2> QED
    BY ZenonT(30), <1>0, <1>1, <1>2, <2>1, InertBatch DEF Outcome
<1>7. CASE SupervisingTimeout(ev)
  <2>1. ev.id \in Comp
    BY <1>7 DEF SupervisingTimeout, InChain, ComponentEvents
  <2>2. CASE EnterRecovering(<<>>, ev.id)
    BY <1>0, <2>1, <2>2, RecoveringBatch, ZenonT(30) DEF Outcome
  <2>3. CASE Drop
    BY ZenonT(30), <1>1, <1>2, <2>3, DropBatch DEF Outcome
  <2> QED
    BY ZenonT(30), <1>7, <2>2, <2>3 DEF SupervisingTimeout
<1>8. CASE SupervisingBootFailed(ev)
  <2> DEFINE report == <<Fx("ReportBootFailed", ev.id)>>
  <2>1. ev.id \in Comp
    BY <1>8 DEF SupervisingBootFailed, InChain
  <2>2. \/ Drop
        \/ FatalBootFailure(ev) /\ HandleCorruption(report, ev.id)
        \/ EnterRecovering(report, ev.id)
    BY <1>8 DEF SupervisingBootFailed, FatalBootFailure
  <2>3. FatalBootFailure(ev) => state \notin Walking
    BY <1>8 DEF SupervisingBootFailed, PassedUp, LeafHandles, Supervised, Walking
  <2>4. Inert(report) /\ Len(report) <= 1 /\ Len(report) <= 2
    <3>1. Inert(report) /\ Len(report) = 1
      BY <2>1, ReportsInert, ZenonT(30)
    <3> HIDE DEF report
    <3> QED
      BY <3>1
  <2> HIDE DEF report
  <2>5. CASE Drop
    BY <1>1, <1>2, <2>5, DropBatch DEF Outcome
  <2>6. CASE FatalBootFailure(ev) /\ HandleCorruption(report, ev.id)
    BY <1>1, <1>2, <2>1, <2>3, <2>4, <2>6, CorruptionBatch, ZenonT(30) DEF Outcome
  <2>7. CASE EnterRecovering(report, ev.id)
    BY <2>1, <2>4, <2>7, RecoveringBatch, ZenonT(30) DEF Outcome
  <2> QED
    BY ZenonT(30), <2>2, <2>5, <2>6, <2>7
<1>9. CASE SupervisingUpdateRequest(ev)
  <2>1. "ReportUpdateDeferred" \in PlainOps \ {"AuthenticateUpdate"}
    BY DEF PlainOps
  <2> QED
    BY <1>3, <1>9, <2>1, ZenonT(30) DEF SupervisingUpdateRequest
<1>10. CASE SupervisingEffectFailed(ev)
  BY <1>10, LockedOutcome DEF SupervisingEffectFailed
<1> QED
  BY ZenonT(30), <1>4, <1>5, <1>6, <1>7, <1>8, <1>9, <1>10

\* Every step of the reducer outside Locked locks it or keeps the promises.
LEMMA StepOutcome ==
    ASSUME IInv, state # "Locked", NEW ev, Step(ev)
    PROVE  Outcome(ev)
<1>0. state \in States /\ cursor \in 1..(N + 1) /\ (state = "Recovering" => subject \in Comp)
  BY DEF IInv, TypeOK
<1>1. CASE ~InChain(ev) /\ Drop
  <2>1. ev.id \notin Comp /\ ev.type \in ComponentEvents \cup {"BootFailed"}
    BY <1>1 DEF InChain
  <2>2. ~Awaits(ev)
    BY <1>0, <2>1 DEF Awaits, ComponentEvents
  <2> QED
    BY <1>1, <2>2, DropBatch DEF Outcome
<1>2. CASE InChain(ev) /\ Discard(ev)
  <2>1. ~LeafHandles(ev) /\ Drop
    BY ZenonT(30), <1>2 DEF Discard
  <2>2. ~Awaits(ev)
    BY <1>0, <2>1 DEF Awaits, LeafHandles, LeafArms, Walking
  <2> QED
    BY ZenonT(30), <2>1, <2>2, DropBatch DEF Outcome
<1>3. CASE InChain(ev) /\ Handle(ev) /\ ~Discard(ev)
  BY ZenonT(30), <1>3, UnsupervisedArmsBatch, AwaitingReadyArmsBatch, ServiceArmsBatch,
     RecoveringArmsBatch, SupervisingArmsBatch DEF Handle
<1> QED
  BY ZenonT(30), <1>1, <1>2, <1>3 DEF Step

\* No step emits more than the Sink is sized for.
LEMMA StepFits ==
    ASSUME IInv, NEW ev, Step(ev)
    PROVE  SinkFits'
<1>0. N \in 1..255
  BY ChainAssumption
<1>1. CASE state = "Locked"
  <2>1. sink' = <<>>
    BY ZenonT(30), <1>1, LockedDrops DEF Drop, Report
  <2> QED
    BY <1>0, <2>1 DEF SinkFits
<1>2. CASE state # "Locked"
  <2>1. Outcome(ev)
    BY <1>2, StepOutcome
  <2>2. Len(Latched) = 1
    BY DEF Latched
  <2> QED
    BY <1>0, <2>1, <2>2 DEF Outcome, Batch, Shapes, SinkFits
<1> QED
  BY ZenonT(30), <1>1, <1>2

\* The build-time bound on the Sink, E >= 2 * N + 2, is enough for every chain
\* that Chain::try_from accepts: Sink::emit never drops an effect.
THEOREM SinkNeverOverflows == Spec => []SinkFits
<1>1. Init => SinkFits
  <2>1. N \in 1..255
    BY ChainAssumption
  <2> QED
    BY <2>1 DEF Init, SinkFits
<1>2. IInv /\ SinkFits /\ [Next]_vars => SinkFits'
  <2>1. SinkFits /\ UNCHANGED vars => SinkFits'
    BY DEF vars, SinkFits
  <2> QED
    BY <2>1, StepFits DEF Next
<1> QED
  BY <1>1, <1>2, Invariance, PTL DEF Spec

----------------------------------------------------------------------------
(* Verdicts and releases *)

\* A component becomes live only by the verdict on the one under the cursor.
LEMMA ReleasedByVerdict ==
    ASSUME NEW ev, Step(ev), ~(ev.type = "VerificationPassed" /\ ev.id = cursor)
    PROVE  released' \subseteq released
<1>1. /\ Drop => released' \subseteq released
      /\ EnterLocked => released' \subseteq released
      /\ \A fx : Report(fx) => released' \subseteq released
      /\ \A id : ClearAwaitingBoot(id) => released' \subseteq released
      /\ \A gated : Hold(gated) => released' \subseteq released
      /\ \A fx, id : EnterRecovering(fx, id) => released' \subseteq released
      /\ \A fx, iso, live, waits :
           EnterPreSupervision(fx, iso, live, waits) => released' \subseteq released
  BY DEF Drop, EnterLocked, Report, ClearAwaitingBoot, Hold, EnterRecovering, EnterPreSupervision
<1>2. \A fx, id : HandleCorruption(fx, id) => released' \subseteq released
  BY ZenonT(30), <1>1 DEF HandleCorruption
<1>3. \A fx, id : HandleCorruptionAdvancing(fx, id) => released' \subseteq released
  BY ZenonT(30), <1>1, <1>2 DEF HandleCorruptionAdvancing
<1>4. \A id, rt : ExhaustRecovery(id, rt) => released' \subseteq released
  <2>1. ASSUME NEW id, NEW rt, ExhaustRecovery(id, rt) PROVE released' \subseteq released
    BY <1>1, <2>1 DEF ExhaustRecovery
  <2> QED
    BY <2>1
<1>5. UNCHANGED released => released' \subseteq released
  OBVIOUS
<1>6. CASE \/ PreSupervisionVerificationPassed(ev)
           \/ AwaitingReadyVerificationPassed(ev)
           \/ Discard(ev)
           \/ ~InChain(ev) /\ Drop
  BY ZenonT(30), <1>1, <1>6 DEF PreSupervisionVerificationPassed, AwaitingReadyVerificationPassed,
     Discard
<1>7. CASE \/ PowerGood(ev)
           \/ UnsupervisedEffectFailed(ev)
           \/ PreSupervisionVerificationFailed(ev)
           \/ PreSupervisionCorruptionDetected(ev)
           \/ PreSupervisionBooted(ev)
           \/ PreSupervisionTimeout(ev)
           \/ PreSupervisionBootFailed(ev)
           \/ AwaitingReadyComponentReady(ev)
           \/ AwaitingReadyVerificationFailed(ev)
           \/ AwaitingReadyCorruptionDetected(ev)
           \/ AwaitingReadyBootFailed(ev)
  BY ZenonT(30), <1>1, <1>3, <1>5, <1>7
     DEF PowerGood, UnsupervisedEffectFailed, PreSupervisionVerificationFailed,
         PreSupervisionCorruptionDetected, PreSupervisionBooted, PreSupervisionTimeout,
         PreSupervisionBootFailed, AwaitingReadyComponentReady, AwaitingReadyVerificationFailed,
         AwaitingReadyCorruptionDetected, AwaitingReadyBootFailed
<1>8. CASE \/ ReadyUpdateRequest(ev)
           \/ ReadyBootConfirmed(ev)
           \/ ReadyCommitTimeout(ev)
           \/ UpdatingVerified(ev)
           \/ UpdatingRejected(ev)
           \/ UpdatingCorruptionDetected(ev)
           \/ RecoveringRestored(ev)
           \/ RecoveringUnavailable(ev)
           \/ RecoveringFailed(ev)
  BY ZenonT(30), <1>1, <1>2, <1>4, <1>5, <1>8
     DEF ReadyUpdateRequest, ReadyBootConfirmed, ReadyCommitTimeout, UpdatingVerified,
         UpdatingRejected, UpdatingCorruptionDetected, RecoveringRestored, RecoveringUnavailable,
         RecoveringFailed
<1>9. CASE \/ SupervisingAttestation(ev)
           \/ SupervisingCorruptionDetected(ev)
           \/ SupervisingBootProgress(ev)
           \/ SupervisingTimeout(ev)
           \/ SupervisingBootFailed(ev)
           \/ SupervisingUpdateRequest(ev)
           \/ SupervisingEffectFailed(ev)
  BY ZenonT(30), <1>1, <1>2, <1>9
     DEF SupervisingAttestation, SupervisingCorruptionDetected, SupervisingBootProgress,
         SupervisingTimeout, SupervisingBootFailed, SupervisingUpdateRequest,
         SupervisingEffectFailed
<1> QED
  BY ZenonT(30), <1>6, <1>7, <1>8, <1>9 DEF Step, Handle

\* The only event of its type about c.
LEMMA VerdictIs ==
    ASSUME NEW ev \in Event, ev.type = "VerificationPassed"
    PROVE  ev = About("VerificationPassed", ev.id)
<1>1. ev \in [type : ComponentEvents, id : Ids]
  BY DEF Event, PlainEvents
<1> QED
  BY <1>1 DEF About

----------------------------------------------------------------------------
(***************************************************************************)
(* The batch while it is executed, whatever the platform does.             *)
(***************************************************************************)
Live == ~failed /\ state # "Locked"

\* Once batch q is executed on a platform that holds H in reset, exactly the
\* components in `live` are out of reset.
Settled(live, q, H) ==
    \A c \in Comp :
        /\ c \in live => (c \notin H \/ Has(q, "ReleaseReset", c)) /\ ~Cuts(q, c)
        /\ c \notin live => (c \in H \/ Cuts(q, c)) /\ ~Has(q, "ReleaseReset", c)

\* Executing e on a platform that holds H in reset leaves it holding G.
Drives(e, H, G) ==
    \A c \in Comp :
        /\ e.op \in {"AssertReset", "RecoverComponent"} /\ e.id = c => c \in G
        /\ e.op = "ReleaseReset" /\ e.id = c => c \notin G
        /\ ~(e.op \in {"AssertReset", "RecoverComponent", "ReleaseReset"} /\ e.id = c) =>
             (c \in G <=> c \in H)

\* A run of a platform that keeps the contract never queues two events.
OneAtATime ==
    /\ Len(pending) <= 1
    /\ pending # <<>> => \A e \in Elems(sink) : ~Spawns(e)

BatchInv ==
    /\ sink \in Seq(Effect)
    /\ state = "Locked" => sink \in {<<>>, Latched}
    /\ Shaped(sink, cursor)
    /\ Has(sink, "VerifyFirmware", cursor) => state \in Walking

\* Executing an effect, or giving up the batch, leaves a well-formed batch.
LEMMA ExecuteBatch ==
    ASSUME BatchInv, sink # <<>>, sink' \in {<<>>, Tail(sink)}, UNCHANGED reducer
    PROVE  BatchInv'
<1>1. sink \in Seq(Effect) /\ Shaped(sink, cursor) /\ state' = state /\ cursor' = cursor
  BY DEF BatchInv, reducer
<1>2. CASE sink' = <<>>
  <2>1. <<>> \in Seq(Effect) /\ Quiet(<<>>)
    BY EmptyInert, InertProfile DEF Quiet
  <2>2. Shaped(<<>>, cursor) /\ ~Has(<<>>, "VerifyFirmware", cursor)
    BY <2>1, QuietShaped
  <2> QED
    BY ZenonT(30), <1>1, <1>2, <2>1, <2>2 DEF BatchInv
<1>3. CASE sink' = Tail(sink)
  <2>1. Tail(sink) \in Seq(Effect) /\ Shaped(Tail(sink), cursor)
    BY ZenonT(30), <1>1, Front, ShapedTail
  <2>2. Has(Tail(sink), "VerifyFirmware", cursor) => state \in Walking
    BY <1>1, FrontHas DEF BatchInv
  <2>3. state = "Locked" => Tail(sink) = <<>>
    <3>1. \A x : Tail(<<x>>) = <<>>
      OBVIOUS
    <3>2. Tail(Latched) = <<>>
      BY <3>1, ZenonT(30) DEF Latched
    <3> QED
      BY <3>2 DEF BatchInv
  <2> QED
    BY ZenonT(30), <1>1, <1>3, <2>1, <2>2, <2>3 DEF BatchInv
<1> QED
  BY <1>2, <1>3

\* Executing the front of the batch brings the resets closer to what the
\* reducer takes for live.
LEMMA SettledTail ==
    ASSUME NEW live, NEW q \in Seq(Effect), q # <<>>, NEW H, NEW G,
           Settled(live, q, H), Drives(Head(q), H, G)
    PROVE  Settled(live, Tail(q), G)
<1> DEFINE h == Head(q)
           t == Tail(q)
<1>1. \A op, c : Has(q, op, c) <=> (h.op = op /\ h.id = c) \/ Has(t, op, c)
  BY FrontHas
<1>2. Drives(h, H, G)
  OBVIOUS
<1> HIDE DEF h, t
<1>3. \A c : Cuts(q, c) <=> (h.op \in {"AssertReset", "RecoverComponent"} /\ h.id = c) \/ Cuts(t, c)
  BY <1>1 DEF Cuts
<1>4. ASSUME NEW c \in Comp
      PROVE  /\ c \in live => (c \notin G \/ Has(t, "ReleaseReset", c)) /\ ~Cuts(t, c)
             /\ c \notin live => (c \in G \/ Cuts(t, c)) /\ ~Has(t, "ReleaseReset", c)
  BY ZenonT(30), <1>1, <1>2, <1>3 DEF Settled, Drives
<1> QED
  BY ZenonT(30), <1>4 DEF Settled, t

\* A new batch accounts for the change in what the reducer takes for live.
LEMMA SettledBatch ==
    ASSUME NEW H, Settled(released, <<>>, H), Agrees
    PROVE  Settled(released', sink', H)
<1>1. Elems(<<>>) = {}
  BY ElemsShort
<1>2. \A c \in Comp : c \in released <=> c \notin H
  BY <1>1 DEF Settled, Has, Cuts
<1> QED
  BY <1>2 DEF Agrees, Settled

\* LatchLockdown's batch is well formed.
LEMMA LatchedBatch ==
    \A c : /\ Latched \in Seq(Effect)
           /\ Shaped(Latched, c)
           /\ ~Has(Latched, "VerifyFirmware", c)
<1>1. Fx("LatchLockdown", None) \in Effect /\ Fx("LatchLockdown", None).op = "LatchLockdown"
  BY FxIsEffect, FxIs DEF PlainOps
<1>2. Latched \in Seq(Effect) /\ Elems(Latched) = {Fx("LatchLockdown", None)}
  BY <1>1, ShortBatch, ElemsShort, ZenonT(30) DEF Latched
<1>3. Quiet(Latched)
  BY <1>1, <1>2 DEF Quiet, Spawns
<1> QED
  BY <1>2, <1>3, QuietShaped

\* RecoveryFailed locks the machine that is recovering.
LEMMA RecoveryFailedLocks ==
    ASSUME TypeOK, state = "Recovering", Step(Plain("RecoveryFailed"))
    PROVE  state' = "Locked"
<1> DEFINE ev == Plain("RecoveryFailed")
<1>1. ev.type = "RecoveryFailed"
  BY DEF Plain
<1>2. Step(ev)
  OBVIOUS
<1> HIDE DEF ev
<1>3. InChain(ev)
  BY <1>1 DEF InChain, ComponentEvents
<1>4. ~Discard(ev)
  BY ZenonT(30), <1>1 DEF Discard, LeafHandles, LeafArms, Supervised
<1>5. EnterLocked
  BY ZenonT(30), <1>1, <1>2, <1>3, <1>4 DEF Step, Handle, PowerGood, UnsupervisedEffectFailed,
     PreSupervisionVerificationPassed, PreSupervisionVerificationFailed,
     PreSupervisionCorruptionDetected, PreSupervisionBooted, PreSupervisionTimeout,
     PreSupervisionBootFailed, AwaitingReadyComponentReady,
     AwaitingReadyVerificationPassed, AwaitingReadyVerificationFailed,
     AwaitingReadyCorruptionDetected, AwaitingReadyBootFailed, FatalBootFailure,
     ReadyUpdateRequest, ReadyBootConfirmed, ReadyCommitTimeout, UpdatingVerified,
     UpdatingRejected, UpdatingCorruptionDetected, RecoveringRestored,
     RecoveringUnavailable, RecoveringFailed, SupervisingAttestation,
     SupervisingCorruptionDetected, SupervisingBootProgress, SupervisingTimeout,
     SupervisingBootFailed, SupervisingUpdateRequest, SupervisingEffectFailed
<1> QED
  BY <1>5 DEF EnterLocked

\* The effect about to be executed belongs to a run that neither failed nor
\* locked, unless it is LatchLockdown.
LEMMA FrontIsLive ==
    ASSUME LoopInv, BatchInv, sink # <<>>, Head(sink).op # "LatchLockdown"
    PROVE  /\ Live /\ sink \in Seq(Effect) /\ Shaped(sink, cursor)
           /\ Head(sink) \in Effect /\ Head(sink) \in Elems(sink)
<1>1. sink \in Seq(Effect) /\ Shaped(sink, cursor)
  BY DEF BatchInv
<1>2. Head(sink) \in Effect /\ Head(sink) \in Elems(sink)
  BY ZenonT(30), <1>1, Front
<1>3. sink # Latched
  <2>1. Head(Latched).op = "LatchLockdown"
    BY FxIs DEF Latched
  <2> QED
    BY <2>1
<1>4. Live
  BY ZenonT(30), <1>3 DEF BatchInv, LoopInv, Live
<1> QED
  BY ZenonT(30), <1>1, <1>2, <1>4

\* Whoever is about to be verified is held, and is not running.
LEMMA AtRest ==
    ASSUME LoopInv, BatchInv, NEW H, Live => Settled(released, sink, H), sink # <<>>,
           Head(sink).op = "VerifyFirmware"
    PROVE  Head(sink).id = cursor /\ cursor \in Comp /\ cursor \in H
<1>1. /\ Live /\ sink \in Seq(Effect) /\ Shaped(sink, cursor)
      /\ Head(sink) \in Effect /\ Head(sink) \in Elems(sink)
  BY FrontIsLive
<1>2. Head(sink).id = cursor /\ Tail(sink) = <<>>
  BY ZenonT(30), <1>1, ShapedTail
<1>3. cursor \in Comp
  BY ZenonT(30), <1>1, <1>2, EffectIs
<1>4. state \in Walking
  <2>1. Has(sink, "VerifyFirmware", cursor)
    BY ZenonT(30), <1>1, <1>2 DEF Has
  <2> QED
    BY <2>1 DEF BatchInv
<1>5. cursor \notin released
  BY <1>3, <1>4, ChainAssumption DEF LoopInv, IInv, WalkPrefix, Comp
<1>6. ~Cuts(sink, cursor)
  <2>1. Elems(<<>>) = {}
    BY ElemsShort
  <2>2. \A op : ~Has(Tail(sink), op, cursor)
    BY ZenonT(30), <1>2, <2>1 DEF Has
  <2> QED
    BY <1>1, <2>2, FrontHas DEF Cuts
<1> QED
  BY ZenonT(30), <1>1, <1>2, <1>3, <1>5, <1>6 DEF Settled
====
