--------------------------- MODULE DispatchProofs ---------------------------
(***************************************************************************)
(* What the dispatch loop guarantees with any platform that keeps the      *)
(* contract of OrchestratorDispatch, whatever it answers and whenever.     *)
(***************************************************************************)
EXTENDS OrchestratorDispatch, BatchProofs

\* A leaf that names no prover is tried with these, in this order, for so many seconds
\* each.  The repeated SMT only matters on a loaded machine, where one attempt can stall.
USE SMTT(30), SMTT(31), ZenonT(30), SMTT(32)

----------------------------------------------------------------------------
(***************************************************************************)
(* The invariant of dispatch_with against a platform that keeps the        *)
(* contract.  What the properties say between runs has to be said of every *)
(* moment of a run: with the effects still in the batch taken into         *)
(* account, and with an answer that is on its way through the queue.       *)
(***************************************************************************)

\* Once the batch is executed, exactly the components the reducer takes for
\* live are out of reset.
ResetsInv == Settled(released, sink, held)

\* The component under the cursor is about to be verified or has been since
\* it was last held; whoever is about to be released has been.
CheckedInv ==
    /\ state \in Walking /\ cursor \in Comp =>
         \/ Has(sink, "VerifyFirmware", cursor)
         \/ cursor \in checked /\ ~Cuts(sink, cursor)
    /\ \A c \in Comp : Has(sink, "ReleaseReset", c) => c \in checked

\* Whoever the reducer waits for owes an answer, is about to be asked, or has
\* answered into the queue.
Awaited ==
    /\ state \in Walking /\ cursor \in Comp =>
         \/ Verify(cursor) \in due
         \/ Has(sink, "VerifyFirmware", cursor)
         \/ \E ev \in Answers(Verify(cursor)) : Queued(pending, ev)
    /\ state = "Recovering" =>
         \/ Recover(subject) \in due
         \/ Has(sink, "RecoverComponent", subject)
         \/ Emit("RecoveryFailed") \in Elems(sink)
         \/ Queued(pending, Plain("RecoveryFailed"))
         \/ \E ev \in Answers(Recover(subject)) : Queued(pending, ev)
    /\ state = "Updating" =>
         \/ Authenticate \in due
         \/ Has(sink, "AuthenticateUpdate", None)
         \/ \E ev \in Answers(Authenticate) : Queued(pending, ev)

\* A count at the cap is on its way to lockdown.
Attempts ==
    /\ \A e \in Elems(sink) : e.op = "RecoverComponent" => Below(e.attempt)
    /\ \/ \A c \in Comp : Below(retry[c])
       \/ state = "Recovering" /\ Emit("RecoveryFailed") \in Elems(sink)
       \/ state = "Recovering" /\ pending = <<Plain("RecoveryFailed")>> /\ sink = <<>>

PlantTypes ==
    held \subseteq Comp /\ checked \subseteq Comp /\ update_staged \in BOOLEAN /\ due \subseteq Obligations

DInv ==
    /\ LoopInv
    /\ PlantTypes
    /\ BatchInv
    /\ Live => ResetsInv /\ CheckedInv /\ Awaited /\ OneAtATime /\ Attempts

\* The answers to an obligation, kind by kind.
LEMMA AnswersAre ==
    /\ \A c : Answers(Verify(c)) = {About("VerificationPassed", c), About("VerificationFailed", c)}
    /\ \A c : Answers(Recover(c)) = {About("Restored", c), About("RecoveryUnavailable", c)}
    /\ \A c : Answers(Boot(c)) =
           {About(IF Kind[c] = "Active" THEN "ComponentReady" ELSE "Booted", c), About("Timeout", c)}
             \cup [type : {"BootFailed"}, id : {c}, kind : BootFailureKinds]
    /\ Answers(Authenticate) = {Plain("UpdateVerified"), Plain("UpdateRejected")}
    /\ Answers(Commit) = {Plain("CommitTimeout")}
<1>1. \A x, y : <<x, y>>[1] = x /\ <<x, y>>[2] = y
  OBVIOUS
<1>2. Authenticate[1] = "Authenticate" /\ Commit[1] = "Commit" /\ Commit # Authenticate
  <2>1. Authenticate[1] = "Authenticate" /\ Commit[1] = "Commit"
    BY <1>1, ZenonT(30) DEF Authenticate, Commit
  <2> QED
    BY <2>1
<1>3. ASSUME NEW c PROVE Answers(Verify(c)) = {About("VerificationPassed", c), About("VerificationFailed", c)}
  <2> DEFINE o == Verify(c)
  <2>1. o[1] = "Verify" /\ o[2] = c
    BY <1>1, ZenonT(30) DEF Verify
  <2> HIDE DEF o
  <2>2. o # Authenticate /\ o # Commit
    BY <1>2, <2>1
  <2>3. Answers(o) = {About("VerificationPassed", c), About("VerificationFailed", c)}
    BY <2>1, <2>2 DEF Answers
  <2> QED
    BY <2>3 DEF o
<1>4. ASSUME NEW c PROVE Answers(Recover(c)) = {About("Restored", c), About("RecoveryUnavailable", c)}
  <2> DEFINE o == Recover(c)
  <2>1. o[1] = "Recover" /\ o[2] = c
    BY <1>1, ZenonT(30) DEF Recover
  <2> HIDE DEF o
  <2>2. o # Authenticate /\ o # Commit
    BY <1>2, <2>1
  <2>3. Answers(o) = {About("Restored", c), About("RecoveryUnavailable", c)}
    BY <2>1, <2>2 DEF Answers
  <2> QED
    BY <2>3 DEF o
<1>5. ASSUME NEW c
      PROVE  Answers(Boot(c)) =
               {About(IF Kind[c] = "Active" THEN "ComponentReady" ELSE "Booted", c), About("Timeout", c)}
                 \cup [type : {"BootFailed"}, id : {c}, kind : BootFailureKinds]
  <2> DEFINE o == Boot(c)
  <2>1. o[1] = "Boot" /\ o[2] = c
    BY <1>1, ZenonT(30) DEF Boot
  <2> HIDE DEF o
  <2>2. o # Authenticate /\ o # Commit
    BY <1>2, <2>1
  <2>3. Answers(o) =
          {About(IF Kind[c] = "Active" THEN "ComponentReady" ELSE "Booted", c), About("Timeout", c)}
            \cup [type : {"BootFailed"}, id : {c}, kind : BootFailureKinds]
    BY <2>1, <2>2 DEF Answers
  <2> QED
    BY <2>3 DEF o
<1>7. Answers(Authenticate) = {Plain("UpdateVerified"), Plain("UpdateRejected")}
  BY <1>2 DEF Answers
<1>8. Answers(Commit) = {Plain("CommitTimeout")}
  BY <1>2 DEF Answers
<1> QED
  BY ZenonT(30), <1>3, <1>4, <1>5, <1>7, <1>8

\* What the platform may send is an event of the reducer.
LEMMA SentEvents ==
    /\ \A type \in ComponentEvents : \A c \in Ids : About(type, c) \in Event
    /\ \A type \in PlainEvents : Plain(type) \in Event
    /\ \A o \in Obligations : Answers(o) \subseteq Event
    /\ Unsolicited \subseteq Event
<1>1. \A type \in ComponentEvents : \A c \in Ids : About(type, c) \in Event
  BY DEF About, Event
<1>2. \A type \in PlainEvents : Plain(type) \in Event
  BY DEF Plain, Event
<1>3. Comp \subseteq Ids
  BY ChainAssumption DEF Comp, Ids
<1>4. ASSUME NEW o \in Obligations PROVE Answers(o) \subseteq Event
  <2>1. \/ o = Authenticate \/ o = Commit
        \/ \E c \in Comp : o = Verify(c) \/ o = Recover(c) \/ o = Boot(c)
    BY DEF Obligations, Verify, Recover, Boot
  <2>2. CASE o = Authenticate \/ o = Commit
    <3>1. {"UpdateVerified", "UpdateRejected", "CommitTimeout"} \subseteq PlainEvents
      BY DEF PlainEvents
    <3> QED
      BY ZenonT(30), <1>2, <2>2, <3>1, AnswersAre
  <2>3. ASSUME NEW c \in Comp, o = Verify(c) \/ o = Recover(c) PROVE Answers(o) \subseteq Event
    <3>1. {"VerificationPassed", "VerificationFailed", "Restored", "RecoveryUnavailable"}
            \subseteq ComponentEvents
      BY DEF ComponentEvents
    <3> QED
      BY <1>1, <1>3, <2>3, <3>1, AnswersAre
  <2>4. ASSUME NEW c \in Comp, o = Boot(c) PROVE Answers(o) \subseteq Event
    <3>1. {"ComponentReady", "Booted", "Timeout"} \subseteq ComponentEvents
      BY DEF ComponentEvents
    <3>2. [type : {"BootFailed"}, id : {c}, kind : BootFailureKinds] \subseteq Event
      BY <1>3 DEF Event
    <3>3. About(IF Kind[c] = "Active" THEN "ComponentReady" ELSE "Booted", c) \in Event
      BY <1>1, <1>3, <3>1
    <3>4. About("Timeout", c) \in Event
      BY ZenonT(30), <1>1, <1>3, <3>1
    <3> QED
      BY <2>4, <3>2, <3>3, <3>4, AnswersAre
  <2> QED
    BY ZenonT(30), <2>1, <2>2, <2>3, <2>4
<1>5. Unsolicited \subseteq Event
  <2>1. {"AttestationChallenge", "UpdateRequest"} \subseteq PlainEvents
    BY DEF PlainEvents
  <2>2. Plain("AttestationChallenge") \in Event /\ Plain("UpdateRequest") \in Event
    BY <1>2, <2>1
  <2>3. [type : {"PowerGood"}, result : PowerOnResults] \subseteq Event
    BY DEF Event
  <2>4. [type : {"CorruptionDetected"}, id : Ids] \subseteq Event
    BY DEF Event, ComponentEvents
  <2> QED
    BY ZenonT(30), <2>2, <2>3, <2>4 DEF Unsolicited
<1> QED
  BY ZenonT(30), <1>1, <1>2, <1>4, <1>5

\* Executing an effect neither forgets nor invents an obligation.
LEMMA OwedIs ==
    ASSUME PlantTypes, NEW e \in Effect
    PROVE  /\ Owed(e) \subseteq Obligations
           /\ \A o \in due : o[1] \in {"Verify", "Recover", "Authenticate"} => o \in Owed(e)
           /\ \A o \in Immediate(e) : o \in Obligations
<1>1. /\ e.op \in {"ReleaseReset", "AssertReset", "RecoverComponent", "VerifyFirmware"}
           => e.id \in Comp
  BY EffectIs
<1>2. \A x, y : <<x, y>>[1] = x
  OBVIOUS
<1>3. Owed(e) \subseteq Obligations
  BY <1>1 DEF Owed, PlantTypes, Obligations, Verify, Recover, Boot
<1>4. ASSUME NEW o \in due, o[1] \in {"Verify", "Recover", "Authenticate"} PROVE o \in Owed(e)
  <2>1. o # Boot(e.id) /\ o # Commit
    BY <1>2, <1>4 DEF Boot, Commit
  <2> QED
    BY <2>1 DEF Owed
<1>5. \A o \in Immediate(e) : o \in Obligations
  BY <1>1 DEF Immediate, Obligations, Verify, Recover
<1> QED
  BY ZenonT(30), <1>3, <1>4, <1>5

\* What executing an effect does to the resets and to the verdicts on record.
LEMMA ActuateIs ==
    ASSUME PlantTypes, NEW e \in Effect, Actuate(e)
    PROVE  /\ held' \subseteq Comp /\ checked' \subseteq Comp /\ update_staged' \in BOOLEAN
           /\ \A c \in Comp :
                /\ e.op \in {"AssertReset", "RecoverComponent"} /\ e.id = c =>
                     c \in held' /\ c \notin checked'
                /\ e.op = "ReleaseReset" /\ e.id = c => c \notin held'
                /\ e.op = "VerifyFirmware" /\ e.id = c => c \in checked'
                /\ ~(e.op \in {"AssertReset", "RecoverComponent", "ReleaseReset"} /\ e.id = c) =>
                     (c \in held' <=> c \in held)
                /\ ~(e.op \in {"AssertReset", "RecoverComponent", "VerifyFirmware"} /\ e.id = c) =>
                     (c \in checked' <=> c \in checked)
<1>1. /\ e.op \in {"ReleaseReset", "AssertReset", "RecoverComponent", "VerifyFirmware"}
           => e.id \in Comp
  BY EffectIs
<1>2. CASE e.op \in {"AssertReset", "RecoverComponent"}
  BY ZenonT(30), <1>1, <1>2 DEF Actuate, PlantTypes
<1>3. CASE e.op = "ReleaseReset"
  BY <1>1, <1>3 DEF Actuate, PlantTypes
<1>4. CASE e.op = "VerifyFirmware"
  BY ZenonT(30), <1>1, <1>4 DEF Actuate, PlantTypes
<1>5. CASE e.op \notin {"AssertReset", "RecoverComponent", "ReleaseReset", "VerifyFirmware"}
  BY ZenonT(30), <1>5 DEF Actuate, PlantTypes
<1> QED
  BY <1>2, <1>3, <1>4, <1>5

\* The resets and the verdicts on record, across the execution of an effect.
LEMMA ExecuteResets ==
    ASSUME DInv, Live, sink # <<>>, sink' = Tail(sink), UNCHANGED reducer, Actuate(Head(sink))
    PROVE  ResetsInv' /\ CheckedInv'
<1> DEFINE h == Head(sink)
           t == Tail(sink)
<1>1. /\ PlantTypes /\ BatchInv /\ ResetsInv /\ CheckedInv
      /\ state' = state /\ cursor' = cursor /\ released' = released /\ sink' = t
  BY DEF DInv, reducer
<1>2. sink \in Seq(Effect) /\ Shaped(sink, cursor)
  BY <1>1 DEF BatchInv
<1>3. h \in Effect
  BY ZenonT(30), <1>2, Front
<1>4. \A op, c : Has(sink, op, c) <=> (h.op = op /\ h.id = c) \/ Has(t, op, c)
  BY ZenonT(30), <1>2, FrontHas
<1>5. \A c \in Comp :
        /\ h.op \in {"AssertReset", "RecoverComponent"} /\ h.id = c =>
             c \in held' /\ c \notin checked'
        /\ h.op = "ReleaseReset" /\ h.id = c => c \notin held'
        /\ h.op = "VerifyFirmware" /\ h.id = c => c \in checked'
        /\ ~(h.op \in {"AssertReset", "RecoverComponent", "ReleaseReset"} /\ h.id = c) =>
             (c \in held' <=> c \in held)
        /\ ~(h.op \in {"AssertReset", "RecoverComponent", "VerifyFirmware"} /\ h.id = c) =>
             (c \in checked' <=> c \in checked)
  BY ZenonT(30), <1>1, <1>3, ActuateIs
<1>6. h.op = "VerifyFirmware" => t = <<>>
  BY <1>2, ShapedTail
<1>7. \A op, c : ~Has(<<>>, op, c)
  <2>1. Elems(<<>>) = {}
    BY ElemsShort
  <2> QED
    BY <2>1 DEF Has
<1> HIDE DEF h, t
<1>8. \A c : Cuts(sink, c) <=> (h.op \in {"AssertReset", "RecoverComponent"} /\ h.id = c) \/ Cuts(t, c)
  BY <1>4 DEF Cuts
<1>9. Drives(h, held, held')
  BY <1>5 DEF Drives
<1>10. ResetsInv'
  BY ZenonT(30), <1>1, <1>2, <1>9, SettledTail DEF ResetsInv, h, t
<1>11. state \in Walking /\ cursor \in Comp =>
         \/ Has(t, "VerifyFirmware", cursor)
         \/ cursor \in checked' /\ ~Cuts(t, cursor)
  <2> SUFFICES ASSUME state \in Walking, cursor \in Comp
               PROVE  \/ Has(t, "VerifyFirmware", cursor)
                      \/ cursor \in checked' /\ ~Cuts(t, cursor)
    OBVIOUS
  <2>1. CASE Has(sink, "VerifyFirmware", cursor)
    <3>1. CASE h.op = "VerifyFirmware" /\ h.id = cursor
      <4>1. t = <<>> /\ cursor \in checked'
        BY ZenonT(30), <1>5, <1>6, <3>1
      <4>2. ~Cuts(<<>>, cursor)
        BY <1>7 DEF Cuts
      <4> QED
        BY <4>1, <4>2
    <3> QED
      BY ZenonT(30), <1>4, <2>1, <3>1
  <2>2. CASE cursor \in checked /\ ~Cuts(sink, cursor)
    BY ZenonT(30), <1>5, <1>8, <2>2
  <2> QED
    BY ZenonT(30), <1>1, <2>1, <2>2 DEF CheckedInv
<1>12. ASSUME NEW c \in Comp, Has(t, "ReleaseReset", c) PROVE c \in checked'
  <2>1. Has(sink, "ReleaseReset", c)
    BY <1>4, <1>12
  <2>2. c \in checked
    BY <1>1, <2>1 DEF CheckedInv
  <2>3. c \in released
    BY ZenonT(30), <1>1, <2>1 DEF ResetsInv, Settled
  <2>4. ~Cuts(sink, c)
    BY ZenonT(30), <1>1, <2>3 DEF ResetsInv, Settled
  <2> QED
    BY ZenonT(30), <1>5, <1>8, <2>2, <2>4
<1>13. CheckedInv'
  BY ZenonT(30), <1>1, <1>11, <1>12 DEF CheckedInv
<1> QED
  BY <1>10, <1>13

\* The attempt numbers and the announcement, across the execution of an effect.
LEMMA ExecuteAttempts ==
    ASSUME DInv, Live, sink # <<>>, sink' = Tail(sink), UNCHANGED reducer,
           Head(sink) = Emit("RecoveryFailed") => pending' = <<Plain("RecoveryFailed")>>
    PROVE  Attempts'
<1>1. /\ BatchInv /\ Attempts /\ state' = state /\ retry' = retry
  BY DEF DInv, reducer
<1>2. sink \in Seq(Effect) /\ Shaped(sink, cursor)
  BY <1>1 DEF BatchInv
<1>3. Elems(sink) = {Head(sink)} \cup Elems(Tail(sink))
  BY <1>2, Front
<1>4. Head(sink).op = "Emit" => Tail(sink) = <<>>
  BY ZenonT(30), <1>2, ShapedTail
<1>5. Emit("RecoveryFailed").op = "Emit"
  BY DEF Emit
<1>6. \A e \in Elems(sink') : e.op = "RecoverComponent" => Below(e.attempt)
  BY <1>1, <1>3 DEF Attempts
<1>7. \/ \A c \in Comp : Below(retry[c])
      \/ state = "Recovering" /\ Emit("RecoveryFailed") \in Elems(sink)
  BY <1>1 DEF Attempts
<1>8. CASE \A c \in Comp : Below(retry[c])
  BY ZenonT(30), <1>1, <1>6, <1>8 DEF Attempts
<1>9. CASE state = "Recovering" /\ Emit("RecoveryFailed") \in Elems(sink)
  BY ZenonT(30), <1>1, <1>3, <1>4, <1>5, <1>6, <1>9 DEF Attempts
<1> QED
  BY ZenonT(30), <1>7, <1>8, <1>9

\* Whoever is waited for still owes an answer after the front of the batch was
\* executed, when every obligation owed or taken on is owed or answered.
LEMMA ExecuteAwaited ==
    ASSUME DInv, Live, sink # <<>>, sink' = Tail(sink), UNCHANGED reducer,
           \A ev : Queued(pending, ev) => Queued(pending', ev),
           Head(sink) = Emit("RecoveryFailed") => Queued(pending', Plain("RecoveryFailed")),
           \A o \in due \cup Immediate(Head(sink)) :
              o[1] \in {"Verify", "Recover", "Authenticate"} =>
                o \in due' \/ \E ev \in Answers(o) : Queued(pending', ev)
    PROVE  Awaited'
<1> DEFINE h == Head(sink)
           t == Tail(sink)
<1>1. /\ BatchInv /\ Awaited /\ sink' = t
      /\ state' = state /\ cursor' = cursor /\ subject' = subject
  BY DEF DInv, reducer
<1>2. sink \in Seq(Effect)
  BY <1>1 DEF BatchInv
<1>3. \A op, c : Has(sink, op, c) <=> (h.op = op /\ h.id = c) \/ Has(t, op, c)
  BY ZenonT(30), <1>2, FrontHas
<1>4. Elems(sink) = {h} \cup Elems(t)
  BY <1>2, Front
<1>5. \A x, y : <<x, y>>[1] = x
  OBVIOUS
<1>6. /\ \A c : Verify(c)[1] = "Verify" /\ Recover(c)[1] = "Recover"
      /\ Authenticate[1] = "Authenticate"
  BY <1>5, ZenonT(30) DEF Verify, Recover, Authenticate
<1>7. /\ h.op = "VerifyFirmware" => Verify(h.id) \in Immediate(h)
      /\ h.op = "RecoverComponent" => Recover(h.id) \in Immediate(h)
      /\ h.op = "AuthenticateUpdate" => Authenticate \in Immediate(h)
  BY DEF Immediate
<1>8. \A o \in due \cup Immediate(h) :
        o[1] \in {"Verify", "Recover", "Authenticate"} =>
          o \in due' \/ \E ev \in Answers(o) : Queued(pending', ev)
  OBVIOUS
<1>9. h = Emit("RecoveryFailed") => Queued(pending', Plain("RecoveryFailed"))
  OBVIOUS
<1> HIDE DEF h, t
<1>10. state \in Walking /\ cursor \in Comp =>
         \/ Verify(cursor) \in due'
         \/ Has(t, "VerifyFirmware", cursor)
         \/ \E ev \in Answers(Verify(cursor)) : Queued(pending', ev)
  <2> SUFFICES ASSUME state \in Walking, cursor \in Comp, ~Has(t, "VerifyFirmware", cursor)
               PROVE  \/ Verify(cursor) \in due'
                      \/ \E ev \in Answers(Verify(cursor)) : Queued(pending', ev)
    OBVIOUS
  <2>1. \/ Verify(cursor) \in due \cup Immediate(h)
        \/ \E ev \in Answers(Verify(cursor)) : Queued(pending, ev)
    BY ZenonT(30), <1>1, <1>3, <1>7 DEF Awaited
  <2> QED
    BY ZenonT(30), <1>6, <1>8, <2>1
<1>11. state = "Recovering" =>
         \/ Recover(subject) \in due'
         \/ Has(t, "RecoverComponent", subject)
         \/ Emit("RecoveryFailed") \in Elems(t)
         \/ Queued(pending', Plain("RecoveryFailed"))
         \/ \E ev \in Answers(Recover(subject)) : Queued(pending', ev)
  <2> SUFFICES ASSUME state = "Recovering", ~Has(t, "RecoverComponent", subject),
                      Emit("RecoveryFailed") \notin Elems(t),
                      ~Queued(pending', Plain("RecoveryFailed"))
               PROVE  \/ Recover(subject) \in due'
                      \/ \E ev \in Answers(Recover(subject)) : Queued(pending', ev)
    OBVIOUS
  <2>1. \/ Recover(subject) \in due \cup Immediate(h)
        \/ \E ev \in Answers(Recover(subject)) : Queued(pending, ev)
    BY ZenonT(30), <1>1, <1>3, <1>4, <1>7, <1>9 DEF Awaited
  <2> QED
    BY ZenonT(30), <1>6, <1>8, <2>1
<1>12. state = "Updating" =>
         \/ Authenticate \in due'
         \/ Has(t, "AuthenticateUpdate", None)
         \/ \E ev \in Answers(Authenticate) : Queued(pending', ev)
  <2> SUFFICES ASSUME state = "Updating", ~Has(t, "AuthenticateUpdate", None)
               PROVE  \/ Authenticate \in due'
                      \/ \E ev \in Answers(Authenticate) : Queued(pending', ev)
    OBVIOUS
  <2>1. \/ Authenticate \in due \cup Immediate(h)
        \/ \E ev \in Answers(Authenticate) : Queued(pending, ev)
    BY ZenonT(30), <1>1, <1>3, <1>7 DEF Awaited
  <2> QED
    BY ZenonT(30), <1>6, <1>8, <2>1
<1> QED
  BY <1>1, <1>10, <1>11, <1>12, ZenonT(30) DEF Awaited

\* The part of the invariant that holds in a run that failed or locked too.
LEMMA DeadInv ==
    ASSUME LoopInv', PlantTypes', BatchInv', failed' \/ state' = "Locked"
    PROVE  DInv'
BY DEF DInv, Live

\* `execute` returns Ok(None).
LEMMA SilentInv ==
    ASSUME DInv, ExecuteSilent
    PROVE  DInv'
<1>1. /\ sink # <<>> /\ sink' = Tail(sink) /\ pending' = pending /\ failed' = failed
      /\ UNCHANGED reducer /\ Head(sink).op # "Emit" /\ Actuate(Head(sink))
      /\ due' = Owed(Head(sink))
  BY DEF ExecuteSilent, ExecuteOk, External, SinkTail
<1>2. LoopInv /\ PlantTypes /\ BatchInv
  BY DEF DInv
<1>3. sink \in Seq(Effect) /\ Shaped(sink, cursor) /\ pending \in Seq(Event)
  BY <1>2 DEF BatchInv, LoopInv, LoopTypeOK
<1>4. Head(sink) \in Effect /\ Elems(sink) = {Head(sink)} \cup Elems(Tail(sink))
  BY ZenonT(30), <1>1, <1>3, Front
<1>5. LoopInv'
  BY ZenonT(30), <1>1, <1>2, ConsumeInv DEF LoopInv, LoopTypeOK
<1>6. BatchInv'
  BY ZenonT(30), <1>1, <1>2, ExecuteBatch
<1>7. PlantTypes'
  <2>1. held' \subseteq Comp /\ checked' \subseteq Comp /\ update_staged' \in BOOLEAN
    BY ZenonT(30), <1>1, <1>2, <1>4, ActuateIs
  <2>2. due' \subseteq Obligations
    BY ZenonT(30), <1>1, <1>2, <1>4, OwedIs
  <2> QED
    BY ZenonT(30), <2>1, <2>2 DEF PlantTypes
<1>8. CASE Live
  <2>0. Awaited /\ OneAtATime /\ Attempts
    BY <1>8 DEF DInv
  <2>1. ResetsInv' /\ CheckedInv'
    BY ZenonT(30), <1>1, <1>8, ExecuteResets
  <2>2. Head(sink) # Emit("RecoveryFailed")
    BY <1>1 DEF Emit
  <2>3. Attempts'
    BY ZenonT(30), <1>1, <1>8, <2>2, ExecuteAttempts
  <2>4. \A o \in due \cup Immediate(Head(sink)) :
          o[1] \in {"Verify", "Recover", "Authenticate"} => o \in due'
    <3>1. \A o \in due : o[1] \in {"Verify", "Recover", "Authenticate"} => o \in Owed(Head(sink))
      BY ZenonT(30), <1>2, <1>4, OwedIs
    <3>2. \A o \in Immediate(Head(sink)) : o \in Owed(Head(sink))
      BY DEF Immediate, Owed
    <3> QED
      BY ZenonT(30), <1>1, <3>1, <3>2
  <2>5. Awaited'
    BY ZenonT(30), <1>1, <1>8, <2>2, <2>4, ExecuteAwaited
  <2>6. OneAtATime'
    BY ZenonT(30), <1>1, <1>4, <2>0 DEF OneAtATime
  <2> QED
    BY ZenonT(30), <1>5, <1>6, <1>7, <2>1, <2>3, <2>5, <2>6 DEF DInv
<1>9. CASE ~Live
  <2>1. failed' \/ state' = "Locked"
    BY ZenonT(30), <1>1, <1>9 DEF Live, reducer, LoopInv, LoopTypeOK
  <2> QED
    BY ZenonT(30), <1>5, <1>6, <1>7, <2>1, DeadInv
<1> QED
  BY ZenonT(30), <1>8, <1>9

\* `execute` returns Err: the run has failed.
LEMMA FailingInv ==
    ASSUME DInv, ExecuteFailing
    PROVE  DInv'
<1>1. /\ sink # <<>> /\ Abandon /\ sink' = <<>> /\ failed' = TRUE /\ UNCHANGED <<reducer, due>>
      /\ Actuate(Head(sink)) \/ UNCHANGED <<held, checked, update_staged>>
  BY DEF ExecuteFailing, ExecuteErr, External, Abandon
<1>2. LoopInv /\ PlantTypes /\ BatchInv
  BY DEF DInv
<1>3. LoopInv'
  BY ZenonT(30), <1>1, <1>2, AbandonInv
<1>4. BatchInv'
  BY ZenonT(30), <1>1, <1>2, ExecuteBatch
<1>5. PlantTypes'
  <2>1. Head(sink) \in Effect
    BY ZenonT(30), <1>1, <1>2, Front DEF BatchInv
  <2>2. CASE Actuate(Head(sink))
    BY ZenonT(30), <1>1, <1>2, <2>1, <2>2, ActuateIs DEF PlantTypes
  <2>3. CASE UNCHANGED <<held, checked, update_staged>>
    BY ZenonT(30), <1>1, <1>2, <2>3 DEF PlantTypes
  <2> QED
    BY ZenonT(30), <1>1, <2>2, <2>3
<1> QED
  BY ZenonT(30), <1>1, <1>3, <1>4, <1>5, DeadInv

\* An event that the front of the batch puts into the queue.
LEMMA JoinInv ==
    ASSUME DInv, sink # <<>>, Spawns(Head(sink)), NEW ev \in Event, Enqueue(ev),
           UNCHANGED reducer, Actuate(Head(sink)), PlantTypes',
           Head(sink) = Emit("RecoveryFailed") => ev = Plain("RecoveryFailed"),
           \A o \in due \cup Immediate(Head(sink)) :
              o[1] \in {"Verify", "Recover", "Authenticate"} => o \in due' \/ ev \in Answers(o)
    PROVE  DInv'
<1>1. LoopInv /\ PlantTypes /\ BatchInv
  BY DEF DInv
<1>2. sink \in Seq(Effect) /\ Shaped(sink, cursor) /\ pending \in Seq(Event)
  BY ZenonT(30), <1>1 DEF BatchInv, LoopInv, LoopTypeOK
<1>3. LoopInv'
  BY ZenonT(30), <1>1, EnqueueInv
<1>4. BatchInv'
  <2>1. sink' \in {<<>>, Tail(sink)}
    BY DEF Enqueue, Abandon, SinkTail
  <2> QED
    BY ZenonT(30), <1>1, <2>1, ExecuteBatch
<1>5. CASE Live
  <2>0. Awaited /\ OneAtATime /\ Attempts
    BY ZenonT(30), <1>5 DEF DInv
  <2>1. Head(sink) \in Elems(sink)
    BY ZenonT(30), <1>2, Front
  <2>2. pending = <<>>
    BY ZenonT(30), <2>0, <2>1 DEF OneAtATime
  <2>3. pending' = <<ev>> /\ sink' = Tail(sink) /\ failed' = failed
    <3>1. Len(pending) = 0 /\ 0 < PendingCap /\ 0 # PendingCap
      BY <2>2, PendingCapAssumption
    <3>2. \A e : Append(<<>>, e) = <<e>>
      OBVIOUS
    <3>3. pending' = Append(pending, ev) /\ sink' = Tail(sink) /\ failed' = failed
      BY <3>1 DEF Enqueue
    <3> QED
      BY ZenonT(30), <2>2, <3>2, <3>3
  <2>4. ResetsInv' /\ CheckedInv'
    BY ZenonT(30), <1>5, <2>3, ExecuteResets
  <2>5. Attempts'
    BY ZenonT(30), <1>5, <2>3, ExecuteAttempts
  <2>6. Queued(pending', ev) /\ \A e : ~Queued(pending, e)
    BY ZenonT(30), <2>2, <2>3, QueuedOnly
  <2>7. Awaited'
    <3>1. \A o \in due \cup Immediate(Head(sink)) :
             o[1] \in {"Verify", "Recover", "Authenticate"} =>
               o \in due' \/ \E e \in Answers(o) : Queued(pending', e)
      BY <2>6
    <3>2. Head(sink) = Emit("RecoveryFailed") => Queued(pending', Plain("RecoveryFailed"))
      BY <2>6
    <3> QED
      BY ZenonT(30), <1>5, <2>3, <2>6, <3>1, <3>2, ExecuteAwaited
  <2>8. OneAtATime'
    <3>1. Len(pending') <= 1
      BY <2>3
    <3>2. \A e \in Elems(Tail(sink)) : ~Spawns(e)
      BY <1>2, ShapedTail
    <3> QED
      BY ZenonT(30), <2>3, <3>1, <3>2 DEF OneAtATime
  <2> QED
    BY ZenonT(30), <1>3, <1>4, <2>4, <2>5, <2>7, <2>8 DEF DInv
<1>6. CASE ~Live
  <2>1. failed' \/ state' = "Locked"
    BY <1>1, <1>6 DEF Live, reducer, Enqueue, Abandon, SinkTail
  <2> QED
    BY ZenonT(30), <1>3, <1>4, <2>1, DeadInv
<1> QED
  BY ZenonT(30), <1>5, <1>6

\* `execute` returns Ok(Some(event)): the answer itself.
LEMMA AnsweringInv ==
    ASSUME DInv, ExecuteAnswering
    PROVE  DInv'
<1> DEFINE h == Head(sink)
<1>1. sink # <<>> /\ h.op # "Emit" /\ Actuate(h)
  BY DEF ExecuteAnswering, External
<1>2. PICK o \in Immediate(h) : \E ev \in Answers(o) : ExecuteReply(ev) /\ due' = Owed(h) \ {o}
  BY DEF ExecuteAnswering
<1>3. PICK ev \in Answers(o) : ExecuteReply(ev) /\ due' = Owed(h) \ {o}
  BY <1>2
<1>4. Enqueue(ev) /\ UNCHANGED reducer
  BY <1>3 DEF ExecuteReply
<1>5. PlantTypes /\ BatchInv
  BY DEF DInv
<1>6. h \in Effect
  BY ZenonT(30), <1>1, <1>5, Front DEF BatchInv
<1>7. Spawns(h)
  BY <1>2 DEF Immediate, Spawns
<1>8. ev \in Event
  BY ZenonT(30), <1>3, <1>5, <1>6, OwedIs, SentEvents
<1>9. PlantTypes'
  <2>1. held' \subseteq Comp /\ checked' \subseteq Comp /\ update_staged' \in BOOLEAN
    BY ZenonT(30), <1>1, <1>5, <1>6, ActuateIs
  <2>2. due' \subseteq Obligations
    BY ZenonT(30), <1>3, <1>5, <1>6, OwedIs
  <2> QED
    BY ZenonT(30), <2>1, <2>2 DEF PlantTypes
<1>10. h # Emit("RecoveryFailed")
  BY <1>1 DEF Emit
<1>11. \A x \in due \cup Immediate(h) :
         x[1] \in {"Verify", "Recover", "Authenticate"} => x \in due' \/ ev \in Answers(x)
  <2>1. \A x \in due : x[1] \in {"Verify", "Recover", "Authenticate"} => x \in Owed(h)
    BY ZenonT(30), <1>5, <1>6, OwedIs
  <2>2. \A x \in Immediate(h) : x \in Owed(h)
    BY DEF Immediate, Owed
  <2> HIDE DEF h
  <2> QED
    BY ZenonT(30), <1>3, <2>1, <2>2
<1> QED
  BY ZenonT(30), <1>1, <1>4, <1>7, <1>8, <1>9, <1>10, <1>11, JoinInv

\* Emit puts the event it carries into the queue.
LEMMA EmitInv ==
    ASSUME DInv, ExecuteEmit
    PROVE  DInv'
<1> DEFINE h == Head(sink)
<1>1. sink # <<>> /\ UNCHANGED <<reducer, plant>>
  BY DEF ExecuteEmit, EmitFront
<1>2. PICK ev \in Event : h = [op |-> "Emit", event |-> ev] /\ Enqueue(ev)
  BY DEF ExecuteEmit, EmitFront
<1>3. PlantTypes /\ BatchInv
  BY DEF DInv
<1>4. h \in Effect
  BY ZenonT(30), <1>1, <1>3, Front DEF BatchInv
<1>5. h.op = "Emit" /\ h.event = ev
  BY <1>2
<1>6. h = Emit("RecoveryFailed")
  BY ZenonT(30), <1>4, <1>5, EffectIs
<1>7. ev = Plain("RecoveryFailed")
  <2>1. Emit("RecoveryFailed").event = Plain("RecoveryFailed")
    BY DEF Emit, Plain
  <2> QED
    BY ZenonT(30), <1>5, <1>6, <2>1
<1> HIDE DEF h
<1>8. Spawns(h) /\ Immediate(h) = {}
  BY <1>5 DEF Spawns, Immediate
<1>9. Actuate(h)
  BY ZenonT(30), <1>1, <1>5 DEF Actuate, plant
<1>10. PlantTypes' /\ due' = due
  BY ZenonT(30), <1>1, <1>3 DEF PlantTypes, plant
<1> QED
  BY ZenonT(30), <1>1, <1>2, <1>7, <1>8, <1>9, <1>10, JoinInv DEF h

\* An answer that reaches the reducer while it waits for it is awaited.
LEMMA AnswersAwaited ==
    ASSUME NEW ev
    PROVE  /\ state \in Walking /\ cursor \in Comp /\ ev \in Answers(Verify(cursor)) => Awaits(ev)
           /\ state = "Recovering" /\ ev = Plain("RecoveryFailed") => Awaits(ev)
           /\ state = "Recovering" /\ ev \in Answers(Recover(subject)) => Awaits(ev)
           /\ state = "Updating" /\ ev \in Answers(Authenticate) => Awaits(ev)
<1>1. /\ \A type, c : About(type, c).type = type /\ About(type, c).id = c
      /\ \A type : Plain(type).type = type
  BY DEF About, Plain
<1>2. ASSUME state \in Walking, cursor \in Comp, ev \in Answers(Verify(cursor)) PROVE Awaits(ev)
  <2>1. ev.type \in {"VerificationPassed", "VerificationFailed"} /\ ev.id = cursor
    BY <1>1, <1>2, AnswersAre
  <2> QED
    BY ZenonT(30), <1>2, <2>1 DEF Awaits
<1>3. ASSUME state = "Recovering", ev = Plain("RecoveryFailed") PROVE Awaits(ev)
  BY ZenonT(30), <1>1, <1>3 DEF Awaits
<1>4. ASSUME state = "Recovering", ev \in Answers(Recover(subject)) PROVE Awaits(ev)
  <2>1. ev.type \in {"Restored", "RecoveryUnavailable"} /\ ev.id = subject
    BY <1>1, <1>4, AnswersAre
  <2> QED
    BY ZenonT(30), <1>4, <2>1 DEF Awaits
<1>5. ASSUME state = "Updating", ev \in Answers(Authenticate) PROVE Awaits(ev)
  <2>1. ev.type \in {"UpdateVerified", "UpdateRejected"}
    BY ZenonT(30), <1>1, <1>5, AnswersAre
  <2> QED
    BY ZenonT(30), <1>5, <2>1 DEF Awaits
<1> QED
  BY ZenonT(30), <1>2, <1>3, <1>4, <1>5

\* The reducer settles an event and stays out of lockdown: its promises about
\* the batch re-establish the invariant.
LEMMA SettleLive ==
    ASSUME DInv, Live, sink = <<>>, UNCHANGED plant, NEW ev, pending = <<ev>>, pending' = <<>>,
           Batch(ev), ev = Plain("RecoveryFailed") /\ state = "Recovering" => state' = "Locked"
    PROVE  ResetsInv' /\ CheckedInv' /\ Awaited' /\ OneAtATime' /\ Attempts'
<1>0. /\ ResetsInv /\ CheckedInv /\ Awaited /\ Attempts /\ state' # "Locked"
      /\ Shapes /\ Agrees /\ Asks(ev) /\ Counts
      /\ held' = held /\ checked' = checked /\ due' = due
  BY DEF DInv, Batch, plant
<1>1. Elems(<<>>) = {}
  BY ElemsShort
<1>2. \A op, c : ~Has(sink, op, c) /\ ~Cuts(sink, c)
  BY <1>1 DEF Has, Cuts
<1>3. \A e : Queued(pending, e) => e = ev
  BY QueuedOnly
<1>4. ResetsInv'
  BY <1>0, SettledBatch DEF ResetsInv
<1>5. CheckedInv'
  <2>1. state \in Walking /\ cursor \in Comp => cursor \in checked
    BY ZenonT(30), <1>0, <1>2 DEF CheckedInv
  <2>2. \A c \in Comp : Has(sink', "ReleaseReset", c) => c \in checked
    BY ZenonT(30), <1>0, <2>1 DEF Agrees
  <2>3. state' \in Walking /\ cursor' \in Comp =>
          \/ Has(sink', "VerifyFirmware", cursor')
          \/ cursor' \in checked /\ ~Cuts(sink', cursor')
    BY <1>0, <2>1 DEF Asks
  <2> QED
    BY ZenonT(30), <1>0, <2>2, <2>3 DEF CheckedInv
<1>6. Awaited'
  <2>1. state' \in Walking /\ cursor' \in Comp =>
          Verify(cursor') \in due \/ Has(sink', "VerifyFirmware", cursor')
    <3>1. state \in Walking /\ cursor \in Comp /\ ~Awaits(ev) => Verify(cursor) \in due
      BY ZenonT(30), <1>0, <1>2, <1>3, AnswersAwaited DEF Awaited
    <3> QED
      BY ZenonT(30), <1>0, <3>1 DEF Asks
  <2>2. state' = "Recovering" =>
          \/ Recover(subject') \in due
          \/ Has(sink', "RecoverComponent", subject')
          \/ Emit("RecoveryFailed") \in Elems(sink')
    <3>1. state = "Recovering" /\ ~Awaits(ev) => Recover(subject) \in due
      BY ZenonT(30), <1>0, <1>1, <1>2, <1>3, AnswersAwaited DEF Awaited
    <3> QED
      BY ZenonT(30), <1>0, <3>1 DEF Asks
  <2>3. state' = "Updating" => Authenticate \in due \/ Has(sink', "AuthenticateUpdate", None)
    <3>1. state = "Updating" /\ ~Awaits(ev) => Authenticate \in due
      BY ZenonT(30), <1>0, <1>2, <1>3, AnswersAwaited DEF Awaited
    <3> QED
      BY ZenonT(30), <1>0, <3>1 DEF Asks
  <2> QED
    BY <1>0, <2>1, <2>2, <2>3, ZenonT(30) DEF Awaited
<1>7. OneAtATime'
  <2>1. Len(<<>>) <= 1
    OBVIOUS
  <2> QED
    BY <2>1 DEF OneAtATime
<1>8. Attempts'
  <2>1. \A c \in Comp : Below(retry[c])
    <3>1. ~(state = "Recovering" /\ pending = <<Plain("RecoveryFailed")>>)
      <4>1. \A a, b : <<a>> = <<b>> => a = b
        OBVIOUS
      <4> QED
        BY ZenonT(30), <1>0, <4>1
    <3> QED
      BY ZenonT(30), <1>0, <1>1, <3>1 DEF Attempts
  <2>2. \A e \in Elems(sink') : e.op = "RecoverComponent" => Below(e.attempt)
    BY <1>0, <2>1, ZenonT(30) DEF Counts
  <2>3. \/ \A c \in Comp : Below(retry'[c])
        \/ state' = "Recovering" /\ Emit("RecoveryFailed") \in Elems(sink')
    BY <1>0, <2>1, ZenonT(30) DEF Counts
  <2> QED
    BY <2>2, <2>3, ZenonT(30) DEF Attempts
<1> QED
  BY ZenonT(30), <1>4, <1>5, <1>6, <1>7, <1>8

\* The reducer settles the event at the front.
LEMMA SettleDInv ==
    ASSUME DInv, Settle
    PROVE  DInv'
<1> DEFINE ev == Head(pending)
<1>1. /\ sink = <<>> /\ pending # <<>> /\ Step(ev) /\ pending' = Tail(pending)
      /\ failed' = failed /\ UNCHANGED plant /\ SettleFront
  BY DEF Settle, SettleFront
<1>2. LoopInv /\ PlantTypes /\ BatchInv
  BY DEF DInv
<1>3. IInv /\ TypeOK /\ pending \in Seq(Event) /\ failed \in BOOLEAN
  BY <1>2 DEF LoopInv, LoopTypeOK
<1>4. LoopInv'
  BY ZenonT(30), <1>1, <1>2, SettleInv
<1>5. PlantTypes'
  BY ZenonT(30), <1>1, <1>2 DEF PlantTypes, plant
<1>6. CASE state = "Locked"
  <2>1. sink' = <<>> /\ state' = "Locked"
    BY <1>1, <1>6, LockedDrops DEF Drop, Report
  <2>2. BatchInv'
    <3>1. <<>> \in Seq(Effect) /\ Quiet(<<>>)
      BY ZenonT(30), EmptyInert, InertProfile DEF Quiet
    <3>2. Shaped(<<>>, cursor') /\ ~Has(<<>>, "VerifyFirmware", cursor')
      BY <3>1, QuietShaped
    <3> QED
      BY ZenonT(30), <2>1, <3>1, <3>2 DEF BatchInv
  <2> QED
    BY ZenonT(30), <1>4, <1>5, <2>1, <2>2, DeadInv
<1>7. CASE state # "Locked" /\ state' = "Locked" /\ sink' = Latched
  <2>1. BatchInv'
    BY ZenonT(30), <1>7, LatchedBatch DEF BatchInv
  <2> QED
    BY ZenonT(30), <1>4, <1>5, <1>7, <2>1, DeadInv
<1>8. CASE state # "Locked" /\ Batch(ev)
  <2>1. BatchInv'
    BY <1>8 DEF Batch, Shapes, BatchInv
  <2>2. CASE failed
    BY ZenonT(30), <1>1, <1>4, <1>5, <2>1, <2>2, DeadInv
  <2>3. CASE ~failed
    <3>1. Live /\ OneAtATime
      BY <1>8, <2>3 DEF DInv, Live
    <3>2. pending = <<ev>> /\ Tail(pending) = <<>>
      BY <1>1, <1>3, <3>1, OneIs, ZenonT(30) DEF OneAtATime
    <3>3. ev = Plain("RecoveryFailed") /\ state = "Recovering" => state' = "Locked"
      BY ZenonT(30), <1>1, <1>3, RecoveryFailedLocks
    <3> HIDE DEF ev
    <3>4. ResetsInv' /\ CheckedInv' /\ Awaited' /\ OneAtATime' /\ Attempts'
      BY ZenonT(30), <1>1, <1>8, <3>1, <3>2, <3>3, SettleLive
    <3> QED
      BY ZenonT(30), <1>4, <1>5, <2>1, <3>4 DEF DInv
  <2> QED
    BY ZenonT(30), <2>2, <2>3
<1> QED
  BY ZenonT(30), <1>1, <1>3, <1>6, <1>7, <1>8, StepOutcome DEF Outcome

\* A run starts: an answer that was owed is on its way.
LEMMA StartDInv ==
    ASSUME DInv, NEW ev \in Event, Start(ev), UNCHANGED <<held, checked, update_staged>>,
           due' \subseteq due, \A o \in due : o \in due' \/ ev \in Answers(o)
    PROVE  DInv'
<1>1. /\ pending = <<>> /\ sink = <<>> /\ pending' = <<ev>> /\ failed' = FALSE
      /\ UNCHANGED vars /\ sink' = <<>> /\ UNCHANGED reducer
  BY DEF Start, Idle, vars, reducer
<1>2. LoopInv /\ PlantTypes /\ BatchInv
  BY DEF DInv
<1>3. LoopInv'
  BY ZenonT(30), <1>2, LoopNextInv DEF LoopNext
<1>4. PlantTypes'
  BY ZenonT(30), <1>2 DEF PlantTypes
<1>5. BatchInv'
  BY ZenonT(30), <1>1, <1>2 DEF BatchInv, vars
<1>6. ASSUME state # "Locked" PROVE ResetsInv' /\ CheckedInv' /\ Awaited' /\ OneAtATime' /\ Attempts'
  <2>1. Live
    BY ZenonT(30), <1>1, <1>2, <1>6 DEF Live, LoopInv
  <2>2. ResetsInv /\ CheckedInv /\ Awaited /\ Attempts
    BY <2>1 DEF DInv
  <2>3. ResetsInv' /\ CheckedInv'
    BY ZenonT(30), <1>1, <2>2 DEF ResetsInv, CheckedInv, vars
  <2>4. Elems(<<>>) = {} /\ \A e : ~Queued(pending, e)
    BY ZenonT(30), <1>1, ElemsShort, QueuedOnly
  <2>5. Attempts'
    <3>1. (\A c \in Comp : Below(retry[c]))
      BY ZenonT(30), <1>1, <2>2, <2>4 DEF Attempts
    <3>2. retry' = retry
      BY ZenonT(30), <1>1 DEF vars
    <3> QED
      BY ZenonT(30), <1>1, <2>4, <3>1, <3>2 DEF Attempts
  <2>6. OneAtATime'
    <3>1. Len(<<ev>>) <= 1
      OBVIOUS
    <3> QED
      BY ZenonT(30), <1>1, <2>4, <3>1 DEF OneAtATime
  <2>7. Awaited'
    <3>1. state' = state /\ cursor' = cursor /\ subject' = subject
      BY <1>1 DEF vars
    <3>2. Queued(pending', ev)
      BY ZenonT(30), <1>1, QueuedOnly
    <3>3. \A op, c : ~Has(sink, op, c)
      BY <1>1, <2>4 DEF Has
    <3>4. \A o \in due : o \in due' \/ \E e \in Answers(o) : Queued(pending', e)
      BY ZenonT(30), <3>2
    <3>5. /\ state \in Walking /\ cursor \in Comp => Verify(cursor) \in due
          /\ state = "Recovering" => Recover(subject) \in due
          /\ state = "Updating" => Authenticate \in due
      BY ZenonT(30), <1>1, <2>2, <2>4, <3>3 DEF Awaited
    <3> QED
      BY <3>1, <3>4, <3>5, ZenonT(30) DEF Awaited
  <2> QED
    BY <2>3, <2>5, <2>6, <2>7
<1>7. state' = state
  BY ZenonT(30), <1>1 DEF vars
<1> QED
  BY ZenonT(30), <1>3, <1>4, <1>5, <1>6, <1>7 DEF DInv, Live

\* An event from outside starts a run: an answer that was owed, a health report,
\* or one nobody asked for.
LEMMA DispatchDInv ==
    ASSUME DInv, DispatchEvent
    PROVE  DInv'
<1>0. UNCHANGED <<held, checked, update_staged>> /\ due \subseteq Obligations
  BY ZenonT(30) DEF DispatchEvent, DInv, PlantTypes
<1>1. ASSUME NEW o \in due, NEW ev \in Answers(o), Start(ev), due' = due \ {o} PROVE DInv'
  <2>1. ev \in Event
    BY ZenonT(30), <1>0, <1>1, SentEvents
  <2>2. due' \subseteq due /\ \A x \in due : x \in due' \/ ev \in Answers(x)
    BY ZenonT(30), <1>1
  <2> QED
    BY ZenonT(30), <1>0, <1>1, <2>1, <2>2, StartDInv
<1>2. ASSUME NEW c \in Comp, Start(About("BootConfirmed", c)), UNCHANGED due PROVE DInv'
  <2>1. About("BootConfirmed", c) \in Event
    <3>1. "BootConfirmed" \in ComponentEvents /\ c \in Ids
      BY ChainAssumption DEF ComponentEvents, Comp, Ids
    <3> QED
      BY ZenonT(30), <3>1, SentEvents
  <2> QED
    BY ZenonT(30), <1>0, <1>2, <2>1, StartDInv
<1>3. ASSUME NEW ev \in Unsolicited, Start(ev), UNCHANGED due PROVE DInv'
  <2>1. ev \in Event
    BY SentEvents
  <2> QED
    BY ZenonT(30), <1>0, <1>3, <2>1, StartDInv
<1> QED
  BY ZenonT(30), <1>1, <1>2, <1>3 DEF DispatchEvent

\* Every step of dispatch_with against such a platform keeps the invariant.
LEMMA DispatchNextInv ==
    ASSUME DInv, [DispatchNext]_dvars
    PROVE  DInv'
<1>1. CASE DispatchNext
  BY <1>1, DispatchDInv, SettleDInv, EmitInv, SilentInv, AnsweringInv, FailingInv
     DEF DispatchNext, ExecuteFront
<1>2. CASE UNCHANGED dvars
  <2>1. LoopInv'
    BY ZenonT(30), <1>2, LoopNextInv DEF DInv, dvars
  <2>2. UNCHANGED <<vars, pending, failed, held, checked, update_staged, due>>
    BY ZenonT(30), <1>2 DEF dvars, plant, lvars
  <2>3. PlantTypes' /\ BatchInv' /\ (Live' => Live)
    BY ZenonT(30), <2>2 DEF DInv, PlantTypes, BatchInv, Live, vars
  <2>4. ResetsInv /\ CheckedInv /\ OneAtATime => ResetsInv' /\ CheckedInv' /\ OneAtATime'
    BY ZenonT(30), <2>2 DEF ResetsInv, Settled, CheckedInv, OneAtATime, vars
  <2>5. Awaited => Awaited'
    BY <2>2 DEF Awaited, vars
  <2>6. Attempts => Attempts'
    BY ZenonT(30), <2>2 DEF Attempts, vars
  <2> QED
    BY ZenonT(30), <2>1, <2>3, <2>4, <2>5, <2>6 DEF DInv
<1> QED
  BY ZenonT(30), <1>1, <1>2

\* An orchestrator just built, on a board with every component in reset.
LEMMA DispatchInitInv == DispatchInit => DInv
<1> SUFFICES ASSUME DispatchInit PROVE DInv
  OBVIOUS
<1>1. /\ LoopInit /\ held = Comp /\ checked = {} /\ update_staged = FALSE /\ due = {}
      /\ state = "PowerOnReset" /\ sink = <<>> /\ pending = <<>> /\ released = {}
      /\ retry = [c \in Comp |-> 0]
  BY DEF DispatchInit, LoopInit, Init
<1>2. LoopInv
  BY ZenonT(30), <1>1, LoopInitInv
<1>3. PlantTypes
  BY ZenonT(30), <1>1 DEF PlantTypes
<1>4. <<>> \in Seq(Effect) /\ Quiet(<<>>) /\ Elems(<<>>) = {}
  BY ZenonT(30), EmptyInert, InertProfile, ElemsShort DEF Quiet
<1>5. Shaped(<<>>, cursor) /\ ~Has(<<>>, "VerifyFirmware", cursor)
  BY <1>4, QuietShaped
<1>6. BatchInv
  BY ZenonT(30), <1>1, <1>4, <1>5 DEF BatchInv
<1>7. \A op, c : ~Has(sink, op, c)
  BY <1>1, <1>4 DEF Has
<1>8. ResetsInv /\ CheckedInv
  BY ZenonT(30), <1>1, <1>7 DEF ResetsInv, Settled, CheckedInv, Cuts, Walking
<1>9. Awaited
  BY <1>1 DEF Awaited, Walking
<1>10. OneAtATime
  BY <1>1 DEF OneAtATime
<1>11. Attempts
  BY <1>1, <1>4 DEF Attempts, Below
<1> QED
  BY ZenonT(30), <1>2, <1>3, <1>6, <1>8, <1>9, <1>10, <1>11 DEF DInv

\* The invariant of dispatch_with against every platform that keeps the
\* contract, from which the properties below follow.
THEOREM DispatchInvariance == DispatchSpec => []DInv
BY DispatchInitInv, DispatchNextInv, PTL DEF DispatchSpec

\* Between runs the reducer and the platform agree on who is out of reset.
LEMMA DInvResets == DInv => ResetsAgree
<1> SUFFICES ASSUME DInv, Idle, state # "Locked" PROVE held = Comp \ released
  BY DEF ResetsAgree
<1>1. Live /\ held \subseteq Comp /\ sink = <<>>
  BY DEF DInv, LoopInv, Live, PlantTypes, Idle
<1>2. \A op, c : ~Has(sink, op, c)
  <2>1. Elems(<<>>) = {}
    BY ZenonT(30), ElemsShort
  <2> QED
    BY ZenonT(30), <1>1, <2>1 DEF Has
<1>3. \A c \in Comp : c \in released <=> c \notin held
  BY ZenonT(30), <1>1, <1>2 DEF DInv, ResetsInv, Settled, Cuts
<1> QED
  BY <1>1, <1>3

\* Between runs whoever the reducer waits for owes it an answer.
LEMMA DInvStranded == DInv => NeverStranded
<1> SUFFICES ASSUME DInv, Idle
             PROVE  /\ state \in Walking /\ cursor \in Comp => Verify(cursor) \in due
                    /\ state = "Recovering" => Recover(subject) \in due
                    /\ state = "Updating" => Authenticate \in due
  BY DEF NeverStranded
<1>1. CASE state = "Locked"
  BY ZenonT(30), <1>1 DEF Walking
<1>2. CASE state # "Locked"
  <2>1. Live /\ sink = <<>> /\ pending = <<>>
    BY <1>2 DEF DInv, LoopInv, Live, Idle
  <2>2. Elems(<<>>) = {} /\ \A e : ~Queued(pending, e)
    BY ZenonT(30), <2>1, ElemsShort, QueuedOnly
  <2>3. \A op, c : ~Has(sink, op, c)
    BY ZenonT(30), <2>1, <2>2 DEF Has
  <2> QED
    BY ZenonT(30), <2>1, <2>2, <2>3 DEF DInv, Awaited
<1> QED
  BY ZenonT(30), <1>1, <1>2

\* No attempt number reaches the cap.
LEMMA DInvAttempts == DInv => AttemptsBounded
<1> SUFFICES ASSUME DInv, NEW i \in DOMAIN sink, sink[i].op = "RecoverComponent"
             PROVE  sink[i].attempt < MaxRetry \/ sink[i].attempt = 0
  BY DEF AttemptsBounded
<1>1. sink \in Seq(Effect) /\ sink # <<>>
  BY DEF DInv, BatchInv
<1>2. sink[i] \in Elems(sink)
  <2>1. \A S : \A q \in Seq(S) : DOMAIN q = 1..Len(q)
    OBVIOUS
  <2>2. i \in 1..Len(sink)
    BY <1>1, <2>1, ZenonT(30)
  <2> QED
    BY <2>2, ZenonT(30) DEF Elems
<1>3. Live
  <2>1. CASE sink = Latched
    <3>1. Elems(Latched) = {Fx("LatchLockdown", None)}
      BY ElemsShort, ZenonT(30) DEF Latched
    <3>2. sink[i].op = "LatchLockdown"
      BY ZenonT(30), <1>2, <2>1, <3>1, FxIs
    <3> QED
      BY <3>2
  <2> QED
    BY ZenonT(30), <1>1, <2>1 DEF DInv, BatchInv, LoopInv, Live
<1> QED
  BY ZenonT(30), <1>2, <1>3 DEF DInv, Attempts, Below

\* ResetsAgree: between runs exactly the components that the reducer takes
\* for live are out of reset, for every chain and every answering platform.
THEOREM ResetsAlwaysAgree == DispatchSpec => []ResetsAgree
BY DispatchInvariance, DInvResets, PTL

\* NeverStranded: between runs an answer is owed by whoever is waited for.
THEOREM NeverStrandedAlways == DispatchSpec => []NeverStranded
BY DispatchInvariance, DInvStranded, PTL

\* AttemptsBounded: no restore is asked of a source past the last one.
THEOREM AttemptsAlwaysBounded == DispatchSpec => []AttemptsBounded
BY DispatchInvariance, DInvAttempts, PTL

\* A ReleaseReset enters the batch by the verdict on its component.
LEMMA ReleasedOnVerdict ==
    ASSUME DInv, Settle, NEW e, e \in Elems(sink'), e.op = "ReleaseReset"
    PROVE  Head(pending) = About("VerificationPassed", e.id)
<1> DEFINE ev == Head(pending)
<1>1. pending # <<>> /\ Step(ev)
  BY DEF Settle, SettleFront
<1>2. IInv /\ pending \in Seq(Event)
  BY DEF DInv, LoopInv, LoopTypeOK
<1>3. ev \in Event
  BY <1>1, <1>2
<1> HIDE DEF ev
<1>4. CASE state = "Locked"
  <2>1. sink' = <<>>
    BY ZenonT(30), <1>1, <1>4, LockedDrops DEF Drop, Report
  <2> QED
    BY ZenonT(30), <2>1, ElemsShort
<1>5. CASE sink' = Latched
  <2>1. Elems(Latched) = {Fx("LatchLockdown", None)}
    BY ElemsShort, ZenonT(30) DEF Latched
  <2>2. e.op = "LatchLockdown"
    BY ZenonT(30), <1>5, <2>1, FxIs
  <2> QED
    BY <2>2
<1>6. CASE Batch(ev)
  <2>1. sink' \in Seq(Effect) /\ Agrees
    BY ZenonT(30), <1>6 DEF Batch, Shapes
  <2>2. e \in Effect
    <3>1. \A q \in Seq(Effect) : Elems(q) \subseteq Effect
      BY DEF Elems
    <3> QED
      BY ZenonT(30), <2>1, <3>1
  <2>3. e.id \in Comp /\ Has(sink', "ReleaseReset", e.id)
    BY ZenonT(30), <2>2, EffectIs DEF Has
  <2>4. state \in Walking /\ e.id = cursor /\ e.id \in released'
    BY ZenonT(30), <2>1, <2>3 DEF Agrees
  <2>5. e.id \notin released
    BY <1>2, <2>3, <2>4, ChainAssumption DEF IInv, WalkPrefix, Comp
  <2>6. ev.type = "VerificationPassed" /\ ev.id = e.id
    BY ZenonT(30), <1>1, <2>4, <2>5, ReleasedByVerdict
  <2> QED
    BY ZenonT(30), <1>3, <2>6, VerdictIs DEF ev
<1> QED
  BY ZenonT(30), <1>1, <1>2, <1>4, <1>5, <1>6, StepOutcome DEF Outcome

\* INV8, VerifyBeforeRelease: a component is released only on a verdict, and
\* only if it was checked since it was last held or restored.
THEOREM VerifiedBeforeReleased == DispatchSpec => VerifyBeforeRelease
<1>1. ASSUME DInv, External, Head(sink).op = "ReleaseReset" PROVE Head(sink).id \in checked
  <2>1. Live /\ Head(sink) \in Effect /\ Head(sink) \in Elems(sink)
    BY ZenonT(30), <1>1, FrontIsLive DEF External, DInv
  <2>2. Has(sink, "ReleaseReset", Head(sink).id) /\ Head(sink).id \in Comp
    BY ZenonT(30), <1>1, <2>1, EffectIs DEF Has
  <2> QED
    BY ZenonT(30), <1>1, <2>1, <2>2 DEF DInv, CheckedInv
<1>2. ASSUME DInv, DispatchNext, sink = <<>>,
             NEW i \in DOMAIN sink', sink'[i].op = "ReleaseReset"
      PROVE  pending # <<>> /\ Head(pending) = About("VerificationPassed", sink'[i].id)
  <2>1. sink' \in Seq(Effect)
    BY ZenonT(30), <1>2, DispatchNextInv DEF DInv, BatchInv
  <2>2. sink'[i] \in Elems(sink')
    <3>1. \A S : \A q \in Seq(S) : DOMAIN q = 1..Len(q)
      OBVIOUS
    <3>2. i \in 1..Len(sink')
      BY <1>2, <2>1, <3>1, ZenonT(30)
    <3> QED
      BY <3>2, ZenonT(30) DEF Elems
  <2>3. Settle
    <3>1. DispatchEvent => sink' = <<>>
      BY ZenonT(30), <1>2 DEF DispatchEvent, Start, vars
    <3>2. ~ExecuteFront
      BY ZenonT(30), <1>2 DEF ExecuteFront, ExecuteEmit, EmitFront, ExecuteSilent, ExecuteOk,
         ExecuteAnswering, ExecuteFailing, ExecuteErr, External
    <3> QED
      BY ZenonT(30), <1>2, <2>2, <3>1, <3>2, ElemsShort DEF DispatchNext
  <2> QED
    BY ZenonT(30), <1>2, <2>2, <2>3, ReleasedOnVerdict DEF Settle, SettleFront
<1>3. DInv /\ [DispatchNext]_dvars =>
        [/\ \A i \in DOMAIN sink' : sink = <<>> /\ sink'[i].op = "ReleaseReset"
              => pending # <<>> /\ Head(pending) = About("VerificationPassed", sink'[i].id)
         /\ External /\ Head(sink).op = "ReleaseReset" /\ Head(sink).id \notin held'
              => Head(sink).id \in checked]_dvars
  BY ZenonT(30), <1>1, <1>2
<1> QED
  BY <1>3, DispatchInvariance, PTL DEF DispatchSpec, VerifyBeforeRelease

\* VerifiedAtRest: a component is verified only while it is held in reset, so
\* that the walk meets nobody who is running.
THEOREM VerifiedOnlyAtRest == DispatchSpec => VerifiedAtRest
<1>1. DInv /\ [DispatchNext]_dvars =>
        [External /\ Head(sink).op = "VerifyFirmware" /\ sink' = Tail(sink)
           => Head(sink).id \in held]_dvars
  BY AtRest DEF External, DInv, ResetsInv
<1> QED
  BY <1>1, DispatchInvariance, PTL DEF DispatchSpec, VerifiedAtRest
====
