------------------------ MODULE OrchestratorDispatch ------------------------
(***************************************************************************)
(* dispatch_with against any platform that keeps the contract stated on    *)
(* the Platform trait.  The platform answers at once, through the value    *)
(* `execute` returns, or later, through a DispatchEvent of its own.        *)
(***************************************************************************)
EXTENDS DispatchQueue

VARIABLES
    held,           \* platform: components held in reset
    checked,        \* platform: verified since they were last held or restored
    update_staged,  \* platform: an update image is staged and not activated
    due             \* platform: answers it owes and has not given

plant == <<held, checked, update_staged, due>>
dvars == <<lvars, plant>>

----------------------------------------------------------------------------
(***************************************************************************)
(* The platform.  An obligation is what one effect starts: a verification, *)
(* a restore, a boot walk, an authentication, a commit watchdog.           *)
(***************************************************************************)
Verify(c) == <<"Verify", c>>
Recover(c) == <<"Recover", c>>
Boot(c) == <<"Boot", c>>
Authenticate == <<"Authenticate", None>>
Commit == <<"Commit", None>>
Obligations ==
    {Authenticate, Commit} \cup ({"Verify", "Recover", "Boot"} \X Comp)

\* The events that answer an obligation, one of which the platform delivers.
Answers(o) ==
    LET c == o[2] IN
    CASE o[1] = "Verify"  -> {About("VerificationPassed", c), About("VerificationFailed", c)}
      [] o[1] = "Recover" -> {About("Restored", c), About("RecoveryUnavailable", c)}
      [] o[1] = "Boot"    ->
            {About(IF Kind[c] = "Active" THEN "ComponentReady" ELSE "Booted", c),
             About("Timeout", c)}
              \cup [type : {"BootFailed"}, id : {c}, kind : BootFailureKinds]
      [] o = Authenticate -> {Plain("UpdateVerified"), Plain("UpdateRejected")}
      [] o = Commit       -> {Plain("CommitTimeout")}

\* What nobody asked for: power-on, requests, and runtime detection.
Unsolicited ==
    [type : {"PowerGood"}, result : PowerOnResults]
        \cup [type : {"CorruptionDetected"}, id : Ids]
        \cup {Plain("AttestationChallenge"), Plain("UpdateRequest")}

\* What executing effect e does to the platform, its answer apart.  A reset
\* holds until the release, and a component is held while it is restored.
Actuate(e) ==
    /\ held' = CASE e.op \in {"AssertReset", "RecoverComponent"} -> held \cup {e.id}
                 [] e.op = "ReleaseReset" -> held \ {e.id}
                 [] OTHER -> held
    /\ checked' = CASE e.op = "VerifyFirmware" -> checked \cup {e.id}
                    [] e.op \in {"AssertReset", "RecoverComponent"} -> checked \ {e.id}
                    [] OTHER -> checked
    /\ update_staged' = CASE e.op = "StageUpdate" -> TRUE
                          [] e.op \in {"ActivateUpdate", "DiscardStaged"} -> FALSE
                          [] OTHER -> update_staged

\* The answers owed once e has been executed.
Owed(e) ==
    CASE e.op = "VerifyFirmware"     -> due \cup {Verify(e.id)}
      [] e.op = "RecoverComponent"   -> due \cup {Recover(e.id)}
      [] e.op = "ReleaseReset"       -> due \cup {Boot(e.id)}
      [] e.op = "AssertReset"        -> due \ {Boot(e.id)}
      [] e.op = "AuthenticateUpdate" -> due \cup {Authenticate}
      [] e.op = "ActivateUpdate"     -> due \cup {Commit}
      [] e.op = "CommitSvnFloor"     -> due \ {Commit}
      [] OTHER                       -> due

\* The obligations whose answer an executor may return in-process.
Immediate(e) ==
    CASE e.op = "VerifyFirmware"     -> {Verify(e.id)}
      [] e.op = "RecoverComponent"   -> {Recover(e.id)}
      [] e.op = "AuthenticateUpdate" -> {Authenticate}
      [] OTHER                       -> {}

----------------------------------------------------------------------------
(* dispatch_with *)

\* A run starts with one outside event: an answer that was owed, the health
\* report of a running component, or something unsolicited.
DispatchEvent ==
    /\ \/ \E o \in due : \E ev \in Answers(o) : Start(ev) /\ due' = due \ {o}
       \/ \E c \in Comp \ held : Start(About("BootConfirmed", c)) /\ UNCHANGED due
       \/ \E ev \in Unsolicited : Start(ev) /\ UNCHANGED due
    /\ UNCHANGED <<held, checked, update_staged>>

Settle == SettleFront /\ UNCHANGED plant

ExecuteEmit == EmitFront /\ UNCHANGED plant

\* `execute` returns Ok(None): the answer, if any, comes later.
ExecuteSilent ==
    /\ ExecuteOk
    /\ Actuate(Head(sink))
    /\ due' = Owed(Head(sink))

\* `execute` returns Ok(Some(event)): the answer itself.
ExecuteAnswering ==
    /\ External
    /\ \E o \in Immediate(Head(sink)) : \E ev \in Answers(o) :
         /\ ExecuteReply(ev)
         /\ due' = Owed(Head(sink)) \ {o}
    /\ Actuate(Head(sink))

\* `execute` returns Err: it may have failed before or after the fact, and
\* owes nothing.
ExecuteFailing ==
    /\ ExecuteErr
    /\ Actuate(Head(sink)) \/ UNCHANGED <<held, checked, update_staged>>
    /\ UNCHANGED due

ExecuteFront == ExecuteEmit \/ ExecuteSilent \/ ExecuteAnswering \/ ExecuteFailing

DispatchInit ==
    /\ LoopInit
    /\ held = Comp
    /\ checked = {}
    /\ update_staged = FALSE
    /\ due = {}

DispatchNext == DispatchEvent \/ Settle \/ ExecuteFront

\* dispatch_with is one loop on one thread: once entered it keeps going.
DispatchSpec ==
    /\ DispatchInit
    /\ [][DispatchNext]_dvars
    /\ WF_dvars(Settle \/ ExecuteFront)

----------------------------------------------------------------------------
(* Properties *)

\* INV8: a component is released only on a verdict: its ReleaseReset enters a
\* batch only when a VerificationPassed about it is settled, and comes to be
\* executed only if VerifyFirmware ran on it since it was last held or
\* restored, whatever events arrived in between.
VerifyBeforeRelease ==
    [][/\ \A i \in DOMAIN sink' : sink = <<>> /\ sink'[i].op = "ReleaseReset"
            => pending # <<>> /\ Head(pending) = About("VerificationPassed", sink'[i].id)
       /\ External /\ Head(sink).op = "ReleaseReset" /\ Head(sink).id \notin held'
            => Head(sink).id \in checked]_dvars

\* "Recovery is a re-boot": a component is verified only while it is held, so
\* that quiesce_all comes before the walk and misses nobody who is running.
VerifiedAtRest ==
    [][External /\ Head(sink).op = "VerifyFirmware" /\ sink' = Tail(sink)
         => Head(sink).id \in held]_dvars

\* Between runs, what the reducer believes of the resets is what the platform
\* did: exactly the components it takes for live are out of reset.
ResetsAgree == Idle /\ state # "Locked" => held = Comp \ released

\* Between runs, whoever the reducer waits for owes it an answer: a verdict on
\* the component under the cursor, a restore, an authentication.  A lost or
\* misrouted answer would leave the machine waiting for nobody.
NeverStranded ==
    Idle =>
        /\ state \in Walking /\ cursor \in Comp => Verify(cursor) \in due
        /\ state = "Recovering" => Recover(subject) \in due
        /\ state = "Updating" => Authenticate \in due

\* The attempt number handed to the recovery source stays below the cap, so
\* no source past the last configured one is asked for.
AttemptsBounded ==
    \A i \in DOMAIN sink :
        sink[i].op = "RecoverComponent" => sink[i].attempt < MaxRetry \/ sink[i].attempt = 0

\* Every run quiesces: in-process verdicts and restores feed new events into
\* the queue, and the retry cap is what ends the exchange.
Quiesces == pending # <<>> ~> Idle
====
