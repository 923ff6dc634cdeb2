--------------------------- MODULE PlatformDriver ---------------------------
(***************************************************************************)
(* The PlatformDriver (services/orchestrator/driver/src/driver.rs) under   *)
(* the dispatch loop: the executors it routes effects to, over a board     *)
(* whose reset lines, image sources, verifier and floors may fail at any   *)
(* call, and the polling of boot walks by the run loop.  A walk is any     *)
(* BootWatch: armed, it ends with one verdict; otherwise it says nothing.  *)
(***************************************************************************)
EXTENDS DispatchQueue

CONSTANTS
    Svn,          \* security version numbers
    SelfManaged   \* components with SvnFloorBinding::SelfManaged

ASSUME BoardAssumption == Svn \subseteq Nat \ {0} /\ SelfManaged \subseteq Comp

VARIABLES
    lines,         \* board: components whose reset line is asserted
    walks,         \* board: boot walks armed and undecided
    floors,        \* board: SvnFloor::floor of each component
    staged,        \* PlatformDriver::staged
    watching,      \* PlatformDriver::watching
    verified_svn,  \* PlatformDriver::verified_svn
    judged         \* history: judged since they were last held

board == <<lines, walks, floors>>
driver == <<staged, watching, verified_svn>>
pvars == <<lvars, board, driver, judged>>

----------------------------------------------------------------------------
(* The executors, for the effect at the front of the batch *)

\* stage_firmware
StageFirmware(c) ==
    /\ \/ staged' = c /\ ExecuteOk
       \/ staged' = None /\ ExecuteErr
    /\ UNCHANGED <<board, watching, verified_svn, judged>>

\* verify_firmware: NotStaged and VerifierFault are errors, the rest verdicts.
\* What counts as authentic is the board's wiring; it is assumed to honour the
\* floor, "the lowest SVN the device may still boot", which the driver itself
\* does not compare.
VerifyFirmware(c) ==
    /\ \/ ExecuteErr /\ UNCHANGED <<verified_svn, judged>>
       \/ /\ staged = c
          /\ judged' = judged \cup {c}
          /\ \/ \E svn \in {v \in Svn : v >= floors[c]} :
                  /\ verified_svn' = [verified_svn EXCEPT ![c] = svn]
                  /\ ExecuteReply(About("VerificationPassed", c))
             \/ /\ verified_svn' = [verified_svn EXCEPT ![c] = None]
                /\ ExecuteReply(About("VerificationFailed", c))
    /\ UNCHANGED <<board, staged, watching>>

\* Mutant of CommitSvnFloor: a floor one above the verified image.
CommitSvnFloorPast(c) ==
    /\ ExecuteOk
    /\ floors' = [floors EXCEPT ![c] = IF verified_svn[c] = None THEN @
                                       ELSE verified_svn[c] + 1]
    /\ UNCHANGED <<lines, walks, driver, judged>>

\* commit_svn_floor: `advance` is a no-op at or below the floor, and may fail
\* before or after the new floor is durable.
CommitSvnFloor(c) ==
    LET advanced == [floors EXCEPT ![c] = IF verified_svn[c] > @ THEN verified_svn[c] ELSE @]
    IN  /\ \/ c \in SelfManaged /\ ExecuteOk /\ UNCHANGED floors
           \/ c \notin SelfManaged /\ verified_svn[c] = None /\ ExecuteErr /\ UNCHANGED floors
           \/ /\ c \notin SelfManaged /\ verified_svn[c] # None
              /\ \/ ExecuteOk /\ floors' = advanced
                 \/ ExecuteErr /\ floors' \in {floors, advanced}
        /\ UNCHANGED <<lines, walks, driver, judged>>

\* Mutant of ReleaseReset: the walk is watched but not armed.
ReleaseResetUnarmed(c) ==
    /\ ExecuteOk
    /\ lines' = lines \ {c}
    /\ watching' = watching \cup {c}
    /\ UNCHANGED <<walks, floors, staged, verified_svn, judged>>

\* release_reset: arms the walk only once the line is released.
ReleaseReset(c) ==
    /\ \/ /\ ExecuteOk
          /\ lines' = lines \ {c}
          /\ walks' = walks \cup {c}
          /\ watching' = watching \cup {c}
       \/ /\ ExecuteErr
          /\ lines' \in {lines, lines \ {c}}
          /\ UNCHANGED <<walks, watching>>
    /\ UNCHANGED <<floors, staged, verified_svn, judged>>

\* Mutant of AssertReset: goes on watching the held component.
AssertResetWatching(c) ==
    /\ ExecuteOk
    /\ lines' = lines \cup {c}
    /\ judged' = judged \ {c}
    /\ UNCHANGED <<walks, floors, driver>>

\* assert_reset: stops the watch, and leaves the walk as it is.
AssertReset(c) ==
    /\ \/ /\ ExecuteOk
          /\ lines' = lines \cup {c}
          /\ judged' = judged \ {c}
          /\ watching' = watching \ {c}
       \/ /\ ExecuteErr
          /\ \/ lines' = lines \cup {c} /\ judged' = judged \ {c}
             \/ UNCHANGED <<lines, judged>>
          /\ UNCHANGED watching
    /\ UNCHANGED <<walks, floors, staged, verified_svn>>

Reports ==
    {"ReportIsolated", "ReportRecoveryFailed", "ReportUpdateDeferred",
     "ReportUpdateAborted", "ReportBootFailed"}

\* Effects with no board capability fail closed.
Uncomposed ==
    {"RecoverComponent", "AuthenticateUpdate", "StageUpdate", "ActivateUpdate",
     "DiscardStaged", "SignAttestation", "LatchLockdown"}

\* Platform::execute
Execute ==
    /\ External
    /\ LET e == Head(sink) IN
        \/ e.op = "ReadFirmware" /\ StageFirmware(e.id)
        \/ e.op = "VerifyFirmware" /\ VerifyFirmware(e.id)
        \/ e.op = "ReleaseReset" /\ ReleaseReset(e.id)
        \/ e.op = "AssertReset" /\ AssertReset(e.id)
        \/ e.op = "CommitSvnFloor" /\ CommitSvnFloor(e.id)
        \/ e.op \in Reports /\ ExecuteOk /\ UNCHANGED <<board, driver, judged>>
        \/ e.op \in Uncomposed /\ ExecuteErr /\ UNCHANGED <<board, driver, judged>>

\* poll_boot_walks on a watched walk with a terminal verdict, and the dispatch
\* of its event; a poll that finds every walk waiting changes nothing.
PollBootWalks(c) ==
    /\ c \in watching \cap walks
    /\ watching' = watching \ {c}
    /\ walks' = walks \ {c}
    /\ \/ Start(About(IF Kind[c] = "Active" THEN "ComponentReady" ELSE "Booted", c))
       \/ \E kind \in BootFailureKinds :
            Start([type |-> "BootFailed", id |-> c, kind |-> kind])
    /\ UNCHANGED <<lines, floors, staged, verified_svn, judged>>

\* The run loop dispatches power-on, requests, detections, and the health
\* reports of running components.
Dispatch ==
    /\ \E ev \in [type : {"PowerGood"}, result : PowerOnResults]
                    \cup [type : {"CorruptionDetected"}, id : Ids]
                    \cup [type : {"BootConfirmed"}, id : Comp \ lines]
                    \cup {Plain("AttestationChallenge"), Plain("UpdateRequest")} :
         Start(ev)
    /\ UNCHANGED <<board, driver, judged>>

Loop == (SettleFront \/ EmitFront) /\ UNCHANGED <<board, driver, judged>>

DriverInit ==
    /\ LoopInit
    /\ lines = Comp
    /\ walks = {}
    /\ floors \in [Comp -> Svn]
    /\ staged = None
    /\ watching = {}
    /\ verified_svn = [c \in Comp |-> None]
    /\ judged = {}

DriverNext == Dispatch \/ (\E c \in Comp : PollBootWalks(c)) \/ Loop \/ Execute

\* dispatch is one loop on one thread, and after each one the run loop polls
\* until every walk waits; a walk decides by its deadline.
DriverSpec ==
    /\ DriverInit
    /\ [][DriverNext]_pvars
    /\ WF_pvars(Loop \/ Execute)
    /\ \A c \in Comp : SF_pvars(PollBootWalks(c))

----------------------------------------------------------------------------
(* Properties *)

\* NotStaged cannot happen: whenever VerifyFirmware reaches the driver, the
\* image staged last is that component's.
StagedWhenVerified ==
    sink # <<>> /\ Head(sink).op = "VerifyFirmware" => staged = Head(sink).id

\* Every component out of reset runs an image that was authenticated at or
\* above its floor: a commit never trusts an unverified or rejected image, and
\* never moves the floor past the image that is running.
FloorBelowRunning ==
    \A c \in Comp \ lines : verified_svn[c] # None /\ floors[c] <= verified_svn[c]

\* Every boot signal awaited is delivered, unless the platform locks down.
EveryBootReported ==
    \A c \in Comp : c \in awaiting_boot ~> c \notin awaiting_boot \/ state = "Locked"
====
