----------------------------- MODULE GuestReceive -----------------------------
(***************************************************************************)
(* A Guest receives a project: the Launcher's window (MainWindow), the     *)
(* bridge it talks to (guest-orchestrator-cli.mjs), the run of the         *)
(* orchestrator with its attempts, pauses and trust challenges             *)
(* (guest-orchestrator.mjs), and the handoff file by which a Unity process *)
(* joins the session (UnityLaunchPolicy.cs, TeamForgeGuestHandoff.cs).     *)
(***************************************************************************)
EXTENDS Naturals, Sequences

CONSTANTS
    Publisher,      \* who published each baseline; the baselines are 1, 2, ..
    Nobody,
    MaxRuns,        \* bounds on: receives started,
    MaxPauses,      \*   pauses asked for,
    MaxFaults       \*   failing calls and deaths of the bridge

Baselines == DOMAIN Publisher
Publishers == {Publisher[b] : b \in Baselines}

ASSUME GuestAssumption ==
    /\ Publisher \in Seq(Publishers) /\ Publisher # << >>
    /\ Nobody \notin Publishers
    /\ {MaxRuns, MaxPauses, MaxFaults} \subseteq Nat

VARIABLES
    ui, cancelling, ready, opening,             \* the Launcher
    bridge, inbox, answer,                      \* the bridge
    op,                                         \* the orchestrator's run
    offered,                                    \* the Coordinator's baseline
    current, pin, files,                        \* the Guest's disk
    launched, joined,                           \* Unity processes
    asked, challenges, vetted, installed,       \* (history)
    reported, cancelled,                        \* (history)
    runs, pauses, faults                        \* bounds

launcherVars == <<ui, cancelling, ready, opening>>
bridgeVars == <<bridge, inbox, answer>>
diskVars == <<current, pin, files>>
unityVars == <<launched, joined>>
trustVars == <<asked, challenges, vetted>>
runVars == <<installed, reported, cancelled>>
boundVars == <<runs, pauses, faults>>
vars == <<launcherVars, bridgeVars, op, offered, diskVars, unityVars, trustVars,
          runVars, boundVars>>

\* Handoff files: the orchestrator's, the Launcher's replacement of one, and one
\* left behind by a removal that failed or a bridge that died: its name is lost.
Files == [run : 1..MaxRuns, base : Baselines, kind : {"guest", "launch", "stray"}]
NoFile == [run |-> 0, base |-> 0, kind |-> "guest"]
GuestFile == [run |-> op.run, base |-> op.base, kind |-> "guest"]
Stray(fs) == {[f EXCEPT !.kind = "stray"] : f \in fs}

NoTrust == [id |-> 0, settled |-> "none"]
NoOp == [run |-> 0, pc |-> "none", then |-> "none", base |-> 0, already |-> FALSE,
         seen |-> Nobody, approved |-> FALSE, trust |-> NoTrust,
         cancelled |-> FALSE, pause |-> "no"]
NoAnswer == [result |-> "none", file |-> NoFile]
Commands == {"start", "pause", "resume", "cancel", "shutdown"}
Frame(type) == [type |-> type, id |-> 0, approved |-> FALSE]

Fault == faults < MaxFaults /\ faults' = faults + 1
NoFault == UNCHANGED faults

Init ==
  /\ ui = "idle" /\ cancelling = FALSE /\ ready = NoFile /\ opening = "no"
  /\ bridge = "running" /\ inbox = << >> /\ answer = NoAnswer /\ op = NoOp
  /\ offered = 1 /\ current \in {0, 1} /\ files = {}
  /\ pin \in IF current = 0 THEN {Nobody} ELSE {Nobody, Publisher[1]}
  /\ launched = {} /\ joined = {}
  /\ asked = {} /\ challenges = 0 /\ vetted = {pin} \ {Nobody}
  /\ installed = {} /\ reported = {} /\ cancelled = {}
  /\ runs = 0 /\ pauses = 0 /\ faults = 0

-----------------------------------------------------------------------------
(* The run.  A step is what happens between two awaits.                     *)

Interrupted == op.cancelled \/ op.pause # "no"

\* The run ends and the bridge answers the start request.
Answers(result, file) ==
  /\ op' = NoOp
  /\ answer' = IF ui = "closed" THEN NoAnswer ELSE [result |-> result, file |-> file]

Goes(pc) == op' = [op EXCEPT !.pc = pc]

\* What the attempt throws is sorted out once the finally block has closed the
\* client and stopped the Seed of what was received.
Throws == Goes("unwinding")
ThrowsStray == Goes("cleanup_failed")

Continues(pc) == IF Interrupted THEN Throws ELSE Goes(pc)

\* A new attempt has a controller of its own and reads the pin anew.
Attempt == op' = [op EXCEPT !.pc = "pin", !.base = 0, !.already = FALSE, !.seen = Nobody,
                             !.approved = FALSE, !.trust = NoTrust]
AwaitResume(next) == op' = [op EXCEPT !.pc = "paused", !.then = next]

Prepared ==
  /\ op.pc = "prepare"
  /\ \/ Fault /\ Answers("error", NoFile)
     \/ /\ NoFault
        /\ IF op.cancelled THEN Answers("cancelled", NoFile)
           ELSE /\ IF op.pause # "no" THEN AwaitResume("import") ELSE Goes("import")
                /\ UNCHANGED answer
  /\ UNCHANGED <<diskVars, trustVars, runVars>>

\* The loop's top, reached from the import and after every pause.
NextAttempt ==
  IF op.cancelled THEN Answers("cancelled", NoFile)
  ELSE /\ IF op.pause # "no" THEN AwaitResume("attempt") ELSE Attempt
       /\ UNCHANGED answer

Imported ==
  /\ op.pc = "import"
  /\ \/ Fault /\ Answers("error", NoFile)
     \/ NoFault /\ NextAttempt
  /\ UNCHANGED <<diskVars, trustVars, runVars>>

Resumes ==
  /\ op.pc = "paused" /\ (op.cancelled \/ op.pause = "resumed")
  /\ IF op.cancelled THEN Answers("cancelled", NoFile)
     ELSE /\ IF op.then = "import" THEN op' = [op EXCEPT !.pc = "import", !.pause = "no"]
             ELSE op' = [op EXCEPT !.pc = "pin", !.pause = "no", !.base = 0, !.already = FALSE,
                                   !.seen = Nobody, !.approved = FALSE, !.trust = NoTrust]
          /\ UNCHANGED answer
  /\ UNCHANGED <<diskVars, trustVars, runVars, faults>>

PinRead ==
  /\ op.pc = "pin"
  /\ IF Interrupted THEN Throws ELSE op' = [op EXCEPT !.pc = "connect", !.seen = pin]
  /\ UNCHANGED <<answer, diskVars, trustVars, runVars, faults>>

Connected ==
  /\ op.pc = "connect"
  /\ IF Interrupted THEN NoFault /\ Throws
     ELSE \/ Fault /\ Throws
          \/ NoFault /\ op' = [op EXCEPT !.pc = "sync", !.base = offered]
  /\ UNCHANGED <<answer, diskVars, trustVars, runVars>>

\* ensureTrust and requestTrust: a publisher other than the pinned one is shown to
\* the user in a challenge of its own.
Matches == op.seen = Publisher[op.base]
Challenge ==
  /\ challenges' = challenges + 1
  /\ asked' = asked \cup {[id |-> challenges + 1, base |-> op.base]}
  /\ op' = [op EXCEPT !.pc = "trust", !.trust = [id |-> challenges + 1, settled |-> "open"]]
  /\ UNCHANGED vetted

\* syncFromSnapshot up to its decision: the baseline is Active already, or it has
\* been downloaded and its publisher has to be trusted before it is installed.
Synced ==
  /\ op.pc = "sync"
  /\ \/ Fault /\ Throws /\ UNCHANGED trustVars
     \/ /\ NoFault
        /\ IF Interrupted THEN Throws /\ UNCHANGED trustVars
           ELSE IF current = op.base
             THEN op' = [op EXCEPT !.pc = "validate", !.already = TRUE] /\ UNCHANGED trustVars
           ELSE IF Matches THEN Goes("install") /\ UNCHANGED trustVars ELSE Challenge
  /\ UNCHANGED <<answer, diskVars, runVars>>

\* A decision comes back; a pause or a cancel accepted meanwhile overrules it.
Decided ==
  /\ op.pc = "trust" /\ op.trust.settled # "open"
  /\ IF Interrupted \/ op.trust.settled # "yes" THEN Throws
     ELSE op' = [op EXCEPT !.pc = IF op.already THEN "pinning" ELSE "install",
                           !.approved = TRUE, !.trust = NoTrust]
  /\ UNCHANGED <<answer, diskVars, trustVars, runVars, faults>>

\* The activation looks at the signal now and then: an interrupted one may still
\* have switched the current pointer.
Installed ==
  /\ op.pc = "install"
  /\ \/ /\ (Interrupted /\ NoFault) \/ (~Interrupted /\ Fault)
        /\ Throws /\ UNCHANGED <<current, installed>>
     \/ /\ NoFault /\ Continues("validate")
        /\ current' = op.base /\ installed' = installed \cup {op.base}
  /\ UNCHANGED <<answer, pin, files, trustVars, reported, cancelled>>

Validated ==
  /\ op.pc = "validate"
  /\ \/ Fault /\ Throws /\ UNCHANGED trustVars
     \/ /\ NoFault
        /\ IF Interrupted THEN Throws /\ UNCHANGED trustVars
           ELSE IF op.already /\ ~Matches THEN Challenge
           ELSE Goes(IF op.approved THEN "pinning" ELSE "handoff") /\ UNCHANGED trustVars
  /\ UNCHANGED <<answer, diskVars, runVars>>

\* writeGuestTrustPin, awaited; asserted on before it and after it.
Pinned ==
  /\ op.pc = "pinning"
  /\ \/ Fault /\ Throws /\ UNCHANGED pin
     \/ NoFault /\ pin' = Publisher[op.base] /\ Continues("handoff")
  /\ UNCHANGED <<answer, current, files, trustVars, runVars>>

\* writeGuestHandoff.  It can fail before the link that creates the file, and also
\* after it, when its temporary file cannot be removed.
HandedOff ==
  /\ op.pc = "handoff"
  /\ \/ Fault /\ Throws /\ files' \in {files, files \cup Stray({GuestFile})}
     \/ /\ NoFault /\ files' = files \cup {GuestFile}
        /\ Goes(IF Interrupted THEN "remove" ELSE "closing")
  /\ UNCHANGED <<answer, current, pin, trustVars, runVars>>

\* removeInterruptedGuestHandoff
Removed ==
  /\ op.pc = "remove"
  /\ \/ NoFault /\ files' = files \ {GuestFile} /\ Throws
     \/ Fault /\ files' = (files \ {GuestFile}) \cup Stray({GuestFile}) /\ ThrowsStray
  /\ UNCHANGED <<answer, current, pin, trustVars, runVars>>

\* The attempt returned: an interruption accepted while it was closing still
\* takes its handoff back.

(* (mutant) an interruption during the Seed's shutdown goes unnoticed *)
Completes_Unchecked ==
  /\ op.pc = "closing"
  /\ Answers("complete", GuestFile) /\ reported' = reported \cup {op.run}
  /\ UNCHANGED <<diskVars, trustVars, installed, cancelled, faults>>

Completes ==
  /\ op.pc = "closing"
  /\ IF Interrupted THEN Goes("remove") /\ UNCHANGED <<answer, reported>>
     ELSE /\ Answers("complete", GuestFile)
          /\ reported' = reported \cup {op.run}
  /\ UNCHANGED <<diskVars, trustVars, installed, cancelled, faults>>

Unwinds ==
  /\ op.pc \in {"unwinding", "cleanup_failed"}
  /\ IF op.pc = "unwinding" /\ op.pause # "no" /\ ~op.cancelled
       THEN AwaitResume("attempt") /\ UNCHANGED answer
     ELSE Answers(IF op.pc = "cleanup_failed" THEN op.pc
                  ELSE IF op.cancelled THEN "cancelled" ELSE "error", NoFile)
  /\ UNCHANGED <<diskVars, trustVars, runVars, faults>>

RunStep ==
  /\ bridge = "running"
  /\ \/ Prepared \/ Imported \/ Resumes \/ PinRead \/ Connected \/ Synced \/ Decided
     \/ Installed \/ Validated \/ Pinned \/ HandedOff \/ Removed \/ Completes \/ Unwinds
  /\ UNCHANGED <<launcherVars, bridge, inbox, offered, unityVars, runs, pauses>>

-----------------------------------------------------------------------------
(* The bridge handles frames in their order, without waiting for the run.   *)

Active == op.pc # "none"

(* (mutant) an interruption leaves the pending trust promise alone *)
Reject_Nothing(run) == run

Reject(run) == [run EXCEPT !.trust.settled = IF @ = "open" THEN "rejected" ELSE @]

Start ==
  IF Active THEN UNCHANGED op
  ELSE op' = [NoOp EXCEPT !.run = runs, !.pc = "prepare"]

\* A decision counts only for the challenge that is open now.

(* (mutant) any answer settles the open challenge *)
TrustAccepted_Any(frame) == Active /\ ~Interrupted /\ op.trust.settled = "open"

TrustAccepted(frame) ==
  /\ Active /\ ~Interrupted
  /\ op.trust.settled = "open" /\ op.trust.id = frame.id

Trust(frame) ==
  IF TrustAccepted(frame)
    THEN op' = [op EXCEPT !.trust.settled = IF frame.approved THEN "yes" ELSE "no"]
    ELSE UNCHANGED op

Pause ==
  IF Active /\ ~op.cancelled /\ op.pause = "no"
    THEN op' = Reject([op EXCEPT !.pause = "asked"])
    ELSE UNCHANGED op

Resume ==
  IF Active /\ ~op.cancelled /\ op.pause = "asked"
    THEN op' = [op EXCEPT !.pause = "resumed"]
    ELSE UNCHANGED op

Cancel ==
  IF Active
    THEN /\ op' = Reject([op EXCEPT !.cancelled = TRUE])
         /\ cancelled' = cancelled \cup {op.run}
    ELSE UNCHANGED <<op, cancelled>>

Handle ==
  /\ bridge = "running" /\ inbox # << >>
  /\ inbox' = Tail(inbox)
  /\ LET frame == Head(inbox) IN
       CASE frame.type = "start" -> Start /\ UNCHANGED cancelled
         [] frame.type = "trust" -> Trust(frame) /\ UNCHANGED cancelled
         [] frame.type = "pause" -> Pause /\ UNCHANGED cancelled
         [] frame.type = "resume" -> Resume /\ UNCHANGED cancelled
         [] OTHER -> Cancel
  /\ UNCHANGED <<launcherVars, bridge, answer, offered, diskVars, unityVars, trustVars,
                 installed, reported, boundVars>>

\* The bridge process dies, or is killed two seconds after the Launcher closed.
BridgeDies ==
  /\ bridge = "running" /\ Fault
  /\ bridge' = "dead" /\ inbox' = << >>
  /\ op' = NoOp
  /\ LET mine == files \cap {GuestFile} IN files' = (files \ mine) \cup Stray(mine)
  /\ answer' = IF ui = "receiving" THEN [NoAnswer EXCEPT !.result = "error"] ELSE NoAnswer
  /\ asked' = {}
  /\ UNCHANGED <<launcherVars, offered, current, pin, unityVars, challenges, vetted, runVars,
                 runs, pauses>>

-----------------------------------------------------------------------------
(* The Launcher.                                                            *)

Sends(frame) == inbox' = Append(inbox, frame)
Waiting(types) == \E i \in 1..Len(inbox) : inbox[i].type \in types

\* InvalidateReadyProject: the window forgets the handoff; the file stays.
Forgets == ready' = NoFile

Receive ==
  /\ ui = "idle" /\ opening = "no" /\ bridge = "running" /\ runs < MaxRuns
  /\ ui' = "inspecting" /\ Forgets
  /\ runs' = runs + 1
  /\ UNCHANGED <<cancelling, opening, bridgeVars, op, offered, diskVars, unityVars, trustVars,
                 runVars, pauses, faults>>

\* A receive cancelled while the invite is inspected is never started.
InspectionReturns ==
  /\ ui = "inspecting"
  /\ \/ ~cancelling /\ bridge = "running" /\ ui' = "receiving" /\ Sends(Frame("start"))
     \/ (cancelling \/ bridge # "running") /\ ui' = "idle" /\ UNCHANGED inbox
  /\ cancelling' = FALSE
  /\ UNCHANGED <<ready, opening, bridge, answer, op, offered, diskVars,
                 unityVars, trustVars, runVars, boundVars>>

Receiving == ui \in {"inspecting", "receiving", "validating"}

\* One pause or resume and one cancel at a time.
PauseClick ==
  /\ Receiving /\ ~cancelling /\ bridge = "running" /\ ~Waiting({"pause", "resume"})
  /\ \/ pauses < MaxPauses /\ pauses' = pauses + 1 /\ Sends(Frame("pause"))
     \/ UNCHANGED pauses /\ op.pause # "no" /\ Sends(Frame("resume"))
  /\ UNCHANGED <<launcherVars, bridge, answer, op, offered, diskVars, unityVars, trustVars,
                 runVars, runs, faults>>

CancelClick ==
  /\ Receiving /\ ~cancelling /\ bridge = "running"
  /\ cancelling' = TRUE /\ Sends(Frame("cancel"))
  /\ UNCHANGED <<ui, ready, opening, bridge, answer, op, offered, diskVars, unityVars,
                 trustVars, runVars, boundVars>>

\* The user answers a challenge that was shown, however late.
AnswerChallenge ==
  /\ bridge = "running" /\ ui # "closed"
  /\ \E c \in asked, approved \in BOOLEAN :
       /\ asked' = asked \ {c}
       /\ vetted' = IF approved THEN vetted \cup {Publisher[c.base]} ELSE vetted
       /\ Sends([type |-> "trust", id |-> c.id, approved |-> approved])
  /\ UNCHANGED <<launcherVars, bridge, answer, op, offered, diskVars, unityVars, challenges,
                 runVars, boundVars>>

Answered ==
  /\ ui = "receiving" /\ answer # NoAnswer
  /\ IF answer.result = "complete"
       THEN ui' = "validating" /\ ready' = answer.file /\ UNCHANGED cancelling
       ELSE ui' = "idle" /\ cancelling' = FALSE /\ UNCHANGED ready
  /\ answer' = NoAnswer
  /\ UNCHANGED <<opening, bridge, inbox, op, offered, diskVars, unityVars,
                 trustVars, runVars, boundVars>>

\* CompleteReceiveAsync: the received project is checked again on disk; it opens
\* by itself unless Cancel was clicked.
ValidatedActive ==
  /\ ui = "validating" /\ ui' = "idle" /\ cancelling' = FALSE
  /\ \/ Fault /\ Forgets /\ UNCHANGED opening
     \/ /\ NoFault /\ ready \in files /\ UNCHANGED ready
        /\ opening' = IF cancelling THEN "no" ELSE "check"
  /\ UNCHANGED <<bridgeVars, op, offered, diskVars, unityVars, trustVars,
                 runVars, runs, pauses>>

OpenClick ==
  /\ ui = "idle" /\ opening = "no" /\ ready # NoFile
  /\ opening' = "check"
  /\ UNCHANGED <<ui, cancelling, ready, bridgeVars, op, offered, diskVars, unityVars,
                 trustVars, runVars, boundVars>>

\* TryOpenUnityAsync up to RefreshHandoff, which replaces the handoff by a fresh
\* one.  Without the right editor the handoff is kept for another try.
Fresh == [ready EXCEPT !.kind = "launch"]
RefreshHandoff ==
  /\ opening = "check"
  /\ \/ NoFault /\ opening' = "no" /\ UNCHANGED <<ready, files>>
     \/ Fault /\ opening' = "no" /\ Forgets /\ UNCHANGED files
     \/ /\ NoFault /\ ui # "closed" /\ ready \in files
        /\ files' = (files \ {ready}) \cup {Fresh}
        /\ opening' = "prepared" /\ UNCHANGED ready
  /\ UNCHANGED <<ui, cancelling, bridgeVars, op, offered, current, pin, unityVars, trustVars,
                 runVars, runs, pauses>>

OpenUnity ==
  /\ opening = "prepared" /\ opening' = "no" /\ Forgets
  /\ \/ /\ NoFault /\ ui # "closed"
        /\ launched' = launched \cup {Fresh} /\ UNCHANGED files
     \/ /\ (ui = "closed" /\ NoFault) \/ Fault
        /\ files' = files \ {Fresh} /\ UNCHANGED launched
     \/ /\ Fault
        /\ files' = (files \ {Fresh}) \cup Stray({Fresh}) /\ UNCHANGED launched
  /\ UNCHANGED <<ui, cancelling, bridgeVars, op, offered, current, pin, joined, trustVars,
                 runVars, runs, pauses>>

\* Closing the window shuts the bridge down, which cancels the run.
CloseLauncher ==
  /\ ui # "closed" /\ ui' = "closed"
  /\ inbox' = IF bridge = "running" THEN Append(inbox, Frame("shutdown")) ELSE inbox
  /\ cancelling' = FALSE /\ answer' = NoAnswer /\ asked' = {}
  /\ ready' = IF opening = "no" THEN NoFile ELSE ready
  /\ UNCHANGED <<opening, bridge, op, offered, diskVars, unityVars, challenges, vetted,
                 runVars, boundVars>>

-----------------------------------------------------------------------------
(* Unity and the Host.                                                      *)

\* TryReadAndConsume deletes the file before anything is read from it; the project
\* that was opened then has to be the one it names, within the time limit.
UnityJoins ==
  /\ \E f \in launched :
       /\ launched' = launched \ {f}
       /\ files' = files \ {f}
       /\ joined' \in {joined, IF f \in files THEN joined \cup {f} ELSE joined}
  /\ UNCHANGED <<launcherVars, bridgeVars, op, offered, current, pin, trustVars, runVars,
                 boundVars>>

HostPublishes ==
  /\ offered + 1 \in Baselines /\ offered' = offered + 1
  /\ UNCHANGED <<launcherVars, bridgeVars, op, diskVars, unityVars, trustVars, runVars,
                 boundVars>>

Next ==
  \/ RunStep \/ Handle \/ BridgeDies
  \/ Receive \/ InspectionReturns \/ PauseClick \/ CancelClick \/ AnswerChallenge
  \/ Answered \/ ValidatedActive \/ OpenClick \/ RefreshHandoff \/ OpenUnity \/ CloseLauncher
  \/ UnityJoins \/ HostPublishes

\* The bridge's event loop reads its input and runs its continuations.
Spec == Init /\ [][Next]_vars /\ WF_vars(RunStep) /\ WF_vars(Handle)

-----------------------------------------------------------------------------
(* Properties.                                                              *)

\* A handoff whose name somebody has belongs to a receive that is under way or was
\* reported complete.  A paused receive has none (its next attempt writes another),
\* Unity is given one of a completed receive only, and a receive whose
\* cancellation was accepted is never reported complete.
OnlySuccessHandsOff ==
  /\ \A f \in files : f.kind # "stray" => f.run \in {op.run} \cup reported
  /\ op.pc = "paused" => \A f \in files : f.kind = "guest" => f.run # op.run
  /\ \A f \in launched \cup joined : f.run \in reported
  /\ reported \cap cancelled = {}

\* Whatever is installed, pinned, handed off or joined comes from a publisher
\* that was pinned already or that the user said yes to when that publisher was
\* shown: no answer reaches a challenge other than its own.
TrustWasAnswered ==
  /\ {pin} \ {Nobody} \subseteq vetted
  /\ {Publisher[b] : b \in installed} \subseteq vetted
  /\ {Publisher[f.base] : f \in files \cup launched \cup joined} \subseteq vetted

=============================================================================
