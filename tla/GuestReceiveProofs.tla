-------------------------- MODULE GuestReceiveProofs --------------------------
(***************************************************************************)
(* The two safety properties of GuestReceive, for any sequence of          *)
(* baselines and publishers, any number of receives, pauses and failures.  *)
(***************************************************************************)
EXTENDS GuestReceive, TLAPS

-----------------------------------------------------------------------------
(* The inductive invariant.                                                 *)

Stages == {"none", "prepare", "import", "paused", "pin", "connect", "sync", "trust", "install",
           "validate", "pinning", "handoff", "remove", "closing", "unwinding", "cleanup_failed"}
Runs == [run : Nat, pc : Stages, then : {"none", "import", "attempt"},
         base : Baselines \cup {0}, already : BOOLEAN, seen : Publishers \cup {Nobody},
         approved : BOOLEAN,
         trust : [id : Nat, settled : {"none", "open", "yes", "no", "rejected"}],
         cancelled : BOOLEAN, pause : {"no", "asked", "resumed"}]
Handoffs == [run : Nat, base : Baselines, kind : {"guest", "launch", "stray"}]
Frames == [type : Commands \cup {"trust"}, id : Nat, approved : BOOLEAN]

Types ==
  /\ op \in Runs /\ inbox \in Seq(Frames)
  /\ files \subseteq Handoffs /\ launched \subseteq Handoffs /\ joined \subseteq Handoffs
  /\ asked \subseteq [id : Nat \ {0}, base : Baselines]
  /\ offered \in Baselines /\ pin \in Publishers \cup {Nobody}
  /\ installed \subseteq Baselines /\ vetted \subseteq Publishers
  /\ challenges \in Nat /\ runs \in Nat
  /\ ready \in Handoffs \cup {NoFile}
  /\ ui \in {"idle", "inspecting", "receiving", "validating", "closed"}

\* One receive at a time: its start request is under way, or it runs, or its answer
\* is; the Launcher waits for it meanwhile, and opens Unity only in between.
Starting(i) == i \in 1..Len(inbox) /\ inbox[i].type = "start"
Turns ==
  /\ Active => ui \in {"receiving", "closed"} /\ answer = NoAnswer
  /\ \A i \in Nat : Starting(i) =>
       ui \in {"receiving", "closed"} /\ answer = NoAnswer /\ ~Active
  /\ \A i, j \in Nat : Starting(i) /\ Starting(j) => i = j
  /\ answer # NoAnswer => ui = "receiving"
  /\ opening # "no" => ui \in {"idle", "closed"} /\ ready # NoFile

\* The number of a receive is its own.
Numbers ==
  /\ \A r \in reported \cup cancelled : r \in Nat /\ r <= runs
  /\ Active => op.run = runs /\ runs \notin reported
  /\ Active /\ ~op.cancelled => runs \notin cancelled
  /\ ~Active => op = NoOp
  /\ ui = "inspecting" => runs \notin reported \cup cancelled
  /\ \A i \in Nat : Starting(i) => runs \notin reported \cup cancelled
  /\ reported \cap cancelled = {}

\* A handoff that somebody can still name is the one the run is about to report or
\* to remove, or one of a receive that was reported.
Delivered(f) ==
  f \in Handoffs /\ f.kind = "guest" /\ f.run \in reported /\ Publisher[f.base] \in vetted
Deliveries ==
  /\ \A f \in files :
       /\ f.kind = "guest" =>
            \/ f.run \in reported
            \/ f.run = op.run /\ f.base = op.base /\ op.pc \in {"remove", "closing"}
       /\ f.kind = "launch" => f.run \in reported
  /\ \A f \in launched \cup joined : f.run \in reported
  /\ ready # NoFile => Delivered(ready)
  /\ answer.result = "complete" => Delivered(answer.file)

\* Where the publisher of the run's baseline has been agreed to.
Agreed == Publisher[op.base] \in vetted
Agreements ==
  /\ op.pc \in {"sync", "trust", "install", "validate", "pinning", "handoff", "remove", "closing"}
       => op.base \in Baselines
  /\ op.pc \in {"pin", "connect", "sync"} => ~op.approved /\ ~op.already /\ op.trust = NoTrust
  /\ op.pc \in {"install", "pinning", "handoff", "remove", "closing"} => Agreed
  /\ op.pc = "validate" /\ (op.approved \/ ~op.already) => Agreed
  /\ op.seen \in vetted \cup {Nobody}
  /\ op.trust.settled = "yes" => op.base \in Baselines /\ Agreed
  /\ TrustWasAnswered

\* An answer says yes to the baseline of the challenge whose number it carries.
Challenges ==
  /\ op.trust.id <= challenges
  /\ op.trust.id # 0 => op.base \in Baselines
  /\ \A c \in asked : c.id <= challenges /\ (c.id = op.trust.id => c.base = op.base)
  /\ \A i \in 1..Len(inbox) : inbox[i].type = "trust" =>
       /\ inbox[i].id # 0 /\ inbox[i].id <= challenges
       /\ inbox[i].approved /\ inbox[i].id = op.trust.id => Agreed

IInv == Types /\ Turns /\ Numbers /\ Deliveries /\ Agreements /\ Challenges

-----------------------------------------------------------------------------
(* Lemmas about the data.                                                   *)

\* Every baseline has a number and a publisher.
LEMMA Baselined ==
  /\ Baselines \subseteq Nat \ {0} /\ 1 \in Baselines
  /\ \A b \in Baselines : Publisher[b] \in Publishers
  /\ Nobody \notin Publishers
BY GuestAssumption DEF Baselines, Publishers

\* What is left of a queue when its first frame is taken ...
LEMMA FrameTaken ==
  ASSUME NEW q \in Seq(Frames), q # << >>
  PROVE  /\ Tail(q) \in Seq(Frames) /\ Head(q) \in Frames
         /\ 1 \in 1..Len(q) /\ Head(q) = q[1]
         /\ \A i \in 1..Len(Tail(q)) : i \in Nat /\ i + 1 \in 1..Len(q) /\ Tail(q)[i] = q[i + 1]
OBVIOUS

\* ... and when one is added.
LEMMA FrameAdded ==
  ASSUME NEW q \in Seq(Frames), NEW m \in Frames
  PROVE  /\ Append(q, m) \in Seq(Frames)
         /\ \A i \in 1..Len(Append(q, m)) :
              \/ i \in 1..Len(q) /\ Append(q, m)[i] = q[i]
              \/ i = Len(q) + 1 /\ i \notin 1..Len(q) /\ Append(q, m)[i] = m
OBVIOUS

\* What the bridge makes of the frame it takes.
LEMMA FramesDo ==
  ASSUME Handle
  PROVE  /\ bridge = "running" /\ inbox # << >> /\ inbox' = Tail(inbox)
         /\ UNCHANGED <<launcherVars, answer, offered, diskVars, unityVars, trustVars,
                        installed, reported, runs>>
         /\ \/ UNCHANGED <<op, cancelled>> /\ (Head(inbox).type = "start" => Active)
            \/ /\ Head(inbox).type = "start" /\ ~Active
               /\ op' = [NoOp EXCEPT !.run = runs, !.pc = "prepare"] /\ UNCHANGED cancelled
            \/ /\ Head(inbox).type = "trust" /\ Active /\ UNCHANGED cancelled
               /\ op.trust.settled = "open" /\ op.trust.id = Head(inbox).id
               /\ op' = [op EXCEPT !.trust.settled = IF Head(inbox).approved THEN "yes" ELSE "no"]
            \/ /\ Head(inbox).type # "start" /\ Active /\ UNCHANGED cancelled
               /\ op' = Reject([op EXCEPT !.pause = "asked"])
            \/ /\ Head(inbox).type # "start" /\ Active /\ UNCHANGED cancelled
               /\ op' = [op EXCEPT !.pause = "resumed"]
            \/ /\ Head(inbox).type # "start" /\ Active /\ cancelled' = cancelled \cup {op.run}
               /\ op' = Reject([op EXCEPT !.cancelled = TRUE])
<1>1. /\ bridge = "running" /\ inbox # << >> /\ inbox' = Tail(inbox)
      /\ UNCHANGED <<launcherVars, answer, offered, diskVars, unityVars, trustVars,
                     installed, reported, runs>>
  BY DEF Handle, boundVars
<1>2. CASE Head(inbox).type = "start"
  BY <1>1, <1>2 DEF Handle, Start
<1>3. CASE Head(inbox).type = "trust"
  BY <1>1, <1>3 DEF Handle, Trust, TrustAccepted
<1>4. CASE Head(inbox).type = "pause"
  BY <1>1, <1>4 DEF Handle, Pause
<1>5. CASE Head(inbox).type = "resume"
  BY <1>1, <1>5 DEF Handle, Resume
<1>6. CASE Head(inbox).type \notin {"start", "trust", "pause", "resume"}
  BY <1>1, <1>6 DEF Handle, Cancel
<1> QED
  BY <1>2, <1>3, <1>4, <1>5, <1>6

\* An interruption changes nothing of the run but its own mark and the challenge.
LEMMA Rejected ==
  ASSUME NEW r \in Runs
  PROVE  /\ Reject(r) \in Runs
         /\ Reject(r).trust.settled = "yes" => r.trust.settled = "yes"
         /\ Reject(r).trust.id = r.trust.id
         /\ \A f \in {"run", "pc", "then", "base", "already", "seen", "approved", "cancelled", "pause"} :
              Reject(r)[f] = r[f]
BY DEF Reject, Runs

-----------------------------------------------------------------------------
(* The run keeps the types.                                                 *)

LEMMA NoRun == ASSUME NEW r \in Nat
               PROVE  NoOp \in Runs /\ [NoOp EXCEPT !.run = r, !.pc = "prepare"] \in Runs
BY DEF NoOp, NoTrust, Runs, Stages

LEMMA StageNames ==
  /\ "none" \in Stages /\ "prepare" \in Stages /\ "import" \in Stages
  /\ "paused" \in Stages /\ "pin" \in Stages /\ "connect" \in Stages
  /\ "sync" \in Stages /\ "trust" \in Stages /\ "install" \in Stages
  /\ "validate" \in Stages /\ "pinning" \in Stages /\ "handoff" \in Stages
  /\ "remove" \in Stages /\ "closing" \in Stages /\ "unwinding" \in Stages
  /\ "cleanup_failed" \in Stages
BY DEF Stages

\* Where a step of the run leads, and what it does to the run's record.
Onward(p) ==
  \/ p \in {"unwinding", "cleanup_failed"}
  \/ op.pc = "prepare" /\ p = "import"
  \/ op.pc = "sync" /\ Matches /\ p = "install"
  \/ op.pc = "install" /\ p = "validate"
  \/ op.pc = "validate" /\ op.approved /\ p = "pinning"
  \/ op.pc = "validate" /\ (~op.already \/ Matches) /\ p = "handoff"
  \/ op.pc = "pinning" /\ p = "handoff"
  \/ op.pc \in {"handoff", "closing"} /\ p = "remove"
  \/ op.pc = "handoff" /\ p = "closing"

Learns ==
  \/ op.pc = "pin" /\ op' = [op EXCEPT !.pc = "connect", !.seen = pin]
  \/ op.pc = "connect" /\ op' = [op EXCEPT !.pc = "sync", !.base = offered]
  \/ op.pc = "sync" /\ op' = [op EXCEPT !.pc = "validate", !.already = TRUE]
  \/ op.pc \in {"sync", "validate"} /\ Challenge
  \/ /\ op.pc = "trust" /\ op.trust.settled = "yes"
     /\ \E p \in {"pinning", "install"} :
          op' = [op EXCEPT !.pc = p, !.approved = TRUE, !.trust = NoTrust]

Restarts ==
  \/ op.pc \in {"prepare", "import", "unwinding"} /\ \E n \in {"import", "attempt"} : AwaitResume(n)
  \/ op.pc = "import" /\ Attempt
  \/ op.pc = "paused" /\ op' = [op EXCEPT !.pc = "import", !.pause = "no"]
  \/ op.pc = "paused" /\ op' = [op EXCEPT !.pc = "pin", !.pause = "no", !.base = 0,
                                          !.already = FALSE, !.seen = Nobody, !.approved = FALSE,
                                          !.trust = NoTrust]

Ends ==
  \E result \in {"complete", "error", "cancelled", "cleanup_failed"}, file \in {NoFile, GuestFile} :
    /\ Answers(result, file) /\ UNCHANGED files
    /\ \/ result # "complete" /\ op.pc \notin {"remove", "closing"} /\ UNCHANGED reported
       \/ /\ result = "complete" /\ op.pc = "closing" /\ file = GuestFile /\ ~op.cancelled
          /\ reported' = reported \cup {op.run}

LEMMA RunMoves ==
  ASSUME RunStep
  PROVE  /\ bridge = "running" /\ Active
         /\ \/ Ends
            \/ /\ UNCHANGED <<answer, reported>>
               /\ Restarts \/ Learns \/ \E p \in Stages : Goes(p) /\ Onward(p)
<1> USE StageNames DEF diskVars, trustVars, runVars, Active, Onward
<1>0. bridge = "running"
  BY DEF RunStep
<1>1. CASE Prepared
  BY <1>0, <1>1 DEF Prepared, Restarts, Ends
<1>2. CASE Imported
  BY <1>0, <1>2 DEF Imported, NextAttempt, Restarts, Ends
<1>3. CASE Resumes
  BY <1>0, <1>3 DEF Resumes, Restarts, Ends
<1>4. CASE PinRead
  BY <1>0, <1>4 DEF PinRead, Learns, Throws
<1>5. CASE Connected
  BY <1>0, <1>5 DEF Connected, Learns, Throws
<1>6. CASE Synced
  BY <1>0, <1>6 DEF Synced, Learns, Throws
<1>7. CASE Decided
  BY <1>0, <1>7 DEF Decided, Learns, Throws
<1>8. CASE Installed
  BY <1>0, <1>8 DEF Installed, Continues, Throws
<1>9. CASE Validated
  BY <1>0, <1>9 DEF Validated, Learns, Throws
<1>10. CASE Pinned
  BY <1>0, <1>10 DEF Pinned, Continues, Throws
<1>11. CASE HandedOff
  BY <1>0, <1>11 DEF HandedOff, Throws
<1>12. CASE Removed
  BY <1>0, <1>12 DEF Removed, Throws, ThrowsStray
<1>13. CASE Completes
  BY <1>0, <1>13 DEF Completes, Ends, Interrupted
<1>14. CASE Unwinds
  <2>1. CASE op.pc = "unwinding" /\ op.pause # "no" /\ ~op.cancelled
    BY <1>0, <1>14, <2>1 DEF Unwinds, Restarts
  <2>2. CASE ~(op.pc = "unwinding" /\ op.pause # "no" /\ ~op.cancelled)
    <3>1. \E result \in {"error", "cancelled", "cleanup_failed"} : Answers(result, NoFile)
      BY <1>14, <2>2 DEF Unwinds
    <3>2. UNCHANGED <<files, reported>> /\ op.pc \in {"unwinding", "cleanup_failed"}
      BY <1>14 DEF Unwinds
    <3> QED
      BY <1>0, <3>1, <3>2 DEF Ends
  <2> QED
    BY <2>1, <2>2
<1> QED
  BY <1>1, <1>2, <1>3, <1>4, <1>5, <1>6, <1>7, <1>8, <1>9, <1>10, <1>11, <1>12, <1>13, <1>14 DEF RunStep

\* What a step of the run may do to everything but the run itself.
LEMMA RunEffects ==
  ASSUME Types, Agreements, RunStep
  PROVE  /\ UNCHANGED <<launcherVars, bridge, inbox, offered, unityVars, runs, cancelled, vetted>>
         /\ \/ UNCHANGED trustVars
            \/ Challenge /\ op.pc \in {"sync", "validate"} /\ op.base \in Baselines
         /\ \/ UNCHANGED files
            \/ /\ op.pc = "handoff" /\ op.base \in Baselines
               /\ files' \in {files, files \cup Stray({GuestFile}), files \cup {GuestFile}}
            \/ /\ op.pc = "remove" /\ op.base \in Baselines
               /\ files' \in {files \ {GuestFile}, (files \ {GuestFile}) \cup Stray({GuestFile})}
         /\ \/ UNCHANGED <<pin, installed>>
            \/ /\ op.pc = "pinning" /\ op.base \in Baselines
               /\ pin' = Publisher[op.base] /\ UNCHANGED installed
            \/ /\ op.pc = "install" /\ op.base \in Baselines
               /\ installed' = installed \cup {op.base} /\ UNCHANGED pin
<1> USE DEF launcherVars, unityVars, diskVars, trustVars, runVars
<1>1. UNCHANGED <<launcherVars, bridge, inbox, offered, unityVars, runs>>
  BY DEF RunStep
<1>2. CASE Prepared
  BY <1>1, <1>2 DEF Prepared, Agreements
<1>3. CASE Imported
  BY <1>1, <1>3 DEF Imported, Agreements
<1>4. CASE Resumes
  BY <1>1, <1>4 DEF Resumes, Agreements
<1>5. CASE PinRead
  BY <1>1, <1>5 DEF PinRead, Agreements
<1>6. CASE Connected
  BY <1>1, <1>6 DEF Connected, Agreements
<1>7. CASE Synced
  BY <1>1, <1>7 DEF Synced, Agreements, Challenge
<1>8. CASE Decided
  BY <1>1, <1>8 DEF Decided, Agreements
<1>9. CASE Installed
  BY <1>1, <1>9 DEF Installed, Agreements
<1>10. CASE Validated
  BY <1>1, <1>10 DEF Validated, Agreements, Challenge
<1>11. CASE Pinned
  BY <1>1, <1>11 DEF Pinned, Agreements
<1>12. CASE HandedOff
  BY <1>1, <1>12 DEF HandedOff, Agreements
<1>13. CASE Removed
  BY <1>1, <1>13 DEF Removed, Agreements
<1>14. CASE Completes
  BY <1>1, <1>14 DEF Completes, Agreements
<1>15. CASE Unwinds
  BY <1>1, <1>15 DEF Unwinds, Agreements
<1> QED
  BY <1>2, <1>3, <1>4, <1>5, <1>6, <1>7, <1>8, <1>9, <1>10, <1>11, <1>12, <1>13, <1>14, <1>15 DEF RunStep

LEMMA RunKeepsTypes ==
  ASSUME Types, Agreements, RunStep
  PROVE  Types'
<1>1. UNCHANGED <<ui, ready, inbox, offered, launched, joined, runs, vetted>>
  BY RunEffects DEF launcherVars, unityVars
<1>2. op' \in Runs
  <2>0. /\ op \in Runs /\ pin \in Publishers \cup {Nobody} /\ offered \in Baselines \cup {0}
        /\ challenges + 1 \in Nat
    BY DEF Types
  <2>1. CASE Ends
    BY <2>1, NoRun DEF Ends, Answers, Types, NoOp
  <2>2. CASE Restarts
    <3>1. \A n \in {"import", "attempt"} : [op EXCEPT !.pc = "paused", !.then = n] \in Runs
      BY <2>0, StageNames DEF Runs
    <3>2. [op EXCEPT !.pc = "import", !.pause = "no"] \in Runs
      BY <2>0, StageNames DEF Runs
    <3>3. CASE Attempt
      BY <2>0, <3>3, StageNames DEF Attempt, Runs, NoTrust
    <3>4. [op EXCEPT !.pc = "pin", !.pause = "no", !.base = 0, !.already = FALSE, !.seen = Nobody,
                     !.approved = FALSE, !.trust = NoTrust] \in Runs
      BY <2>0, StageNames DEF Runs, NoTrust
    <3> QED
      BY <2>2, <3>1, <3>2, <3>3, <3>4 DEF Restarts, AwaitResume
  <2>3. CASE Learns
    <3>1. CASE Challenge
      BY <2>0, <3>1, StageNames DEF Challenge, Runs
    <3>2. [op EXCEPT !.pc = "connect", !.seen = pin] \in Runs
      BY <2>0, StageNames DEF Runs
    <3>3. [op EXCEPT !.pc = "sync", !.base = offered] \in Runs
      BY <2>0, StageNames DEF Runs
    <3>4. [op EXCEPT !.pc = "validate", !.already = TRUE] \in Runs
      BY <2>0, StageNames DEF Runs
    <3>5. \A p \in {"pinning", "install"} :
            [op EXCEPT !.pc = p, !.approved = TRUE, !.trust = NoTrust] \in Runs
      BY <2>0, StageNames DEF Runs, NoTrust
    <3> QED
      BY <2>3, <3>1, <3>2, <3>3, <3>4, <3>5 DEF Learns
  <2>4. CASE \E p \in Stages : Goes(p)
    <3>1. PICK p \in Stages : op' = [op EXCEPT !.pc = p]
      BY <2>4 DEF Goes
    <3> QED
      BY <2>0, <3>1 DEF Runs
  <2> QED
    BY <2>1, <2>2, <2>3, <2>4, RunMoves
<1> USE DEF Types
<1>3. files' \subseteq Handoffs
  <2>1. op.base \in Baselines =>
          GuestFile \in Handoffs /\ Stray({GuestFile}) \subseteq Handoffs
    BY DEF GuestFile, Stray, Handoffs, Runs
  <2> QED
    BY <2>1, RunEffects
<1>4. asked' \subseteq [id : Nat \ {0}, base : Baselines] /\ challenges' \in Nat
  BY RunEffects DEF Challenge, trustVars
<1>5. pin' \in Publishers \cup {Nobody} /\ installed' \subseteq Baselines
  BY RunEffects, Baselined
<1> QED
  BY <1>1, <1>2, <1>3, <1>4, <1>5

-----------------------------------------------------------------------------
(* So do the bridge, the Launcher, Unity and the Host.                      *)

Others ==
  \/ BridgeDies \/ Receive \/ InspectionReturns \/ PauseClick \/ CancelClick \/ AnswerChallenge
  \/ Answered \/ ValidatedActive \/ OpenClick \/ RefreshHandoff \/ OpenUnity \/ CloseLauncher
  \/ UnityJoins \/ HostPublishes

LEMMA HandleKeepsTypes ==
  ASSUME Types, Handle
  PROVE  Types'
<1>1. inbox' \in Seq(Frames)
  BY FramesDo, FrameTaken DEF Types
<1>2. op \in Runs /\ runs \in Nat
  BY DEF Types
<1>3. op' \in Runs
  <2>1. [NoOp EXCEPT !.run = runs, !.pc = "prepare"] \in Runs
    BY <1>2, NoRun
  <2>2. \A s \in {"yes", "no"} : [op EXCEPT !.trust.settled = s] \in Runs
    BY <1>2 DEF Runs
  <2>3. \A p \in {"asked", "resumed"} : [op EXCEPT !.pause = p] \in Runs
    BY <1>2 DEF Runs
  <2>4. [op EXCEPT !.cancelled = TRUE] \in Runs
    BY <1>2 DEF Runs
  <2>5. /\ Reject([op EXCEPT !.pause = "asked"]) \in Runs
        /\ Reject([op EXCEPT !.cancelled = TRUE]) \in Runs
    BY <2>3, <2>4, Rejected
  <2> QED
    BY <1>2, <2>1, <2>2, <2>3, <2>5, FramesDo
<1> QED
  BY <1>1, <1>3, FramesDo DEF Types, launcherVars, diskVars, unityVars, trustVars

LEMMA FrameTypes ==
  /\ \A t \in Commands : Frame(t) \in Frames /\ Frame(t).type = t
  /\ \A i \in Nat, a \in BOOLEAN : [type |-> "trust", id |-> i, approved |-> a] \in Frames
BY DEF Commands, Frames, Frame

LEMMA OthersKeepTypes ==
  ASSUME Types, Turns, Deliveries, Others
  PROVE  Types'
<1> USE DEF Types, launcherVars, bridgeVars, unityVars, diskVars, trustVars, runVars, boundVars
<1>0. \A f \in Handoffs : [f EXCEPT !.kind = "stray"] \in Handoffs /\ [f EXCEPT !.kind = "launch"] \in Handoffs
  BY DEF Handoffs
<1>1. CASE BridgeDies
  <2>1. op' = NoOp /\ NoOp \in Runs
    <3>1. 0 \in Nat
      OBVIOUS
    <3> QED
      BY <1>1, <3>1, NoRun DEF BridgeDies
  <2>2. files' \subseteq Handoffs
    BY <1>1, <1>0 DEF BridgeDies, Stray
  <2>3. inbox' \in Seq(Frames) /\ asked' \subseteq asked
    BY <1>1 DEF BridgeDies
  <2> QED
    BY <1>1, <2>1, <2>2, <2>3 DEF BridgeDies
<1>2. CASE Receive
  BY <1>2 DEF Receive, Forgets
<1>3. CASE InspectionReturns
  BY <1>3, FrameTypes, FrameAdded DEF InspectionReturns, Sends, Commands
<1>4. CASE PauseClick
  BY <1>4, FrameTypes, FrameAdded DEF PauseClick, Sends, Commands
<1>5. CASE CancelClick
  BY <1>5, FrameTypes, FrameAdded DEF CancelClick, Sends, Commands
<1>6. CASE AnswerChallenge
  <2>1. PICK c \in asked, approved \in BOOLEAN :
          /\ asked' = asked \ {c}
          /\ vetted' = IF approved THEN vetted \cup {Publisher[c.base]} ELSE vetted
          /\ inbox' = Append(inbox, [type |-> "trust", id |-> c.id, approved |-> approved])
    BY <1>6 DEF AnswerChallenge, Sends
  <2>2. c.id \in Nat /\ c.base \in Baselines
    OBVIOUS
  <2>3. inbox' \in Seq(Frames)
    BY <2>1, <2>2, FrameTypes, FrameAdded
  <2>4. vetted' \subseteq Publishers
    BY <2>1, <2>2, Baselined
  <2> QED
    BY <1>6, <2>1, <2>3, <2>4 DEF AnswerChallenge
<1>7. CASE Answered
  BY <1>7 DEF Answered, Delivered, Deliveries, NoAnswer
<1>8. CASE ValidatedActive
  BY <1>8 DEF ValidatedActive, Forgets
<1>9. CASE OpenClick
  BY <1>9 DEF OpenClick
<1>10. CASE RefreshHandoff
  BY <1>10, <1>0 DEF RefreshHandoff, Forgets, Fresh
<1>11. CASE OpenUnity
  BY <1>11, <1>0 DEF OpenUnity, Forgets, Fresh, Stray, Turns
<1>12. CASE CloseLauncher
  BY <1>12, FrameTypes, FrameAdded DEF CloseLauncher, Commands
<1>13. CASE UnityJoins
  BY <1>13 DEF UnityJoins
<1>14. CASE HostPublishes
  BY <1>14 DEF HostPublishes
<1> QED
  BY <1>1, <1>2, <1>3, <1>4, <1>5, <1>6, <1>7, <1>8, <1>9, <1>10, <1>11, <1>12, <1>13, <1>14 DEF Others

-----------------------------------------------------------------------------
(* One receive at a time.                                                   *)

\* A start request is in the queue only when the Launcher has just sent one.
LEMMA NoNewStart ==
  ASSUME Types,
         \/ UNCHANGED inbox
         \/ inbox' = << >>
         \/ inbox # << >> /\ inbox' = Tail(inbox)
         \/ \E m \in Frames : m.type # "start" /\ inbox' = Append(inbox, m)
  PROVE  /\ (\E i \in Nat : Starting(i)') => \E i \in Nat : Starting(i)
         /\ (\A i, j \in Nat : Starting(i) /\ Starting(j) => i = j)
              => \A i, j \in Nat : Starting(i)' /\ Starting(j)' => i = j
<1> USE DEF Starting
<1>1. inbox \in Seq(Frames)
  BY DEF Types
<1>2. CASE inbox' = << >> \/ UNCHANGED inbox
  BY <1>2
<1>3. CASE inbox # << >> /\ inbox' = Tail(inbox)
  <2>1. \A i \in Nat : Starting(i)' => i + 1 \in Nat /\ Starting(i + 1)
    BY <1>1, <1>3, FrameTaken
  <2> QED
    BY <2>1
<1>4. ASSUME NEW m \in Frames, m.type # "start", inbox' = Append(inbox, m)
      PROVE  \A i \in Nat : Starting(i)' => Starting(i)
  BY <1>1, <1>4, FrameAdded
<1> QED
  BY <1>2, <1>3, <1>4

LEMMA RunKeepsTurns ==
  ASSUME Types, Agreements, Turns, RunStep
  PROVE  Turns'
<1>1. UNCHANGED <<ui, ready, opening, inbox>>
  BY RunEffects DEF launcherVars
<1>2. /\ Active /\ ui \in {"receiving", "closed"} /\ answer = NoAnswer
      /\ \A i \in Nat : ~Starting(i)
  BY RunMoves DEF Turns
<1>3. \A i \in Nat : ~Starting(i)'
  BY <1>1, <1>2 DEF Starting
<1>4. CASE Ends
  <2>1. ~Active' /\ (answer' # NoAnswer => ui # "closed")
    BY <1>4 DEF Ends, Answers, NoOp, Active
  <2> QED
    BY <1>1, <1>2, <1>3, <2>1 DEF Turns
<1>5. CASE UNCHANGED answer
  BY <1>1, <1>2, <1>3, <1>5 DEF Turns
<1> QED
  BY <1>4, <1>5, RunMoves

LEMMA HandleKeepsTurns ==
  ASSUME Types, Turns, Handle
  PROVE  Turns'
<1>1. UNCHANGED <<ui, ready, opening, answer>> /\ inbox # << >> /\ inbox' = Tail(inbox)
  BY FramesDo DEF launcherVars
<1>2. /\ (\E i \in Nat : Starting(i)') => \E i \in Nat : Starting(i)
      /\ \A i, j \in Nat : Starting(i)' /\ Starting(j)' => i = j
  BY <1>1, NoNewStart DEF Turns
<1>3. CASE Head(inbox).type = "start" /\ ~Active
  <2>1. Starting(1)
    BY <1>1, <1>3, FrameTaken DEF Starting, Types
  <2>2. ui \in {"receiving", "closed"} /\ answer = NoAnswer
    BY <2>1 DEF Turns
  <2>3. ASSUME NEW i \in Nat, Starting(i)' PROVE FALSE
    <3>1. Starting(i + 1) /\ i + 1 \in Nat /\ i # 0
      BY <1>1, <2>3, FrameTaken DEF Starting, Types
    <3>2. i + 1 = 1
      BY <2>1, <3>1 DEF Turns
    <3> QED
      BY <3>1, <3>2
  <2> QED
    BY <1>1, <2>2, <2>3 DEF Turns
<1>4. CASE ~(Head(inbox).type = "start" /\ ~Active)
  <2>1. Active \/ UNCHANGED op
    BY <1>4, FramesDo
  <2>2. Active' => Active
    BY <2>1 DEF Active
  <2>3. (\E i \in Nat : Starting(i)') => ~Active /\ ui \in {"receiving", "closed"} /\ answer = NoAnswer
    BY <1>2 DEF Turns
  <2> QED
    BY <1>1, <1>2, <2>2, <2>3 DEF Turns
<1> QED
  BY <1>3, <1>4

\* Only the Launcher's start request is a start request.
LEMMA OthersQueue ==
  ASSUME Types, Others, ~InspectionReturns
  PROVE  \/ UNCHANGED inbox
         \/ inbox' = << >>
         \/ \E m \in Frames : m.type # "start" /\ inbox' = Append(inbox, m)
<1>1. \A t \in Commands : Frame(t) \in Frames /\ Frame(t).type = t
  BY FrameTypes
<1>2. CASE AnswerChallenge
  <2>1. PICK c \in asked, approved \in BOOLEAN :
          inbox' = Append(inbox, [type |-> "trust", id |-> c.id, approved |-> approved])
    BY <1>2 DEF AnswerChallenge, Sends
  <2>2. c.id \in Nat
    BY DEF Types
  <2> QED
    BY <2>1, <2>2, FrameTypes
<1>3. CASE PauseClick \/ CancelClick \/ CloseLauncher
  BY <1>1, <1>3 DEF PauseClick, CancelClick, CloseLauncher, Sends, Commands, bridgeVars
<1>4. CASE ~(AnswerChallenge \/ PauseClick \/ CancelClick \/ CloseLauncher)
  BY <1>4 DEF Others, BridgeDies, Receive, Answered, ValidatedActive, OpenClick, RefreshHandoff,
              OpenUnity, UnityJoins, HostPublishes, bridgeVars
<1> QED
  BY <1>2, <1>3, <1>4

LEMMA OthersKeepTurns ==
  ASSUME Types, Turns, Others
  PROVE  Turns'
<1> USE DEF launcherVars, bridgeVars
<1>0. ~InspectionReturns =>
        /\ (\E i \in Nat : Starting(i)') => \E i \in Nat : Starting(i)
        /\ \A i, j \in Nat : Starting(i)' /\ Starting(j)' => i = j
  BY OthersQueue, NoNewStart DEF Turns
<1>1. CASE BridgeDies
  <2>1. \A i \in Nat : ~Starting(i)'
    BY <1>1 DEF BridgeDies, Starting
  <2>2. ~Active'
    BY <1>1 DEF BridgeDies, Active, NoOp
  <2>3. UNCHANGED <<ui, ready, opening>> /\ (answer' # NoAnswer => ui = "receiving")
    BY <1>1 DEF BridgeDies
  <2> QED
    BY <2>1, <2>2, <2>3 DEF Turns
<1>2. CASE Receive
  BY <1>2, <1>0 DEF Receive, Forgets, InspectionReturns, Turns, Active
<1>3. CASE InspectionReturns
  <2>1. ui = "inspecting" /\ ~Active /\ answer = NoAnswer /\ \A i \in Nat : ~Starting(i)
    BY <1>3 DEF InspectionReturns, Turns
  <2>2. UNCHANGED <<op, answer, opening, ready>>
    BY <1>3 DEF InspectionReturns
  <2>3. CASE ui' = "receiving" /\ inbox' = Append(inbox, Frame("start"))
    <3>1. Frame("start") \in Frames
      BY FrameTypes DEF Commands
    <3>2. \A i \in Nat : Starting(i)' => i = Len(inbox) + 1
      BY <2>1, <2>3, <3>1, FrameAdded DEF Types, Starting
    <3>3. opening = "no"
      BY <2>1 DEF Turns
    <3> QED
      BY <2>1, <2>2, <2>3, <3>2, <3>3 DEF Turns, Active
  <2>4. CASE ui' = "idle" /\ UNCHANGED inbox
    BY <2>1, <2>2, <2>4 DEF Turns, Active, Starting
  <2> QED
    BY <1>3, <2>3, <2>4 DEF InspectionReturns, Sends
<1>4. CASE PauseClick
  BY <1>4, <1>0 DEF PauseClick, Sends, InspectionReturns, Turns, Active
<1>5. CASE CancelClick
  BY <1>5, <1>0 DEF CancelClick, Sends, InspectionReturns, Turns, Active
<1>6. CASE AnswerChallenge
  BY <1>6, <1>0 DEF AnswerChallenge, Sends, InspectionReturns, Turns, Active
<1>7. CASE Answered
  BY <1>7, <1>0 DEF Answered, InspectionReturns, Turns, Active
<1>8. CASE ValidatedActive
  <2>1. ~Active /\ answer = NoAnswer /\ opening = "no" /\ \A i \in Nat : ~Starting(i)
    BY <1>8 DEF ValidatedActive, Turns
  <2>2. ui' = "idle" /\ UNCHANGED <<op, answer, inbox>>
    BY <1>8 DEF ValidatedActive
  <2>3. opening' # "no" => ready' # NoFile
    <3>1. NoFile \notin files
      BY Baselined DEF Types, Handoffs, NoFile
    <3> QED
      BY <1>8, <2>1, <3>1 DEF ValidatedActive
  <2>4. ~Active' /\ \A i \in Nat : ~Starting(i)'
    BY <2>1, <2>2 DEF Active, Starting
  <2> QED
    BY <2>1, <2>2, <2>3, <2>4 DEF Turns
<1>9. CASE OpenClick
  BY <1>9, <1>0 DEF OpenClick, InspectionReturns, Turns, Active
<1>10. CASE RefreshHandoff
  BY <1>10, <1>0 DEF RefreshHandoff, InspectionReturns, Turns, Active
<1>11. CASE OpenUnity
  BY <1>11, <1>0 DEF OpenUnity, InspectionReturns, Turns, Active
<1>12. CASE CloseLauncher
  BY <1>12, <1>0 DEF CloseLauncher, InspectionReturns, Turns, Active
<1>13. CASE UnityJoins
  BY <1>13, <1>0 DEF UnityJoins, InspectionReturns, Turns, Active
<1>14. CASE HostPublishes
  BY <1>14, <1>0 DEF HostPublishes, InspectionReturns, Turns, Active
<1> QED
  BY <1>1, <1>2, <1>3, <1>4, <1>5, <1>6, <1>7, <1>8, <1>9, <1>10, <1>11, <1>12, <1>13, <1>14 DEF Others

-----------------------------------------------------------------------------
(* The number of a receive is its own.                                      *)

LEMMA RunKeepsNumbers ==
  ASSUME Types, Agreements, Turns, Numbers, RunStep
  PROVE  Numbers'
<1>1. UNCHANGED <<ui, inbox, runs, cancelled>>
  BY RunEffects DEF launcherVars
<1>2. /\ Active /\ ui # "inspecting" /\ op.run = runs /\ runs \notin reported
      /\ \A i \in Nat : ~Starting(i)'
  BY <1>1, RunMoves DEF Turns, Numbers, Starting
<1>3. CASE Ends
  <2>1. ~Active' /\ op' = NoOp
    BY <1>3 DEF Ends, Answers, NoOp, Active
  <2>2. \/ UNCHANGED reported
        \/ reported' = reported \cup {runs} /\ runs \notin cancelled
    BY <1>2, <1>3 DEF Ends, Numbers
  <2> QED
    BY <1>1, <1>2, <2>1, <2>2 DEF Numbers, Types
<1>4. CASE /\ UNCHANGED reported
           /\ Restarts \/ Learns \/ \E p \in Stages : Goes(p) /\ Onward(p)
  <2>1. op'.run = op.run /\ op'.cancelled = op.cancelled
    BY <1>4 DEF Restarts, Learns, Goes, AwaitResume, Attempt, Challenge, Types, Runs
  <2>2. Active'
    BY <1>4 DEF Restarts, Learns, Goes, AwaitResume, Attempt, Challenge, Types, Runs, Onward, Active
  <2> QED
    BY <1>1, <1>2, <1>4, <2>1, <2>2 DEF Numbers
<1> QED
  BY <1>3, <1>4, RunMoves

LEMMA HandleKeepsNumbers ==
  ASSUME Types, Turns, Numbers, Handle
  PROVE  Numbers'
<1>1. UNCHANGED <<ui, runs, reported>> /\ inbox # << >> /\ inbox' = Tail(inbox)
  BY FramesDo DEF launcherVars
<1>2. (\E i \in Nat : Starting(i)') => \E i \in Nat : Starting(i)
  BY <1>1, NoNewStart
<1>3. CASE Head(inbox).type = "start" /\ ~Active
  <2>1. Starting(1)
    BY <1>1, <1>3, FrameTaken DEF Starting, Types
  <2>2. runs \notin reported \cup cancelled
    BY <2>1 DEF Numbers
  <2>3. UNCHANGED cancelled /\ (UNCHANGED op \/ op' = [NoOp EXCEPT !.run = runs, !.pc = "prepare"])
    BY <1>3, FramesDo
  <2>4. (op'.run = runs /\ ~op'.cancelled /\ Active') \/ UNCHANGED op
    BY <2>3 DEF NoOp, Active
  <2> QED
    BY <1>1, <1>2, <1>3, <2>2, <2>3, <2>4 DEF Numbers, Active
<1>4. CASE UNCHANGED <<op, cancelled>>
  BY <1>1, <1>2, <1>4 DEF Numbers, Active
<1>5. CASE /\ Active /\ UNCHANGED cancelled
           /\ \/ op' = [op EXCEPT !.trust.settled = IF Head(inbox).approved THEN "yes" ELSE "no"]
              \/ op' = Reject([op EXCEPT !.pause = "asked"])
              \/ op' = [op EXCEPT !.pause = "resumed"]
  <2>1. op'.run = op.run /\ op'.cancelled = op.cancelled /\ op'.pc = op.pc
    BY <1>5 DEF Reject, Types, Runs
  <2> QED
    BY <1>1, <1>2, <1>5, <2>1 DEF Numbers, Active, Turns
<1>6. CASE Active /\ cancelled' = cancelled \cup {op.run} /\ op' = Reject([op EXCEPT !.cancelled = TRUE])
  <2>1. op'.run = op.run /\ op'.cancelled /\ op'.pc = op.pc
    BY <1>6 DEF Reject, Types, Runs
  <2>2. \A i \in Nat : ~Starting(i)'
    BY <1>2, <1>6 DEF Turns
  <2> QED
    BY <1>1, <1>6, <2>1, <2>2 DEF Numbers, Active, Types, Turns
<1> QED
  BY <1>3, <1>4, <1>5, <1>6, FramesDo

LEMMA OthersKeepNumbers ==
  ASSUME Types, Turns, Numbers, Others
  PROVE  Numbers'
<1> USE DEF launcherVars, bridgeVars, runVars, boundVars
<1>0. ~InspectionReturns => ((\E i \in Nat : Starting(i)') => \E i \in Nat : Starting(i))
  BY OthersQueue, NoNewStart
<1>1. CASE BridgeDies
  <2>1. \A i \in Nat : ~Starting(i)'
    BY <1>1 DEF BridgeDies, Starting
  <2>2. ~Active' /\ op' = NoOp
    BY <1>1 DEF BridgeDies, Active, NoOp
  <2>3. UNCHANGED <<ui, reported, cancelled, runs>>
    BY <1>1 DEF BridgeDies
  <2> QED
    BY <2>1, <2>2, <2>3 DEF Numbers
<1>2. CASE Receive
  <2>1. ~Active /\ \A i \in Nat : ~Starting(i)
    BY <1>2 DEF Receive, Turns
  <2>2. runs' = runs + 1 /\ runs' \notin reported \cup cancelled
    BY <1>2 DEF Receive, Numbers, Types
  <2>3. UNCHANGED <<op, inbox, reported, cancelled>>
    BY <1>2 DEF Receive
  <2> QED
    BY <2>1, <2>2, <2>3 DEF Numbers, Active, Starting, Types
<1>3. CASE InspectionReturns
  <2>1. ~Active /\ runs \notin reported \cup cancelled
    BY <1>3 DEF InspectionReturns, Turns, Numbers
  <2> QED
    BY <1>3, <2>1 DEF InspectionReturns, Numbers, Active, Starting
<1>4. CASE PauseClick
  BY <1>4, <1>0 DEF PauseClick, InspectionReturns, Numbers, Active
<1>5. CASE CancelClick
  BY <1>5, <1>0 DEF CancelClick, InspectionReturns, Numbers, Active
<1>6. CASE AnswerChallenge
  BY <1>6, <1>0 DEF AnswerChallenge, InspectionReturns, Numbers, Active
<1>7. CASE Answered
  BY <1>7, <1>0 DEF Answered, InspectionReturns, Numbers, Active
<1>8. CASE ValidatedActive
  BY <1>8, <1>0 DEF ValidatedActive, InspectionReturns, Numbers, Active
<1>9. CASE OpenClick
  BY <1>9, <1>0 DEF OpenClick, InspectionReturns, Numbers, Active
<1>10. CASE RefreshHandoff
  BY <1>10, <1>0 DEF RefreshHandoff, InspectionReturns, Numbers, Active
<1>11. CASE OpenUnity
  BY <1>11, <1>0 DEF OpenUnity, InspectionReturns, Numbers, Active
<1>12. CASE CloseLauncher
  BY <1>12, <1>0 DEF CloseLauncher, InspectionReturns, Numbers, Active
<1>13. CASE UnityJoins
  BY <1>13, <1>0 DEF UnityJoins, InspectionReturns, Numbers, Active
<1>14. CASE HostPublishes
  BY <1>14, <1>0 DEF HostPublishes, InspectionReturns, Numbers, Active
<1> QED
  BY <1>1, <1>2, <1>3, <1>4, <1>5, <1>6, <1>7, <1>8, <1>9, <1>10, <1>11, <1>12, <1>13, <1>14 DEF Others

-----------------------------------------------------------------------------
(* Only what was reported can be opened.                                    *)

LEMMA DeliveredStays ==
  ASSUME reported \subseteq reported', vetted \subseteq vetted'
  PROVE  \A f : Delivered(f) => Delivered(f)'
BY DEF Delivered

LEMMA SameFile ==
  ASSUME Types, NEW f \in files, f.kind = "guest", f.run = op.run, f.base = op.base
  PROVE  f = GuestFile
BY DEF Types, Handoffs, GuestFile

LEMMA RunKeepsDeliveries ==
  ASSUME Types, Agreements, Turns, Deliveries, RunStep
  PROVE  Deliveries'
<1>1. UNCHANGED <<ready, launched, joined, vetted>>
  BY RunEffects DEF launcherVars, unityVars
<1>2. answer = NoAnswer /\ answer.result # "complete"
  BY RunMoves DEF Turns, NoAnswer
<1>3. CASE HandedOff \/ Removed
  <2>1. UNCHANGED <<answer, reported>>
    BY <1>3 DEF HandedOff, Removed, runVars
  <2>2. ASSUME NEW f \in files'
        PROVE  /\ f.kind = "guest" =>
                    \/ f.run \in reported
                    \/ f.run = op'.run /\ f.base = op'.base /\ op'.pc \in {"remove", "closing"}
               /\ f.kind = "launch" => f.run \in reported
    <3>1. CASE f \in Stray({GuestFile})
      BY <3>1 DEF Stray, GuestFile
    <3>2. CASE HandedOff /\ f \notin Stray({GuestFile})
      <4>1. op.pc = "handoff" /\ f \in files \cup {GuestFile}
        BY <2>2, <3>2 DEF HandedOff
      <4>2. CASE f \in files
        BY <4>1, <4>2 DEF Deliveries
      <4>3. CASE f = GuestFile /\ f \notin files
        <5>1. GuestFile \notin Stray({GuestFile})
          BY DEF GuestFile, Stray
        <5>2. op' = [op EXCEPT !.pc = IF Interrupted THEN "remove" ELSE "closing"]
          BY <3>2, <4>3, <5>1, <2>2 DEF HandedOff, Goes
        <5>3. op'.run = op.run /\ op'.base = op.base /\ op'.pc \in {"remove", "closing"}
          BY <5>2 DEF Types, Runs
        <5> QED
          BY <4>3, <5>3 DEF GuestFile
      <4> QED
        BY <4>1, <4>2, <4>3
    <3>3. CASE Removed /\ f \notin Stray({GuestFile})
      <4>1. f \in files /\ f # GuestFile
        BY <2>2, <3>3 DEF Removed
      <4> QED
        BY <4>1, SameFile DEF Deliveries
    <3> QED
      BY <1>3, <3>1, <3>2, <3>3
  <2> QED
    BY <1>1, <1>2, <2>1, <2>2, DeliveredStays DEF Deliveries
<1>4. CASE Completes
  <2>1. UNCHANGED files /\ op.pc = "closing"
    BY <1>4 DEF Completes, diskVars
  <2>2. CASE Goes("remove") /\ UNCHANGED <<answer, reported>>
    <3>1. op'.run = op.run /\ op'.base = op.base /\ op'.pc = "remove"
      BY <2>2 DEF Goes, Types, Runs
    <3> QED
      BY <1>1, <1>2, <2>1, <2>2, <3>1, DeliveredStays DEF Deliveries
  <2>3. CASE Answers("complete", GuestFile) /\ reported' = reported \cup {op.run}
    <3>1. \A f \in files : f.kind # "stray" => f.run \in reported'
      BY <2>3 DEF Deliveries, Types, Handoffs
    <3>2. op.base \in Baselines /\ Agreed
      BY <2>1 DEF Agreements
    <3>3. GuestFile \in Handoffs /\ GuestFile.kind = "guest" /\ GuestFile.run = op.run /\ GuestFile.base = op.base
      BY <3>2 DEF Types, Runs, Handoffs, GuestFile
    <3>4. \A f \in Handoffs :
            f.kind = "guest" /\ f.run = op.run /\ f.base = op.base => Delivered(f)'
      BY <1>1, <2>3, <3>2 DEF Delivered, Agreed
    <3>5. answer'.result = "complete" => Delivered(answer.file)'
      BY <2>3, <3>3, <3>4 DEF Answers, NoAnswer
    <3> QED
      BY <1>1, <2>1, <2>3, <3>1, <3>5, DeliveredStays DEF Deliveries
  <2> QED
    BY <1>4, <2>2, <2>3 DEF Completes
<1>5. CASE ~(HandedOff \/ Removed \/ Completes)
  <2>1. UNCHANGED <<files, reported>> /\ op.pc \notin {"remove", "closing"}
    BY <1>5 DEF RunStep, Prepared, Imported, Resumes, PinRead, Connected, Synced, Decided,
                Installed, Validated, Pinned, Unwinds, diskVars, runVars
  <2>2. answer'.result # "complete"
    BY <1>2, <2>1, RunMoves DEF Ends, Answers, NoAnswer
  <2> QED
    BY <1>1, <2>1, <2>2, DeliveredStays DEF Deliveries
<1> QED
  BY <1>3, <1>4, <1>5

LEMMA HandleKeepsDeliveries ==
  ASSUME Types, Turns, Deliveries, Handle
  PROVE  Deliveries'
<1>1. UNCHANGED <<answer, ready, files, launched, joined, reported, vetted>>
  BY FramesDo DEF launcherVars, diskVars, unityVars, trustVars
<1>2. CASE Active
  <2>1. op'.run = op.run /\ op'.base = op.base /\ op'.pc = op.pc
    BY <1>2, FramesDo DEF Reject, Types, Runs
  <2> QED
    BY <1>1, <2>1, DeliveredStays DEF Deliveries
<1>3. CASE ~Active
  BY <1>1, <1>3, DeliveredStays DEF Deliveries, Active
<1> QED
  BY <1>2, <1>3

LEMMA OthersKeepDeliveries ==
  ASSUME Types, Turns, Deliveries, Others
  PROVE  Deliveries'
<1> USE DEF launcherVars, bridgeVars, runVars, diskVars, unityVars, trustVars, boundVars
<1>0. reported' = reported /\ vetted \subseteq vetted'
  BY DEF Others, BridgeDies, Receive, InspectionReturns, PauseClick, CancelClick, AnswerChallenge,
         Answered, ValidatedActive, OpenClick, RefreshHandoff, OpenUnity, CloseLauncher, UnityJoins,
         HostPublishes
<1>1. CASE BridgeDies
  <2>1. answer'.result # "complete" /\ UNCHANGED <<ready, launched, joined>>
    BY <1>1 DEF BridgeDies, NoAnswer
  <2>2. ASSUME NEW f \in files' PROVE f.kind # "stray" => f.run \in reported
    <3>1. (f \in files /\ f # GuestFile) \/ f.kind = "stray"
      BY <1>1, <2>2 DEF BridgeDies, Stray, GuestFile
    <3> QED
      BY <3>1, SameFile DEF Deliveries, Types, Handoffs
  <2>3. \A f \in files' : (f.kind = "guest" \/ f.kind = "launch") => f.run \in reported
    BY <2>2
  <2> QED
    BY <1>0, <2>1, <2>3, DeliveredStays DEF Deliveries
<1>2. CASE Receive
  BY <1>2, <1>0, DeliveredStays DEF Receive, Forgets, Deliveries
<1>3. CASE InspectionReturns
  BY <1>3, <1>0, DeliveredStays DEF InspectionReturns, Deliveries
<1>4. CASE PauseClick
  BY <1>4, <1>0, DeliveredStays DEF PauseClick, Deliveries
<1>5. CASE CancelClick
  BY <1>5, <1>0, DeliveredStays DEF CancelClick, Deliveries
<1>6. CASE AnswerChallenge
  BY <1>6, <1>0, DeliveredStays DEF AnswerChallenge, Deliveries
<1>7. CASE Answered
  BY <1>7, <1>0, DeliveredStays DEF Answered, Deliveries, NoAnswer
<1>8. CASE ValidatedActive
  BY <1>8, <1>0, DeliveredStays DEF ValidatedActive, Forgets, Deliveries
<1>9. CASE OpenClick
  BY <1>9, <1>0, DeliveredStays DEF OpenClick, Deliveries
<1>10. CASE RefreshHandoff
  <2>1. opening = "check" => ready.run \in reported /\ Fresh.run = ready.run /\ Fresh.kind = "launch"
    BY DEF Turns, Deliveries, Delivered, Fresh, Handoffs
  <2>2. \A f \in files' : f \in files \/ (f = Fresh /\ opening = "check")
    BY <1>10 DEF RefreshHandoff
  <2> QED
    BY <1>10, <1>0, <2>1, <2>2, DeliveredStays DEF RefreshHandoff, Forgets, Deliveries
<1>11. CASE OpenUnity
  <2>1. opening = "prepared" /\ ready # NoFile
    BY <1>11 DEF OpenUnity, Turns
  <2>2. Fresh.run \in reported
    BY <2>1 DEF Deliveries, Delivered, Fresh, Handoffs
  <2>3. \A f \in files' : f \in files \/ f.kind = "stray"
    <3>1. Fresh \in Handoffs
      BY <2>1 DEF Deliveries, Delivered, Fresh, Handoffs
    <3>2. \A f \in Stray({Fresh}) : f.kind = "stray"
      BY <3>1 DEF Stray, Handoffs
    <3> QED
      BY <1>11, <3>2 DEF OpenUnity
  <2> QED
    BY <1>11, <1>0, <2>2, <2>3, DeliveredStays DEF OpenUnity, Forgets, Deliveries
<1>12. CASE CloseLauncher
  BY <1>12, <1>0, DeliveredStays DEF CloseLauncher, Deliveries, NoAnswer
<1>13. CASE UnityJoins
  BY <1>13, <1>0, DeliveredStays DEF UnityJoins, Deliveries
<1>14. CASE HostPublishes
  BY <1>14, <1>0, DeliveredStays DEF HostPublishes, Deliveries
<1> QED
  BY <1>1, <1>2, <1>3, <1>4, <1>5, <1>6, <1>7, <1>8, <1>9, <1>10, <1>11, <1>12, <1>13, <1>14 DEF Others

-----------------------------------------------------------------------------
(* Publishers are agreed to.                                                *)

LEMMA TrustMeans ==
  TrustWasAnswered <=>
    /\ pin = Nobody \/ pin \in vetted
    /\ \A b \in installed : Publisher[b] \in vetted
    /\ \A f \in files \cup launched \cup joined : Publisher[f.base] \in vetted
BY DEF TrustWasAnswered

LEMMA TrustMeansLater ==
  TrustWasAnswered' <=>
    /\ pin' = Nobody \/ pin' \in vetted'
    /\ \A b \in installed' : Publisher[b] \in vetted'
    /\ \A f \in files' \cup launched' \cup joined' : Publisher[f.base] \in vetted'
BY DEF TrustWasAnswered

LEMMA RunKeepsTrust ==
  ASSUME Types, Agreements, RunStep
  PROVE  TrustWasAnswered'
<1>1. UNCHANGED <<launched, joined, vetted>>
  BY RunEffects DEF unityVars
<1>2. op.pc \in {"install", "pinning", "handoff", "remove"} => Publisher[op.base] \in vetted
  BY DEF Agreements, Agreed
<1>3. pin' = Nobody \/ pin' \in vetted
  BY <1>2, TrustMeans, RunEffects DEF Agreements
<1>4. \A b \in installed' : Publisher[b] \in vetted
  BY <1>2, TrustMeans, RunEffects DEF Agreements
<1>5. \A f \in files' : Publisher[f.base] \in vetted
  <2>1. GuestFile.base = op.base /\ \A f \in Stray({GuestFile}) : f.base = op.base
    BY DEF GuestFile, Stray
  <2> QED
    BY <1>2, <2>1, TrustMeans, RunEffects DEF Agreements
<1> QED
  BY <1>1, <1>3, <1>4, <1>5, TrustMeans, TrustMeansLater DEF Agreements

\* What Agreements says of the run itself.
Conditions ==
  /\ op.pc \in {"sync", "trust", "install", "validate", "pinning", "handoff", "remove", "closing"}
       => op.base \in Baselines
  /\ op.pc \in {"pin", "connect", "sync"} => ~op.approved /\ ~op.already /\ op.trust = NoTrust
  /\ op.pc \in {"install", "pinning", "handoff", "remove", "closing"} => Agreed
  /\ op.pc = "validate" /\ (op.approved \/ ~op.already) => Agreed
  /\ op.seen \in vetted \cup {Nobody}
  /\ op.trust.settled = "yes" => op.base \in Baselines /\ Agreed

LEMMA AgreementsAre == Agreements <=> Conditions /\ TrustWasAnswered
BY DEF Agreements, Conditions

LEMMA MatchesMeansAgreed ==
  ASSUME Types, op.seen \in vetted \cup {Nobody}, op.base \in Baselines, Matches
  PROVE  Agreed
BY Baselined DEF Matches, Agreed

LEMMA RunKeepsConditions ==
  ASSUME Types, Agreements, RunStep
  PROVE  Conditions'
<1>1. op \in Runs /\ UNCHANGED vetted /\ Conditions /\ (pin = Nobody \/ pin \in vetted)
  BY RunEffects, AgreementsAre, TrustMeans DEF Types
<1>2. CASE Ends
  BY <1>1, <1>2 DEF Ends, Answers, NoOp, NoTrust, Conditions
<1>3. CASE Restarts
  <2>1. CASE \E n \in {"import", "attempt"} : AwaitResume(n)
    BY <1>1, <2>1 DEF AwaitResume, Runs, Conditions, Agreed
  <2>2. CASE Attempt
    BY <1>1, <2>2 DEF Attempt, Runs, Conditions, Agreed, NoTrust
  <2>3. CASE op' = [op EXCEPT !.pc = "import", !.pause = "no"]
    BY <1>1, <2>3 DEF Runs, Conditions, Agreed
  <2>4. CASE op' = [op EXCEPT !.pc = "pin", !.pause = "no", !.base = 0, !.already = FALSE,
                              !.seen = Nobody, !.approved = FALSE, !.trust = NoTrust]
    BY <1>1, <2>4 DEF Runs, Conditions, Agreed, NoTrust
  <2> QED
    BY <1>3, <2>1, <2>2, <2>3, <2>4 DEF Restarts
<1>4. CASE Learns
  <2>1. CASE op.pc = "pin" /\ op' = [op EXCEPT !.pc = "connect", !.seen = pin]
    BY <1>1, <2>1 DEF Runs, Conditions, Agreed
  <2>2. CASE op.pc = "connect" /\ op' = [op EXCEPT !.pc = "sync", !.base = offered]
    <3>1. offered \in Baselines /\ op.trust.settled # "yes" /\ ~op.approved /\ ~op.already /\ op.trust = NoTrust
      BY <1>1, <2>2 DEF Types, Conditions, NoTrust
    <3> QED
      BY <1>1, <2>2, <3>1 DEF Runs, Conditions, NoTrust
  <2>3. CASE op.pc = "sync" /\ op' = [op EXCEPT !.pc = "validate", !.already = TRUE]
    BY <1>1, <2>3 DEF Runs, Conditions, Agreed
  <2>4. CASE op.pc \in {"sync", "validate"} /\ Challenge
    BY <1>1, <2>4 DEF Challenge, Runs, Conditions, Agreed
  <2>5. CASE /\ op.pc = "trust" /\ op.trust.settled = "yes"
             /\ \E p \in {"pinning", "install"} :
                  op' = [op EXCEPT !.pc = p, !.approved = TRUE, !.trust = NoTrust]
    BY <1>1, <2>5 DEF Runs, Conditions, Agreed, NoTrust
  <2> QED
    BY <1>4, <2>1, <2>2, <2>3, <2>4, <2>5 DEF Learns
<1>5. CASE \E p \in Stages : Goes(p) /\ Onward(p)
  <2>1. PICK p \in Stages : op' = [op EXCEPT !.pc = p] /\ Onward(p)
    BY <1>5 DEF Goes
  <2>2. /\ op'.pc = p /\ op'.base = op.base /\ op'.approved = op.approved /\ op'.already = op.already
        /\ op'.trust = op.trust /\ op'.seen = op.seen
    BY <1>1, <2>1 DEF Runs
  <2>3. Matches /\ op.base \in Baselines => Agreed
    BY <1>1, MatchesMeansAgreed DEF Conditions
  <2> QED
    BY <1>1, <2>1, <2>2, <2>3 DEF Onward, Conditions, Agreed
<1> QED
  BY <1>2, <1>3, <1>4, <1>5, RunMoves

LEMMA RejectedNothing ==
  ASSUME NEW r \in Runs, r.trust.settled # "open"
  PROVE  Reject(r) = r
BY DEF Reject, Runs

LEMMA HandleKeepsAgreements ==
  ASSUME Types, Agreements, Challenges, Handle
  PROVE  Agreements'
<1>1. UNCHANGED <<pin, installed, files, launched, joined, vetted>>
  BY FramesDo DEF diskVars, unityVars, trustVars
<1>2. TrustWasAnswered'
  BY <1>1, TrustMeans, TrustMeansLater DEF Agreements
<1>3. op \in Runs /\ Conditions
  BY AgreementsAre DEF Types
<1>4. Conditions'
  <2>1. CASE UNCHANGED op
    BY <1>1, <1>3, <2>1 DEF Conditions, Agreed
  <2>2. CASE op' = [NoOp EXCEPT !.run = runs, !.pc = "prepare"]
    BY <1>1, <2>2 DEF NoOp, NoTrust, Conditions
  <2>3. CASE /\ Head(inbox).type = "trust" /\ op.trust.id = Head(inbox).id
             /\ op.trust.settled = "open"
             /\ op' = [op EXCEPT !.trust.settled = IF Head(inbox).approved THEN "yes" ELSE "no"]
    <3>1. Head(inbox) = inbox[1] /\ 1 \in 1..Len(inbox)
      BY FramesDo, FrameTaken DEF Types
    <3>2. Head(inbox).approved => op.base \in Baselines /\ Agreed
      BY <2>3, <3>1 DEF Challenges
    <3>3. /\ op'.pc = op.pc /\ op'.base = op.base /\ op'.approved = op.approved
          /\ op'.already = op.already /\ op'.seen = op.seen
          /\ op'.trust.settled = "yes" => Head(inbox).approved
          /\ op.trust # NoTrust
      BY <1>3, <2>3 DEF Runs, NoTrust
    <3> QED
      BY <1>1, <1>3, <3>2, <3>3 DEF Conditions, Agreed
  <2>4. CASE \/ op' = Reject([op EXCEPT !.pause = "asked"])
             \/ op' = [op EXCEPT !.pause = "resumed"]
             \/ op' = Reject([op EXCEPT !.cancelled = TRUE])
    <3>1. /\ op'.pc = op.pc /\ op'.base = op.base /\ op'.approved = op.approved
          /\ op'.already = op.already /\ op'.seen = op.seen
          /\ op'.trust.settled = "yes" => op.trust.settled = "yes"
          /\ op.trust = NoTrust => op'.trust = NoTrust
      <4>1. CASE op' = Reject([op EXCEPT !.pause = "asked"])
        <5>1. [op EXCEPT !.pause = "asked"] \in Runs
          BY <1>3 DEF Runs
        <5>2. op.trust = NoTrust => Reject([op EXCEPT !.pause = "asked"]) = [op EXCEPT !.pause = "asked"]
          BY <1>3, <5>1, RejectedNothing DEF Runs, NoTrust
        <5> QED
          BY <1>3, <4>1, <5>1, <5>2 DEF Reject, Runs
      <4>2. CASE op' = Reject([op EXCEPT !.cancelled = TRUE])
        <5>1. [op EXCEPT !.cancelled = TRUE] \in Runs
          BY <1>3 DEF Runs
        <5>2. op.trust = NoTrust => Reject([op EXCEPT !.cancelled = TRUE]) = [op EXCEPT !.cancelled = TRUE]
          BY <1>3, <5>1, RejectedNothing DEF Runs, NoTrust
        <5> QED
          BY <1>3, <4>2, <5>1, <5>2 DEF Reject, Runs
      <4>3. CASE op' = [op EXCEPT !.pause = "resumed"]
        BY <1>3, <4>3 DEF Runs
      <4> QED
        BY <2>4, <4>1, <4>2, <4>3
    <3> QED
      BY <1>1, <1>3, <3>1 DEF Conditions, Agreed
  <2> QED
    BY <2>1, <2>2, <2>3, <2>4, FramesDo
<1> QED
  BY <1>2, <1>4 DEF Agreements, Conditions

LEMMA OthersKeepAgreements ==
  ASSUME Types, Turns, Deliveries, Agreements, Others
  PROVE  Agreements'
<1> USE DEF launcherVars, bridgeVars, runVars, diskVars, unityVars, trustVars, boundVars
<1>0. /\ UNCHANGED <<pin, installed>> /\ vetted \subseteq vetted' /\ (op' = op \/ op' = NoOp)
      /\ BridgeDies \/ RefreshHandoff \/ OpenUnity \/ UnityJoins \/ UNCHANGED <<files, launched, joined>>
  BY DEF Others, BridgeDies, Receive, InspectionReturns, PauseClick, CancelClick, AnswerChallenge,
         Answered, ValidatedActive, OpenClick, RefreshHandoff, OpenUnity, CloseLauncher, UnityJoins,
         HostPublishes
<1>1. Conditions'
  <2>1. CASE op' = op
    BY <1>0, <2>1, AgreementsAre DEF Conditions, Agreed
  <2>2. CASE op' = NoOp
    BY <2>2 DEF NoOp, NoTrust, Conditions
  <2> QED
    BY <1>0, <2>1, <2>2
<1>2. \A f \in files' \cup launched' \cup joined' : Publisher[f.base] \in vetted
  <2>0. \A f \in files \cup launched \cup joined : Publisher[f.base] \in vetted
    BY TrustMeans DEF Agreements
  <2>1. CASE BridgeDies
    <3>1. \A f \in Stray(files \cap {GuestFile}) : \E g \in files : f.base = g.base
      BY DEF Stray, Types, Handoffs
    <3>2. files' \subseteq files \cup Stray(files \cap {GuestFile})
      BY <2>1 DEF BridgeDies
    <3> QED
      BY <2>0, <2>1, <3>1, <3>2 DEF BridgeDies
  <2>2. CASE RefreshHandoff \/ OpenUnity
    <3>1. ready # NoFile /\ ready \in Handoffs /\ Publisher[ready.base] \in vetted
      BY <2>2 DEF RefreshHandoff, OpenUnity, Turns, Deliveries, Delivered
    <3>2. Fresh.base = ready.base /\ \A f \in Stray({Fresh}) : f.base = ready.base
      BY <3>1 DEF Fresh, Stray, Handoffs
    <3>3. files' \cup launched' \cup joined' \subseteq files \cup launched \cup joined \cup {Fresh} \cup Stray({Fresh})
      BY <2>2 DEF RefreshHandoff, OpenUnity
    <3> QED
      BY <2>0, <3>1, <3>2, <3>3
  <2>3. CASE UnityJoins
    BY <2>0, <2>3 DEF UnityJoins
  <2>4. CASE UNCHANGED <<files, launched, joined>>
    BY <2>0, <2>4
  <2> QED
    BY <1>0, <2>1, <2>2, <2>3, <2>4
<1>3. TrustWasAnswered'
  BY <1>0, <1>2, TrustMeans, TrustMeansLater DEF Agreements
<1> QED
  BY <1>1, <1>3 DEF Agreements, Conditions

-----------------------------------------------------------------------------
(* Every answer finds its own challenge.                                    *)

LEMMA RunKeepsChallenges ==
  ASSUME Types, Agreements, Challenges, RunStep
  PROVE  Challenges'
<1>1. UNCHANGED <<inbox, vetted>> /\ op \in Runs /\ challenges \in Nat
  BY RunEffects DEF Types
<1>2. CASE op.pc \in {"sync", "validate"} /\ Challenge
  <2>1. op.base \in Baselines
    BY <1>2 DEF Agreements
  <2>2. op'.base = op.base /\ op'.trust.id = challenges + 1
    BY <1>1, <1>2 DEF Challenge, Runs
  <2>3. \A c \in asked' : c.id <= challenges' /\ (c.id = op'.trust.id => c.base = op'.base)
    BY <1>1, <1>2, <2>2 DEF Challenge, Challenges, Types
  <2>4. \A i \in 1..Len(inbox) : inbox[i].type = "trust" =>
          /\ inbox[i].id # 0 /\ inbox[i].id <= challenges + 1
          /\ inbox[i].id # op'.trust.id
    <3>1. \A i \in 1..Len(inbox) : inbox[i] \in Frames
      BY DEF Types
    <3>2. \A m \in Frames : m.id \in Nat
      BY DEF Frames
    <3>3. ASSUME NEW i \in 1..Len(inbox), inbox[i].type = "trust"
          PROVE  inbox[i].id \in Nat /\ inbox[i].id # 0 /\ inbox[i].id <= challenges
      BY <3>1, <3>2, <3>3 DEF Challenges
    <3> QED
      BY <1>1, <2>2, <3>3
  <2> QED
    BY <1>1, <1>2, <2>1, <2>2, <2>3, <2>4 DEF Challenges, Challenge
<1>3. CASE UNCHANGED trustVars /\ (op'.trust.id = 0 \/ (op'.trust.id = op.trust.id /\ op'.base = op.base))
  <2>1. \A c \in asked : c.id # 0
    BY DEF Types
  <2> QED
    BY <1>1, <1>3, <2>1 DEF Challenges, Agreed, trustVars
<1>4. CASE ~Challenge
  <2>1. UNCHANGED trustVars
    BY <1>4, RunEffects
  <2>2. op'.trust.id = 0 \/ (op'.trust.id = op.trust.id /\ op'.base = op.base)
    <3>1. CASE Ends
      BY <3>1 DEF Ends, Answers, NoOp, NoTrust
    <3>2. CASE Restarts
      <4>1. CASE \E n \in {"import", "attempt"} : AwaitResume(n)
        BY <1>1, <4>1 DEF AwaitResume, Runs
      <4>2. CASE Attempt
        BY <1>1, <4>2 DEF Attempt, Runs, NoTrust
      <4>3. CASE op' = [op EXCEPT !.pc = "import", !.pause = "no"]
        BY <1>1, <4>3 DEF Runs
      <4>4. CASE op' = [op EXCEPT !.pc = "pin", !.pause = "no", !.base = 0, !.already = FALSE,
                                  !.seen = Nobody, !.approved = FALSE, !.trust = NoTrust]
        BY <1>1, <4>4 DEF Runs, NoTrust
      <4> QED
        BY <3>2, <4>1, <4>2, <4>3, <4>4 DEF Restarts
    <3>3. CASE op.pc = "connect" /\ op' = [op EXCEPT !.pc = "sync", !.base = offered]
      BY <1>1, <3>3 DEF Agreements, Runs, NoTrust
    <3>4. CASE Learns /\ op.pc # "connect"
      <4>1. CASE op' = [op EXCEPT !.pc = "connect", !.seen = pin]
        BY <1>1, <4>1 DEF Runs
      <4>2. CASE op' = [op EXCEPT !.pc = "validate", !.already = TRUE]
        BY <1>1, <4>2 DEF Runs
      <4>3. CASE \E p \in {"pinning", "install"} :
                   op' = [op EXCEPT !.pc = p, !.approved = TRUE, !.trust = NoTrust]
        BY <1>1, <4>3 DEF Runs, NoTrust
      <4> QED
        BY <1>4, <3>4, <4>1, <4>2, <4>3 DEF Learns
    <3>5. CASE \E p \in Stages : Goes(p)
      BY <1>1, <3>5 DEF Goes, Runs
    <3> QED
      BY <3>1, <3>2, <3>3, <3>4, <3>5, RunMoves DEF Learns
  <2> QED
    BY <1>3, <2>1, <2>2
<1> QED
  <2>1. CASE Challenge /\ op.pc \notin {"sync", "validate"}
    <3>1. challenges' = challenges + 1
      BY <2>1 DEF Challenge
    <3> QED
      BY <1>1, <2>1, <3>1, RunEffects DEF trustVars
  <2> QED
    BY <1>2, <1>4, <2>1

LEMMA HandleKeepsChallenges ==
  ASSUME Types, Challenges, Handle
  PROVE  Challenges'
<1>1. /\ UNCHANGED <<asked, challenges, vetted>> /\ inbox' = Tail(inbox)
      /\ op \in Runs /\ inbox \in Seq(Frames) /\ inbox # << >>
  BY FramesDo DEF trustVars, Types
<1>2. op'.trust.id = 0 \/ (op'.trust.id = op.trust.id /\ op'.base = op.base)
  <2>1. CASE op' = [NoOp EXCEPT !.run = runs, !.pc = "prepare"]
    BY <2>1 DEF NoOp, NoTrust
  <2>2. CASE op' = [op EXCEPT !.trust.settled = IF Head(inbox).approved THEN "yes" ELSE "no"]
    BY <1>1, <2>2 DEF Runs
  <2>3. CASE op' = Reject([op EXCEPT !.pause = "asked"])
    BY <1>1, <2>3 DEF Reject, Runs
  <2>4. CASE op' = [op EXCEPT !.pause = "resumed"]
    BY <1>1, <2>4 DEF Runs
  <2>5. CASE op' = Reject([op EXCEPT !.cancelled = TRUE])
    BY <1>1, <2>5 DEF Reject, Runs
  <2> QED
    BY <2>1, <2>2, <2>3, <2>4, <2>5, FramesDo
<1>3. \A i \in 1..Len(inbox') : \E j \in 1..Len(inbox) : inbox'[i] = inbox[j]
  BY <1>1, FrameTaken
<1>4. \A c \in asked : c.id # 0
  BY DEF Types
<1>5. ASSUME NEW i \in 1..Len(inbox'), inbox'[i].type = "trust"
      PROVE  /\ inbox'[i].id # 0 /\ inbox'[i].id <= challenges
             /\ inbox'[i].approved /\ inbox'[i].id = op'.trust.id => Agreed'
  <2>1. PICK j \in 1..Len(inbox) : inbox'[i] = inbox[j]
    BY <1>3
  <2> QED
    BY <1>1, <1>2, <1>5, <2>1 DEF Challenges, Agreed
<1>6. op'.trust.id <= challenges /\ (op'.trust.id # 0 => op'.base \in Baselines)
  BY <1>2 DEF Challenges, Types
<1> QED
  BY <1>1, <1>2, <1>4, <1>5, <1>6 DEF Challenges

LEMMA OthersKeepChallenges ==
  ASSUME Types, Challenges, Others
  PROVE  Challenges'
<1> USE DEF bridgeVars, trustVars, boundVars
<1>0. inbox \in Seq(Frames) /\ \A c \in asked : c.id \in Nat \ {0} /\ c.base \in Baselines
  BY DEF Types
<1>1. CASE AnswerChallenge
  <2>1. PICK c \in asked, approved \in BOOLEAN :
          /\ asked' = asked \ {c}
          /\ vetted' = IF approved THEN vetted \cup {Publisher[c.base]} ELSE vetted
          /\ inbox' = Append(inbox, [type |-> "trust", id |-> c.id, approved |-> approved])
          /\ UNCHANGED <<op, challenges>>
    BY <1>1 DEF AnswerChallenge, Sends
  <2> DEFINE m == [type |-> "trust", id |-> c.id, approved |-> approved]
  <2>2. m \in Frames
    BY <1>0, FrameTypes
  <2>3. \A i \in 1..Len(inbox') : inbox'[i] = m \/ \E j \in 1..Len(inbox) : inbox'[i] = inbox[j]
    BY <1>0, <2>1, <2>2, FrameAdded
  <2>4. /\ m.id # 0 /\ m.id <= challenges
        /\ m.approved /\ m.id = op.trust.id => Publisher[op.base] \in vetted'
    BY <1>0, <2>1 DEF Challenges
  <2>5. vetted \subseteq vetted'
    BY <2>1
  <2> HIDE DEF m
  <2> QED
    BY <2>1, <2>3, <2>4, <2>5 DEF Challenges, Agreed
<1>2. CASE BridgeDies
  BY <1>0, <1>2 DEF BridgeDies, Challenges, NoOp, NoTrust, Types
<1>3. CASE InspectionReturns \/ PauseClick \/ CancelClick \/ CloseLauncher
  <2>1. /\ UNCHANGED <<op, challenges, vetted>> /\ asked' \subseteq asked
        /\ UNCHANGED inbox \/ \E t \in Commands : inbox' = Append(inbox, Frame(t))
    BY <1>3 DEF InspectionReturns, PauseClick, CancelClick, CloseLauncher, Sends, Commands
  <2>2. \A i \in 1..Len(inbox') :
          inbox'[i].type \in Commands \/ \E j \in 1..Len(inbox) : inbox'[i] = inbox[j]
    BY <1>0, <2>1, FrameTypes, FrameAdded
  <2>3. "trust" \notin Commands
    BY DEF Commands
  <2> QED
    BY <2>1, <2>2, <2>3 DEF Challenges, Agreed
<1>4. CASE ~(AnswerChallenge \/ BridgeDies \/ InspectionReturns \/ PauseClick \/ CancelClick \/ CloseLauncher)
  <2>1. UNCHANGED <<op, challenges, vetted, asked, inbox>>
    BY <1>4 DEF Others, Receive, Answered, ValidatedActive, OpenClick, RefreshHandoff, OpenUnity,
                UnityJoins, HostPublishes
  <2> QED
    BY <2>1 DEF Challenges, Agreed
<1> QED
  BY <1>1, <1>2, <1>3, <1>4

-----------------------------------------------------------------------------
(* The theorems.                                                            *)

LEMMA Starts ==
  ASSUME Init
  PROVE  IInv
<1> USE DEF Init
<1>1. Types
  <2>1. NoOp \in Runs
    <3>1. 0 \in Nat
      OBVIOUS
    <3> QED
      BY <3>1, NoRun
  <2>2. pin \in Publishers \cup {Nobody} /\ {pin} \ {Nobody} \subseteq Publishers
    BY Baselined
  <2> QED
    BY <2>1, <2>2, Baselined DEF Types
<1>2. Turns /\ Numbers
  BY DEF Turns, Numbers, Active, NoOp, Starting
<1>3. Deliveries
  BY DEF Deliveries, NoAnswer
<1>4. Agreements
  BY DEF Agreements, TrustWasAnswered, NoOp, NoTrust
<1>5. Challenges
  BY DEF Challenges, NoOp, NoTrust
<1> QED
  BY <1>1, <1>2, <1>3, <1>4, <1>5 DEF IInv

LEMMA Continuing ==
  ASSUME IInv, [Next]_vars
  PROVE  IInv'
<1> USE DEF IInv
<1>1. CASE RunStep
  <2>1. Agreements'
    BY <1>1, RunKeepsConditions, RunKeepsTrust DEF Agreements, Conditions
  <2> QED
    BY <1>1, <2>1, RunKeepsTypes, RunKeepsTurns, RunKeepsNumbers, RunKeepsDeliveries,
       RunKeepsChallenges
<1>2. CASE Handle
  BY <1>2, HandleKeepsTypes, HandleKeepsTurns, HandleKeepsNumbers, HandleKeepsDeliveries,
     HandleKeepsAgreements, HandleKeepsChallenges
<1>3. CASE Others
  BY <1>3, OthersKeepTypes, OthersKeepTurns, OthersKeepNumbers, OthersKeepDeliveries,
     OthersKeepAgreements, OthersKeepChallenges
<1>4. CASE UNCHANGED vars
  BY <1>4 DEF vars, launcherVars, bridgeVars, diskVars, unityVars, trustVars, runVars, boundVars,
              Types, Turns, Numbers, Deliveries, Agreements, Challenges, Active, Starting,
              Delivered, Agreed, TrustWasAnswered
<1> QED
  BY <1>1, <1>2, <1>3, <1>4 DEF Next, Others

\* The invariant of a receive: one at a time under a number of its own, handoffs only
\* where the run still has to answer for them, and publishers agreed to (the guards of
\* guest-orchestrator.mjs and MainWindow, whatever fails or is interrupted).
THEOREM ReceiveInvariant == Spec => []IInv
<1>1. Init => IInv
  BY Starts
<1>2. IInv /\ [Next]_vars => IInv'
  BY Continuing
<1> QED
  BY <1>1, <1>2, PTL DEF Spec

\* Nobody but a receive that was reported complete leaves a handoff that can be opened.
THEOREM SuccessAloneHandsOff == Spec => []OnlySuccessHandsOff
<1>1. IInv => OnlySuccessHandsOff
  <2> SUFFICES ASSUME IInv PROVE OnlySuccessHandsOff
    OBVIOUS
  <2>1. \A f \in files : f.kind # "stray" => f.run \in {op.run} \cup reported
    BY DEF IInv, Types, Deliveries, Handoffs
  <2>2. op.pc = "paused" => \A f \in files : f.kind = "guest" => f.run # op.run
    BY DEF IInv, Deliveries, Numbers, Active
  <2> QED
    BY <2>1, <2>2 DEF IInv, Deliveries, Numbers, OnlySuccessHandsOff
<1> QED
  BY <1>1, ReceiveInvariant, PTL

\* Nothing is installed, pinned, handed off or joined without its publisher's approval.
THEOREM PublishersAreAgreedTo == Spec => []TrustWasAnswered
<1>1. IInv => TrustWasAnswered
  BY DEF IInv, Agreements
<1> QED
  BY <1>1, ReceiveInvariant, PTL

=============================================================================
