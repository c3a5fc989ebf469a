------------------------------- MODULE HostFlow -------------------------------
(***************************************************************************)
(* Starting and stopping a collaboration on the Host's machine: the Unity  *)
(* workflow (TeamForgeHostFlow.cs), the bridge process that serves its     *)
(* requests one at a time (host-orchestrator-cli.mjs), and the             *)
(* orchestrator in it (host-orchestrator.mjs), which owns a Coordinator    *)
(* and one Seed per baseline through the lifecycle manager.  The project   *)
(* is edited, requests time out and processes die while all that happens.  *)
(***************************************************************************)
EXTENDS Naturals, Sequences, SequencesExt

CONSTANTS
    Texts,          \* contents of the saved project
    NoText,
    MaxRevision,    \* bounds on: revisions,
    MaxStarts,      \*   uses of Start Collaboration,
    MaxEdits,       \*   edits of the saved project,
    MaxFaults       \*   timeouts, deaths of processes and failing calls

ASSUME HostFlowAssumption ==
    /\ Texts # {}
    /\ {MaxRevision, MaxStarts, MaxEdits, MaxFaults} \subseteq Nat

VARIABLES
    ui, flow, answers, failures, checking, shown, reviewed,     \* Unity
    confirmed,                                                  \* (history)
    bridge, frames, commit,                                     \* the bridge
    plan, seed, rearm, coordinator, ready,                      \* orchestrator
    server, registry, seeds, linked,                            \* processes
    text, local, published,                                     \* the project
    starts, edits, faults                                       \* bounds

uiVars == <<ui, flow, answers, failures, checking, shown, reviewed, confirmed>>
bridgeVars == <<bridge, frames, commit>>
handles == <<seed, rearm, coordinator>>
orchestratorVars == <<plan, handles, ready>>
processVars == <<server, registry, seeds, linked>>
projectVars == <<text, local, published>>
boundVars == <<starts, edits, faults>>
vars == <<uiVars, bridgeVars, orchestratorVars, processVars, projectVars, boundVars>>

Baselines == [rev : 1..MaxRevision, text : Texts]
NoBaseline == [rev |-> 0, text |-> NoText]
Modes == {"publish", "existing_baseline"}
NoPlan == [mode |-> "none", base |-> NoBaseline, prev |-> NoBaseline]

\* buildLocalPlan: an unchanged source reuses the baseline it was published as.
LocalPlan ==
  IF local # NoBaseline /\ local.text = text
    THEN [mode |-> "existing_baseline", base |-> local, prev |-> local]
    ELSE [mode |-> "publish", base |-> [rev |-> local.rev + 1, text |-> text],
          prev |-> local]

Fault == faults < MaxFaults /\ faults' = faults + 1
NoFault == UNCHANGED faults

\* A Seed that runs and is announced to the Coordinator, whose baseline it serves.
Registered(b) == server # "down" /\ registry = b /\ b \in seeds \cap linked

NoAnswer == [result |-> "none", plan |-> NoPlan]
NoCommit == [step |-> "none", plan |-> NoPlan, base |-> NoBaseline]

Init ==
  /\ ui = "idle" /\ flow = "none" /\ answers = [who \in {"flow", "check"} |-> NoAnswer]
  /\ failures = 0 /\ checking = FALSE
  /\ shown = NoBaseline /\ reviewed = NoPlan /\ confirmed = {}
  /\ bridge = "none" /\ frames = << >> /\ commit = NoCommit
  /\ plan = NoPlan /\ seed = NoBaseline /\ rearm = NoBaseline
  /\ coordinator = "none" /\ ready = NoBaseline
  /\ server \in {"down", "external"} /\ registry = NoBaseline
  /\ seeds = {} /\ linked = {}
  /\ text \in Texts /\ local \in {NoBaseline} \cup [rev : {1}, text : Texts]
  /\ published = {}
  /\ starts = 0 /\ edits = 0 /\ faults = 0

-----------------------------------------------------------------------------
(* Unity.  A frame is a request: who waits for its answer, if anybody still *)
(* does, and the plan it commits.                                           *)

Frame(op, who) == [op |-> op, who |-> who, plan |-> reviewed]

\* SendAsync, with the bridge it starts if there is none that runs.
Send(frame) ==
  /\ bridge' = "running"
  /\ frames' = IF bridge = "running" THEN Append(frames, frame) ELSE <<frame>>

Show(state) == ui' = state
Then(state, next) == Show(state) /\ flow' = next
NeedsAction == Then("needs_action", "none")

StartCollaboration ==
  /\ flow = "none" /\ ui # "ready" /\ starts < MaxStarts
  /\ starts' = starts + 1
  /\ Then("preflighting", "inspect")
  /\ Send(Frame("inspect", "flow"))
  /\ UNCHANGED <<answers, failures, checking, shown, reviewed, confirmed, commit,
                 orchestratorVars, processVars, projectVars, edits, faults>>

\* Dependencies are repaired if the user agrees; the project is set up and saved
\* between the inspection and the plan, unless the user declines a dialog.
Inspected(answer) ==
  /\ UNCHANGED <<shown, reviewed, failures>>
  /\ \/ NeedsAction /\ UNCHANGED <<bridge, frames>>
     \/ /\ answer.result = "idle" /\ Then("preflighting", "plan")
        /\ Send(Frame("planHost", "flow"))
     \/ /\ answer.result = "needs_action" /\ flow = "inspect"
        /\ Then("preflighting", "repair") /\ Send(Frame("repairDependencies", "flow"))

Planned(answer) ==
  /\ UNCHANGED <<shown, failures, bridge, frames>>
  /\ IF answer.result = "awaiting_publish_confirmation"
       THEN Then(answer.result, "review") /\ reviewed' = answer.plan
       ELSE NeedsAction /\ UNCHANGED reviewed

\* A Host that came up is stopped again when its invite, its port or the
\* firewall is not in order.
Committed(answer) ==
  /\ reviewed' = NoPlan
  /\ \/ /\ answer.result # "host_ready" /\ NeedsAction
        /\ UNCHANGED <<shown, failures, bridge, frames>>
     \/ /\ answer.result = "host_ready" /\ Then("starting", "invalid_stop")
        /\ Send(Frame("stop", "flow")) /\ UNCHANGED <<shown, failures>>
     \/ /\ answer.result = "host_ready" /\ Then("ready", "none")
        /\ shown' = answer.plan.base /\ failures' = 0
        /\ UNCHANGED <<bridge, frames>>

Stopped(answer) ==
  /\ UNCHANGED <<bridge, frames, reviewed>>
  /\ IF flow = "stop" /\ answer.result = "idle"
       THEN Then("idle", "none") /\ shown' = NoBaseline /\ failures' = 0
       ELSE NeedsAction /\ UNCHANGED <<shown, failures>>

\* The workflow goes on with the answer to the request it awaits, or with the
\* exception that stands for one (result "error").
FlowResumes ==
  LET answer == answers["flow"] IN
  /\ answer # NoAnswer /\ answers' = [answers EXCEPT !["flow"] = NoAnswer]
  /\ CASE flow \in {"inspect", "repair"} -> Inspected(answer)
       [] flow = "plan" -> Planned(answer)
       [] flow = "commit" -> Committed(answer)
       [] flow \in {"stop", "invalid_stop"} -> Stopped(answer)
  /\ UNCHANGED <<checking, confirmed, commit, orchestratorVars, processVars,
                 projectVars, boundVars>>

Confirm ==
  /\ flow = "review" /\ Then("starting", "commit")
  /\ confirmed' = confirmed \cup {reviewed.base}
  /\ Send(Frame("commitHost", "flow"))
  /\ UNCHANGED <<answers, failures, checking, shown, reviewed, commit,
                 orchestratorVars, processVars, projectVars, boundVars>>

Decline ==
  /\ flow = "review" /\ Then("idle", "none") /\ reviewed' = NoPlan
  /\ UNCHANGED <<answers, failures, checking, shown, confirmed, bridgeVars,
                 orchestratorVars, processVars, projectVars, boundVars>>

StopCollaboration ==
  /\ flow = "none" /\ bridge # "none"
  /\ Then("stopping", "stop") /\ Send(Frame("stop", "flow"))
  /\ UNCHANGED <<answers, failures, checking, shown, reviewed, confirmed, commit,
                 orchestratorVars, processVars, projectVars, boundVars>>

\* Ready is taken back by the second check in a row that fails ...
RevokeStaleReady ==
  IF ui = "ready" THEN Show("needs_action") /\ shown' = NoBaseline
                  ELSE UNCHANGED <<ui, shown>>

(* (mutant) a check that fails starts the count of failures again *)
HealthAnswered_Forgets(healthy) ==
  /\ checking' = FALSE
  /\ failures' = 0
  /\ IF ~healthy /\ failures >= 1 THEN RevokeStaleReady ELSE UNCHANGED <<ui, shown>>

HealthAnswered(healthy) ==
  /\ checking' = FALSE
  /\ failures' = IF healthy THEN 0 ELSE IF failures < 2 THEN failures + 1 ELSE 2
  /\ IF ~healthy /\ failures >= 1 THEN RevokeStaleReady ELSE UNCHANGED <<ui, shown>>

CheckResumes ==
  LET answer == answers["check"] IN
  /\ answer # NoAnswer /\ answers' = [answers EXCEPT !["check"] = NoAnswer]
  /\ HealthAnswered(answer.result = "host_ready" /\ answer.plan.base.rev = shown.rev)
  /\ UNCHANGED <<flow, reviewed, confirmed, bridgeVars, orchestratorVars,
                 processVars, projectVars, boundVars>>

\* ... or because the bridge is gone.
MarkUnexpectedBridgeExit ==
  /\ bridge = "exited" /\ ui = "ready"
  /\ bridge' = "none" /\ Show("needs_action") /\ shown' = NoBaseline
  /\ UNCHANGED <<flow, answers, failures, checking, reviewed, confirmed, frames,
                 commit, orchestratorVars, processVars, projectVars, boundVars>>

PollHostHealth ==
  /\ ui = "ready" /\ bridge = "running" /\ flow = "none" /\ ~checking
  /\ checking' = TRUE /\ Send(Frame("health", "check"))
  /\ UNCHANGED <<ui, flow, answers, failures, shown, reviewed, confirmed, commit,
                 orchestratorVars, processVars, projectVars, boundVars>>

\* Whoever waits stops waiting; the request stays where it is.
Awaited(who) == \E i \in DOMAIN frames : frames[i].who = who
Abandon(who) ==
  frames' = [i \in DOMAIN frames |->
               IF frames[i].who = who THEN [frames[i] EXCEPT !.who = "nobody"]
                                      ELSE frames[i]]

FlowTimesOut ==
  /\ Fault /\ Awaited("flow") /\ Abandon("flow") /\ NeedsAction
  /\ reviewed' = NoPlan
  /\ UNCHANGED <<answers, failures, checking, shown, confirmed, bridge, commit,
                 orchestratorVars, processVars, projectVars, starts, edits>>

CheckTimesOut ==
  /\ Fault /\ Awaited("check") /\ Abandon("check") /\ HealthAnswered(FALSE)
  /\ UNCHANGED <<flow, answers, reviewed, confirmed, bridge, commit,
                 orchestratorVars, processVars, projectVars, starts, edits>>

-----------------------------------------------------------------------------
(* The bridge serves the first frame; its answer goes to whoever still      *)
(* waits for it.                                                            *)

(* (mutant) a new request does not wait for the ones before it *)
Serving_Newest == Len(frames)

Serving == 1

Serves(op) ==
  /\ bridge = "running" /\ frames # << >>
  /\ frames # << >> => frames[Serving].op = op

Reply(answer) ==
  LET who == frames[Serving].who IN
  /\ frames' = RemoveAt(frames, Serving)
  /\ answers' = IF who = "nobody" THEN answers ELSE [answers EXCEPT ![who] = answer]
  /\ UNCHANGED <<ui, flow, failures, checking, shown, reviewed, confirmed, bridge>>

Says(outcome) == Reply([result |-> outcome, plan |-> NoPlan])

Inspect ==
  /\ Serves("inspect") \/ Serves("repairDependencies")
  /\ \E outcome \in {"idle", "needs_action"} : Says(outcome)
  /\ UNCHANGED <<commit, orchestratorVars, processVars, projectVars, boundVars>>

PlanHost ==
  /\ Serves("planHost") /\ commit = NoCommit
  /\ \/ /\ LocalPlan.base.rev <= MaxRevision /\ plan' = LocalPlan
        /\ Reply([result |-> "awaiting_publish_confirmation", plan |-> LocalPlan])
     \/ Says("needs_action") /\ UNCHANGED plan
  /\ UNCHANGED <<commit, handles, ready, processVars, projectVars, boundVars>>

-----------------------------------------------------------------------------
(* commitHost, from await to await.                                         *)

Step(s) == commit.step = s
GoTo(s) == commit' = [commit EXCEPT !.step = s]
Unwinds == GoTo("unwind")
Within == UNCHANGED <<uiVars, bridge, frames, starts, edits>>

\* Exactly the plan that was reviewed, and only once.
CommitHost ==
  /\ Serves("commitHost") /\ Step("none")
  /\ IF plan = frames[Serving].plan /\ plan # NoPlan
       THEN /\ commit' = [step |-> "coordinator", plan |-> plan, base |-> NoBaseline]
            /\ plan' = NoPlan /\ UNCHANGED <<uiVars, bridge, frames>>
       ELSE Says("needs_action") /\ UNCHANGED <<commit, plan>>
  /\ UNCHANGED <<handles, ready, processVars, projectVars, boundVars>>

EnsureCoordinator ==
  /\ Step("coordinator")
  /\ \/ /\ GoTo("read") /\ NoFault
        /\ server' = IF server = "down" THEN "owned" ELSE server
        /\ coordinator' = server'
     \/ Fault /\ Unwinds /\ UNCHANGED <<server, coordinator>>
  /\ UNCHANGED <<plan, seed, rearm, ready, registry, seeds, linked, projectVars>> /\ Within

\* The baseline of the registry; an empty one is rebuilt from the last approved.
ReadBaseline ==
  /\ Step("read")
  /\ commit' = [commit EXCEPT
        !.base = registry,
        !.step = CASE server = "down" -> "unwind"
                   [] server # "down" /\ registry = NoBaseline
                        /\ commit.plan.prev # NoBaseline -> "rearm"
                   [] OTHER -> commit.plan.mode]
  /\ UNCHANGED <<orchestratorVars, processVars, projectVars, boundVars,
                 uiVars, bridge, frames>>

\* A Seed that runs is used again; a new one announces its baseline, which a
\* Coordinator accepts when it has none or the same.
EnsureSeed(b) ==
  \/ b \in seeds /\ UNCHANGED <<seeds, linked, registry>>
  \/ /\ b \notin seeds /\ server # "down" /\ registry \in {NoBaseline, b}
     /\ seeds' = seeds \cup {b} /\ linked' = linked \cup {b} /\ registry' = b

Rearm ==
  /\ Step("rearm")
  /\ \/ /\ EnsureSeed(commit.plan.prev) /\ rearm' = commit.plan.prev
        /\ GoTo("rearmed")
     \/ Unwinds /\ UNCHANGED <<rearm, seeds, linked, registry>>
  /\ UNCHANGED <<plan, seed, coordinator, ready, server, projectVars, faults>> /\ Within

VerifyRearmed ==
  /\ Step("rearmed")
  /\ commit' = [commit EXCEPT
        !.base = registry,
        !.step = IF server # "down" /\ registry = commit.plan.prev
                   THEN commit.plan.mode ELSE "unwind"]
  /\ UNCHANGED <<orchestratorVars, processVars, projectVars, boundVars,
                 uiVars, bridge, frames>>

\* The source must still be what was reviewed, and the Coordinator must have it.
StartExisting ==
  LET base == commit.plan.base IN
  /\ Step("existing_baseline")
  /\ \/ /\ LocalPlan = commit.plan /\ commit.base = base
        /\ IF rearm # NoBaseline THEN UNCHANGED <<seeds, linked, registry>>
                                 ELSE EnsureSeed(base)
        /\ seed' = (IF rearm # NoBaseline THEN rearm ELSE base)
        /\ rearm' = NoBaseline /\ GoTo("verify")
     \/ Unwinds /\ UNCHANGED <<seed, rearm, seeds, linked, registry>>
  /\ UNCHANGED <<plan, coordinator, ready, server, projectVars, faults>> /\ Within

\* The Seed of the last baseline gives up its port before the next is published.
RetireRearmed ==
  /\ Step("publish") /\ rearm # NoBaseline
  /\ \/ /\ seeds' = seeds \ {rearm} /\ linked' = linked \ {rearm}
        /\ rearm' = NoBaseline /\ UNCHANGED commit /\ NoFault
     \/ Fault /\ Unwinds /\ UNCHANGED <<rearm, seeds, linked>>
  /\ UNCHANGED <<plan, seed, coordinator, ready, server, registry, projectVars>> /\ Within

(* (mutant) the review of the child is confirmed whatever it says *)
SameReview_Always == TRUE

\* The child makes its own plan; its fingerprint must be that of the review.
SameReview == LocalPlan = commit.plan

\* The child publishes on the baseline it finds, and fails without or with the
\* Coordinator having accepted, or serves.
PublishSeed ==
  LET base == LocalPlan.base IN
  /\ Step("publish") /\ rearm = NoBaseline
  /\ \/ /\ SameReview /\ LocalPlan.mode = "publish" /\ base.rev <= MaxRevision
        /\ server # "down" /\ registry = local /\ base \notin seeds
        /\ registry' = base /\ published' = published \cup {base}
        /\ \/ /\ local' = base /\ NoFault
              /\ seeds' = seeds \cup {base} /\ linked' = linked \cup {base}
              /\ seed' = base /\ GoTo("verify")
           \/ /\ Fault /\ local' \in {local, base} /\ Unwinds
              /\ UNCHANGED <<seed, seeds, linked>>
     \/ Unwinds /\ UNCHANGED <<seed, registry, seeds, linked, local, published, faults>>
  /\ UNCHANGED <<plan, rearm, coordinator, ready, server, text>> /\ Within

VerifyRegistration ==
  /\ Step("verify")
  /\ IF registry = commit.plan.base /\ Registered(seed) THEN GoTo("ready") ELSE Unwinds
  /\ UNCHANGED <<orchestratorVars, processVars, projectVars, boundVars,
                 uiVars, bridge, frames>>

HostReady ==
  /\ Step("ready")
  /\ \/ /\ ready' = commit.plan.base /\ commit' = NoCommit /\ NoFault
        /\ Reply([result |-> "host_ready", plan |-> commit.plan])
     \/ Fault /\ Unwinds /\ UNCHANGED <<ready, uiVars, frames>>
  /\ UNCHANGED <<plan, handles, processVars, projectVars, bridge, starts, edits>>

\* What the handles name is stopped; a failing stop leaves some of it running.
Handles == {seed, rearm} \ {NoBaseline}
StopAll(gone, withCoordinator) ==
  /\ seeds' = seeds \ gone
  /\ IF withCoordinator /\ coordinator = "owned" /\ server = "owned"
       THEN server' = "down" /\ registry' = NoBaseline /\ linked' = {}
       ELSE linked' = linked \ gone /\ UNCHANGED <<server, registry>>
StopSome == \E gone \in SUBSET Handles, withCoordinator \in BOOLEAN : StopAll(gone, withCoordinator)
DropHandles ==
  /\ seed' = NoBaseline /\ rearm' = NoBaseline /\ coordinator' = "none"
  /\ ready' = NoBaseline

\* The catch: errors of the stops are swallowed, the handles go.
Unwind ==
  /\ Step("unwind")
  /\ \/ StopAll(Handles, TRUE) /\ NoFault
     \/ Fault /\ StopSome
  /\ DropHandles /\ commit' = NoCommit /\ Says("needs_action")
  /\ UNCHANGED <<plan, projectVars, starts, edits>>

-----------------------------------------------------------------------------

Health ==
  /\ Serves("health") /\ commit = NoCommit
  /\ IF ready # NoBaseline /\ Registered(seed) /\ registry = ready
       THEN Reply([result |-> "host_ready", plan |-> [NoPlan EXCEPT !.base = ready]])
       ELSE Says("needs_action")
  /\ UNCHANGED <<commit, orchestratorVars, processVars, projectVars, boundVars>>

\* stop: a stop that throws keeps the handles.
StopHost ==
  /\ Serves("stop") /\ commit = NoCommit
  /\ \/ StopAll(Handles, TRUE) /\ DropHandles /\ Says("idle") /\ NoFault
     \/ /\ Fault /\ StopSome
        /\ Says("needs_action") /\ UNCHANGED <<handles, ready>>
  /\ UNCHANGED <<commit, plan, projectVars, starts, edits>>

-----------------------------------------------------------------------------
(* The world.                                                               *)

\* The children of a bridge that exits stop; whoever waits gets an exception.
BridgeExits ==
  /\ bridge = "running" /\ Fault /\ bridge' = "exited"
  /\ frames' = << >> /\ commit' = NoCommit /\ plan' = NoPlan
  /\ answers' = [who \in DOMAIN answers |->
        IF Awaited(who) THEN [result |-> "error", plan |-> NoPlan] ELSE answers[who]]
  /\ DropHandles /\ seeds' = {} /\ linked' = {}
  /\ IF server = "owned" THEN server' = "down" /\ registry' = NoBaseline
                         ELSE UNCHANGED <<server, registry>>
  /\ UNCHANGED <<ui, flow, failures, checking, shown, reviewed, confirmed,
                 projectVars, starts, edits>>

CoordinatorExits ==
  /\ server # "down" /\ Fault
  /\ server' = "down" /\ registry' = NoBaseline /\ linked' = {}
  /\ UNCHANGED <<uiVars, bridgeVars, orchestratorVars, seeds, projectVars, starts, edits>>

SeedExits ==
  /\ Fault /\ \E b \in seeds : seeds' = seeds \ {b} /\ linked' = linked \ {b}
  /\ UNCHANGED <<uiVars, bridgeVars, orchestratorVars, server, registry, projectVars,
                 starts, edits>>

SeedLosesLink ==
  /\ Fault /\ \E b \in linked : linked' = linked \ {b}
  /\ UNCHANGED <<uiVars, bridgeVars, orchestratorVars, server, registry, seeds,
                 projectVars, starts, edits>>

SeedReconnects ==
  /\ server # "down"
  /\ \E b \in seeds \ linked :
        /\ registry \in {NoBaseline, b} /\ registry' = b /\ linked' = linked \cup {b}
  /\ UNCHANGED <<uiVars, bridgeVars, orchestratorVars, server, seeds, projectVars,
                 boundVars>>

EditSource ==
  /\ edits < MaxEdits /\ edits' = edits + 1
  /\ text' \in Texts \ {text}
  /\ UNCHANGED <<uiVars, bridgeVars, orchestratorVars, processVars, local, published,
                 starts, faults>>

UnityStep ==
  \/ FlowResumes \/ CheckResumes \/ PollHostHealth \/ MarkUnexpectedBridgeExit

CommitStep ==
  \/ EnsureCoordinator \/ ReadBaseline \/ Rearm \/ VerifyRearmed \/ StartExisting
  \/ RetireRearmed \/ PublishSeed \/ VerifyRegistration \/ HostReady \/ Unwind

BridgeStep ==
  Inspect \/ PlanHost \/ CommitHost \/ CommitStep \/ Health \/ StopHost

UserStep == StartCollaboration \/ Confirm \/ Decline \/ StopCollaboration

WorldStep ==
  \/ FlowTimesOut \/ CheckTimesOut \/ BridgeExits \/ CoordinatorExits \/ SeedExits
  \/ SeedLosesLink \/ SeedReconnects \/ EditSource

Next == UnityStep \/ BridgeStep \/ UserStep \/ WorldStep

\* The editor's update loop and the bridge go on; nobody has to press a button.
Fairness == WF_vars(UnityStep) /\ WF_vars(BridgeStep)

Spec == Init /\ [][Next]_vars /\ Fairness

-----------------------------------------------------------------------------
(* Properties.                                                              *)

\* A baseline this Host published is one that was shown to the user and
\* confirmed (PublishReviewText: "Publish & Start is an explicit approval of
\* this exact saved-source fingerprint"), whatever was edited, restarted or
\* abandoned between the review and the publication.
PublishedWasReviewed == published \subseteq confirmed

\* While Unity shows Host Ready on a bridge that runs, the orchestrator is ready
\* with that same baseline, holds the Seed of it, and the user confirmed it: no
\* answer to, and no effect of, a request Unity gave up on gets in between.
ReadyIsCurrent ==
  ui = "ready" /\ bridge = "running" => ready = shown /\ seed = shown /\ shown \in confirmed

=============================================================================
