------------------------------ MODULE HostProofs ------------------------------
(***************************************************************************)
(* The two machines of a Host.  First the bridge and the window, however    *)
(* the user, edits, timeouts and exits interleave with a publication: what  *)
(* is published was confirmed, and Host Ready is current.  Then the         *)
(* children the bridge owns, however many starts and stops interleave and   *)
(* however the children answer, hang or die: no child is lost, a reuse key  *)
(* leads to a started record, a stop wins, and who shares a stop is served. *)
(***************************************************************************)
EXTENDS HostFlow, ProcessLifecycle, SequenceTheorems, TLAPS

-----------------------------------------------------------------------------
(* The inductive invariant.                                                 *)

AnyBaseline == [rev : Nat, text : Texts \cup {NoText}]
RealPlans == [mode : Modes, base : AnyBaseline, prev : AnyBaseline]
Plans == [mode : Modes \cup {"none"}, base : AnyBaseline, prev : AnyBaseline]
Operations == {"inspect", "repairDependencies", "planHost", "commitHost", "health", "stop"}
Requests == [op : Operations, who : {"flow", "check", "nobody"}, plan : Plans]
HostAnswers == {"none", "error", "idle", "needs_action", "awaiting_publish_confirmation", "host_ready"}
Replies == [result : HostAnswers, plan : Plans]
Steps == {"none", "coordinator", "read", "rearm", "rearmed", "verify", "ready", "unwind"} \cup Modes

Types ==
  /\ frames \in Seq(Requests) /\ answers \in [{"flow", "check"} -> Replies]
  /\ commit \in [step : Steps, plan : Plans, base : AnyBaseline]
  /\ plan \in RealPlans \cup {NoPlan} /\ reviewed \in Plans
  /\ flow \in {"none", "inspect", "repair", "plan", "review", "commit", "stop", "invalid_stop"}
  /\ registry \in AnyBaseline /\ local \in AnyBaseline /\ seeds \subseteq AnyBaseline
  /\ shown \in AnyBaseline /\ ready \in AnyBaseline /\ seed \in AnyBaseline /\ rearm \in AnyBaseline
  /\ text \in Texts

\* A commit under way is what the bridge serves, and it came from a real plan.
Committing ==
  /\ bridge # "running" => frames = << >> /\ commit = NoCommit
  /\ commit.step = "none" => commit = NoCommit
  /\ commit.step # "none" =>
       frames # << >> /\ frames[1].op = "commitHost" /\ commit.plan.mode \in Modes
  /\ commit.step = "ready" => seed = commit.plan.base

\* What may be published was confirmed, wherever the plan is on its way.
Reviews ==
  /\ PublishedWasReviewed
  /\ \A i \in 1..Len(frames) : frames[i].op = "commitHost" => frames[i].plan.base \in confirmed
  /\ commit.step # "none" => commit.plan.base \in confirmed

\* The workflow waits for one answer, that of its last request; it is not told that the
\* Host is ready, and does not show it, unless that is so and nothing that could change
\* it is waiting to be served.
Current(b) == ready = b /\ seed = b /\ b \in confirmed /\ commit = NoCommit
Waiting ==
  /\ \A i \in 1..Len(frames) :
       /\ frames[i].who = "flow" =>
            /\ i = Len(frames) /\ answers["flow"] = NoAnswer
            /\ flow \notin {"none", "review"}
            /\ frames[i].op = "commitHost" <=> flow = "commit"
       /\ frames[i].op = "health" => frames[i].who # "flow"
       /\ frames[i].who = "check" => frames[i].op = "health"
  /\ answers["flow"] # NoAnswer => flow \notin {"none", "review"}
  /\ answers["flow"].result = "host_ready" =>
       /\ flow = "commit"
       /\ bridge = "running" => frames = << >> /\ Current(answers["flow"].plan.base)
  /\ ui = "ready" =>
       /\ flow = "none"
       /\ bridge = "running" =>
            Current(shown) /\ \A i \in 1..Len(frames) : frames[i].op = "health"

IInv == Types /\ Committing /\ Reviews /\ Waiting

-----------------------------------------------------------------------------
(* Lemmas about the data.                                                   *)

\* What is left of the queue when its first request has been served ...
LEMMA FirstServed ==
  ASSUME NEW q \in Seq(Requests), q # << >>
  PROVE  /\ RemoveAt(q, 1) \in Seq(Requests) /\ Len(RemoveAt(q, 1)) = Len(q) - 1
         /\ q[1] \in Requests
         /\ \A i \in 1..Len(RemoveAt(q, 1)) : i + 1 \in 1..Len(q) /\ RemoveAt(q, 1)[i] = q[i + 1]
<1>1. RemoveAt(q, 1) = Tail(q)
  <2>1. SubSeq(q, 1, 0) = << >> /\ SubSeq(q, 2, Len(q)) = Tail(q)
    OBVIOUS
  <2> QED
    BY <2>1 DEF RemoveAt
<1> QED
  BY <1>1

\* ... and when one is added.
LEMMA RequestAdded ==
  ASSUME NEW q \in Seq(Requests), NEW m \in Requests
  PROVE  /\ Append(q, m) \in Seq(Requests) /\ Len(Append(q, m)) = Len(q) + 1
         /\ \A i \in 1..Len(Append(q, m)) :
              \/ i \in 1..Len(q) /\ Append(q, m)[i] = q[i]
              \/ i = Len(q) + 1 /\ Append(q, m)[i] = m
OBVIOUS

LEMMA Blank == /\ NoBaseline \in AnyBaseline /\ NoPlan \in Plans /\ RealPlans \subseteq Plans
               /\ NoAnswer \in Replies
               /\ NoCommit \in [step : Steps, plan : Plans, base : AnyBaseline]
BY DEF NoBaseline, AnyBaseline, NoPlan, Plans, RealPlans, NoAnswer, Replies, HostAnswers, NoCommit, Steps

LEMMA PlansAreReal ==
  ASSUME Types
  PROVE  LocalPlan \in RealPlans
<1>1. local.rev + 1 \in Nat /\ local \in AnyBaseline /\ text \in Texts
  BY DEF Types, AnyBaseline
<1>2. [rev |-> local.rev + 1, text |-> text] \in AnyBaseline
  BY <1>1 DEF AnyBaseline
<1> QED
  BY <1>1, <1>2 DEF LocalPlan, RealPlans, Modes

LEMMA SaysReplies ==
  /\ \A r \in HostAnswers, p \in Plans : [result |-> r, plan |-> p] \in Replies
  /\ NoPlan \in Plans
BY Blank DEF Replies

-----------------------------------------------------------------------------
(* The commit, from await to await.                                         *)

Proceeds ==
  \/ EnsureCoordinator \/ ReadBaseline \/ Rearm \/ VerifyRearmed \/ StartExisting
  \/ RetireRearmed \/ PublishSeed \/ VerifyRegistration

LEMMA Proceeding ==
  ASSUME Types, Committing, Proceeds
  PROVE  /\ UNCHANGED <<uiVars, bridge, frames, plan, ready, text>>
         /\ commit.step # "none" /\ commit'.step \in Steps \ {"none"}
         /\ commit'.plan = commit.plan
         /\ commit' \in [step : Steps, plan : Plans, base : AnyBaseline]
         /\ commit'.step = "ready" => seed' = commit.plan.base
         /\ published' \subseteq published \cup {commit.plan.base}
<1> USE DEF Step, GoTo, Unwinds, Within, orchestratorVars, handles, processVars, projectVars
<1>0. /\ commit \in [step : Steps, plan : Plans, base : AnyBaseline]
      /\ registry \in AnyBaseline
  BY DEF Types
<1>m. commit.step # "none" => commit.plan.mode \in Modes
  BY DEF Committing
<1>s. /\ {"coordinator", "read", "rearm", "rearmed", "verify", "ready", "unwind"} \subseteq Steps \ {"none"}
      /\ Modes \subseteq Steps \ {"none", "ready"}
  BY DEF Steps, Modes
<1>1. CASE EnsureCoordinator
  BY <1>0, <1>s, <1>1 DEF EnsureCoordinator
<1>2. CASE ReadBaseline
  BY <1>0, <1>m, <1>s, <1>2 DEF ReadBaseline
<1>3. CASE Rearm
  BY <1>0, <1>s, <1>3 DEF Rearm
<1>4. CASE VerifyRearmed
  BY <1>0, <1>m, <1>s, <1>4 DEF VerifyRearmed
<1>5. CASE StartExisting
  BY <1>0, <1>s, <1>5 DEF StartExisting
<1>6. CASE RetireRearmed
  BY <1>0, <1>s, <1>6 DEF RetireRearmed, Modes
<1>7. CASE PublishSeed
  BY <1>0, <1>s, <1>7 DEF PublishSeed, SameReview, Modes
<1>8. CASE VerifyRegistration
  BY <1>0, <1>s, <1>8 DEF VerifyRegistration, Registered
<1> QED
  BY <1>1, <1>2, <1>3, <1>4, <1>5, <1>6, <1>7, <1>8 DEF Proceeds

LEMMA ProceedingKeepsTypes ==
  ASSUME Types, Committing, Proceeds
  PROVE  Types'
<1> USE DEF Types, Step, GoTo, Unwinds, Within, uiVars, orchestratorVars, handles, processVars, projectVars
<1>0. /\ UNCHANGED <<uiVars, bridge, frames, plan, ready, text>>
      /\ commit' \in [step : Steps, plan : Plans, base : AnyBaseline]
  BY Proceeding
<1>p. commit.plan.base \in AnyBaseline /\ commit.plan.prev \in AnyBaseline /\ LocalPlan.base \in AnyBaseline
  BY PlansAreReal DEF Plans, RealPlans
<1>n. NoBaseline \in AnyBaseline
  BY Blank
<1>q. /\ registry' \in AnyBaseline /\ local' \in AnyBaseline /\ seeds' \subseteq AnyBaseline
      /\ seed' \in AnyBaseline /\ rearm' \in AnyBaseline
  <2>1. CASE EnsureCoordinator
    BY <2>1 DEF EnsureCoordinator
  <2>2. CASE ReadBaseline
    BY <2>2 DEF ReadBaseline
  <2>3. CASE Rearm
    BY <1>p, <2>3 DEF Rearm, EnsureSeed
  <2>4. CASE VerifyRearmed
    BY <2>4 DEF VerifyRearmed
  <2>5. CASE StartExisting
    BY <1>p, <1>n, <2>5 DEF StartExisting, EnsureSeed
  <2>6. CASE RetireRearmed
    BY <1>n, <2>6 DEF RetireRearmed
  <2>7. CASE PublishSeed
    BY <1>p, <2>7 DEF PublishSeed
  <2>8. CASE VerifyRegistration
    BY <2>8 DEF VerifyRegistration
  <2> QED
    BY <2>1, <2>2, <2>3, <2>4, <2>5, <2>6, <2>7, <2>8 DEF Proceeds
<1> QED
  BY <1>0, <1>q

LEMMA ProceedingKeepsTheRest ==
  ASSUME Types, Committing, Reviews, Waiting, Proceeds
  PROVE  Committing' /\ Reviews' /\ Waiting'
<1>1. /\ UNCHANGED <<uiVars, bridge, frames, plan, ready, text>>
      /\ commit.step # "none" /\ commit'.step \in Steps \ {"none"}
      /\ commit'.plan = commit.plan
      /\ commit'.step = "ready" => seed' = commit.plan.base
      /\ published' \subseteq published \cup {commit.plan.base}
  BY Proceeding
<1>2. bridge = "running" /\ frames # << >> /\ commit # NoCommit
  BY <1>1 DEF Committing, NoCommit
<1>3. Committing'
  BY <1>1, <1>2 DEF Committing
<1>4. Reviews'
  BY <1>1 DEF Reviews, PublishedWasReviewed, uiVars
<1>5. ui # "ready" /\ answers["flow"].result # "host_ready"
  <2>1. 1 \in 1..Len(frames) /\ frames[1].op = "commitHost"
    BY <1>1, <1>2 DEF Committing, Types
  <2> QED
    BY <1>2, <2>1 DEF Waiting, Current
<1>6. Waiting'
  BY <1>1, <1>5 DEF Waiting, uiVars
<1> QED
  BY <1>3, <1>4, <1>6

-----------------------------------------------------------------------------
(* An answer: the first request leaves the queue.                           *)

LEMMA Replying ==
  ASSUME Types, NEW answer \in Replies, Reply(answer), frames # << >>
  PROVE  /\ UNCHANGED <<ui, flow, shown, reviewed, confirmed, bridge>>
         /\ frames' \in Seq(Requests) /\ answers' \in [{"flow", "check"} -> Replies]
         /\ frames[1] \in Requests /\ 1 \in 1..Len(frames) /\ Len(frames') = Len(frames) - 1
         /\ \A i \in 1..Len(frames') : i + 1 \in 1..Len(frames) /\ frames'[i] = frames[i + 1]
         /\ answers'["flow"] = IF frames[1].who = "flow" THEN answer ELSE answers["flow"]
<1>1. /\ UNCHANGED <<ui, flow, shown, reviewed, confirmed, bridge>>
      /\ frames' = RemoveAt(frames, 1)
  BY DEF Reply, Serving
<1>2. frames \in Seq(Requests) /\ frames[1] \in Requests /\ 1 \in 1..Len(frames)
  BY DEF Types
<1>3. /\ answers' = IF frames[1].who = "nobody" THEN answers
                    ELSE [answers EXCEPT ![frames[1].who] = answer]
      /\ frames[1].who \in {"flow", "check", "nobody"}
  BY <1>2 DEF Reply, Serving, Requests
<1>4. answers \in [{"flow", "check"} -> Replies]
  BY DEF Types
<1>5. /\ answers' \in [{"flow", "check"} -> Replies]
      /\ answers'["flow"] = IF frames[1].who = "flow" THEN answer ELSE answers["flow"]
  BY <1>3, <1>4
<1> QED
  BY <1>1, <1>2, <1>5, FirstServed

LEMMA ReplyKeepsWaiting ==
  ASSUME Types, Waiting, NEW answer \in Replies, Reply(answer), frames # << >>, bridge = "running",
         answer.result = "host_ready" /\ frames[1].who = "flow" =>
           /\ frames[1].op = "commitHost" /\ ready' = answer.plan.base
           /\ seed' = answer.plan.base /\ answer.plan.base \in confirmed /\ commit' = NoCommit,
         frames[1].op = "health" => UNCHANGED <<ready, seed, commit>>
  PROVE  Waiting'
<1>1. /\ UNCHANGED <<ui, flow, shown, confirmed, bridge>>
      /\ frames \in Seq(Requests) /\ frames' \in Seq(Requests)
      /\ 1 \in 1..Len(frames) /\ Len(frames') = Len(frames) - 1 /\ Len(frames) \in Nat
      /\ \A i \in 1..Len(frames') : i + 1 \in 1..Len(frames) /\ frames'[i] = frames[i + 1]
      /\ answers'["flow"] = IF frames[1].who = "flow" THEN answer ELSE answers["flow"]
  BY Replying DEF Types
<1>2. CASE frames[1].who = "flow"
  <2>1. /\ Len(frames) = 1 /\ flow \notin {"none", "review"} /\ frames[1].op # "health"
        /\ frames[1].op = "commitHost" <=> flow = "commit"
    BY <1>1, <1>2 DEF Waiting
  <2>2. Len(frames') = 0 /\ frames' = << >>
    BY <1>1, <2>1
  <2>3. ui # "ready"
    BY <2>1 DEF Waiting
  <2>4. answer.result = "host_ready" => flow = "commit" /\ Current(answer.plan.base)'
    BY <1>1, <1>2, <2>1 DEF Current
  <2>5. \A i \in 1..Len(frames') : FALSE
    BY <2>2
  <2>6. answers'["flow"] = answer
    BY <1>1, <1>2
  <2>7. answers'["flow"].result = "host_ready" => Current(answers["flow"].plan.base)'
    BY <2>4, <2>6 DEF Current
  <2> QED
    BY <1>1, <2>1, <2>2, <2>3, <2>4, <2>5, <2>6, <2>7 DEF Waiting
<1>3. CASE frames[1].who # "flow"
  <2>1. answers'["flow"] = answers["flow"] /\ answers["flow"].result # "host_ready"
    BY <1>1, <1>3 DEF Waiting
  <2>2. ASSUME NEW i \in 1..Len(frames')
        PROVE  /\ frames'[i].who = "flow" =>
                    /\ i = Len(frames') /\ answers["flow"] = NoAnswer
                    /\ flow \notin {"none", "review"}
                    /\ frames'[i].op = "commitHost" <=> flow = "commit"
               /\ frames'[i].op = "health" => frames'[i].who # "flow"
               /\ frames'[i].who = "check" => frames'[i].op = "health"
               /\ ui = "ready" => frames'[i].op = "health"
    <3>1. i + 1 \in 1..Len(frames) /\ frames'[i] = frames[i + 1]
      BY <1>1
    <3>2. i + 1 = Len(frames) => i = Len(frames')
      BY <1>1
    <3> QED
      BY <3>1, <3>2 DEF Waiting
  <2>3. ui = "ready" => Current(shown)'
    <3>1. ui = "ready" => Current(shown) /\ frames[1].op = "health"
      BY <1>1 DEF Waiting
    <3> QED
      BY <1>1, <3>1 DEF Current
  <2>4. Current(shown)' <=> (ready' = shown /\ seed' = shown /\ shown \in confirmed /\ commit' = NoCommit)
    BY <1>1 DEF Current
  <2> QED
    BY <1>1, <2>1, <2>2, <2>3 DEF Waiting
<1> QED
  BY <1>2, <1>3

LEMMA ReplyKeepsTheRest ==
  ASSUME Types, Committing, Reviews, NEW answer \in Replies, Reply(answer), frames # << >>,
         bridge = "running", commit' = NoCommit, UNCHANGED published
  PROVE  Committing' /\ Reviews'
<1>1. /\ UNCHANGED <<confirmed, bridge>>
      /\ \A i \in 1..Len(frames') : i + 1 \in 1..Len(frames) /\ frames'[i] = frames[i + 1]
  BY Replying
<1>2. Committing'
  BY <1>1 DEF Committing, NoCommit
<1>3. Reviews'
  BY <1>1 DEF Reviews, PublishedWasReviewed, NoCommit
<1> QED
  BY <1>2, <1>3

\* Stopping forgets baselines, and never makes one up.
LEMMA StoppingKeepsTypes ==
  ASSUME Types, StopAll(Handles, TRUE) \/ StopSome
  PROVE  registry' \in AnyBaseline /\ seeds' \subseteq AnyBaseline
<1>1. NoBaseline \in AnyBaseline
  BY Blank
<1>2. \A gone, all : StopAll(gone, all) =>
        registry' \in {registry, NoBaseline} /\ seeds' \subseteq seeds
  BY DEF StopAll
<1>3. registry' \in {registry, NoBaseline} /\ seeds' \subseteq seeds
  BY <1>2 DEF StopSome
<1> QED
  BY <1>1, <1>3 DEF Types

LEMMA HostReadyKeeps ==
  ASSUME IInv, HostReady
  PROVE  IInv'
<1> USE DEF IInv
<1>1. /\ commit.step = "ready" /\ bridge = "running" /\ frames # << >>
      /\ frames[1].op = "commitHost" /\ seed = commit.plan.base
      /\ commit.plan.base \in confirmed /\ commit.plan \in Plans
  BY DEF HostReady, Step, Committing, Reviews, NoCommit, Types
<1>2. CASE ready' = commit.plan.base /\ commit' = NoCommit
           /\ Reply([result |-> "host_ready", plan |-> commit.plan])
  <2> DEFINE answer == [result |-> "host_ready", plan |-> commit.plan]
  <2>1. answer \in Replies /\ answer.plan = commit.plan
    BY <1>1, SaysReplies DEF HostAnswers
  <2>2. UNCHANGED <<plan, handles, processVars, projectVars>> /\ Reply(answer)
    BY <1>2 DEF HostReady
  <2> HIDE DEF answer
  <2>4. ready' = answer.plan.base /\ seed' = answer.plan.base /\ answer.plan.base \in confirmed
    BY <1>1, <1>2, <2>1, <2>2 DEF handles
  <2>5. Waiting'
    BY <1>1, <1>2, <2>1, <2>2, <2>4, ReplyKeepsWaiting
  <2>6. Committing' /\ Reviews'
    BY <1>1, <1>2, <2>1, <2>2, ReplyKeepsTheRest DEF projectVars
  <2>7. Types'
    <3>1. /\ UNCHANGED <<flow, shown, reviewed>>
          /\ frames' \in Seq(Requests) /\ answers' \in [{"flow", "check"} -> Replies]
      BY <1>1, <2>1, <2>2, Replying
    <3>2. ready' \in AnyBaseline
      BY <1>1, <1>2 DEF Plans
    <3> QED
      BY <1>2, <2>2, <3>1, <3>2, Blank DEF Types, handles, processVars, projectVars
  <2> QED
    BY <2>5, <2>6, <2>7
<1>3. CASE Unwinds /\ UNCHANGED <<ready, uiVars, frames>>
  <2>1. UNCHANGED <<plan, seed, rearm, registry, seeds, text, local, published, bridge, ready>>
    BY <1>3 DEF HostReady, handles, processVars, projectVars
  <2>2. /\ commit' = [commit EXCEPT !.step = "unwind"] /\ commit'.step = "unwind" /\ "unwind" \in Steps
        /\ commit'.plan = commit.plan /\ commit' \in [step : Steps, plan : Plans, base : AnyBaseline]
    BY <1>3 DEF Unwinds, GoTo, Types, Steps
  <2>3. ui # "ready" /\ answers["flow"].result # "host_ready"
    BY <1>1 DEF Waiting, Current, Types, NoCommit
  <2> QED
    BY <1>1, <1>3, <2>1, <2>2, <2>3
       DEF Types, Committing, Reviews, PublishedWasReviewed, Waiting, uiVars
<1> QED
  BY <1>2, <1>3 DEF HostReady

LEMMA UnwindKeeps ==
  ASSUME IInv, Unwind
  PROVE  IInv'
<1> USE DEF IInv
<1>1. bridge = "running" /\ frames # << >> /\ frames[1].op = "commitHost"
  BY DEF Unwind, Step, Committing, NoCommit
<1> DEFINE answer == [result |-> "needs_action", plan |-> NoPlan]
<1>2. answer \in Replies /\ answer.result # "host_ready"
  BY SaysReplies DEF HostAnswers
<1>3. Reply(answer) /\ commit' = NoCommit /\ UNCHANGED <<plan, text, local, published>> /\ DropHandles
  BY DEF Unwind, Says, projectVars
<1> HIDE DEF answer
<1>4. Waiting'
  BY <1>1, <1>2, <1>3, ReplyKeepsWaiting
<1>5. Committing' /\ Reviews'
  BY <1>1, <1>2, <1>3, ReplyKeepsTheRest
<1>6. Types'
  <2>1. registry' \in AnyBaseline /\ seeds' \subseteq AnyBaseline
    BY StoppingKeepsTypes DEF Unwind
  <2>2. /\ UNCHANGED <<flow, shown, reviewed>>
        /\ frames' \in Seq(Requests) /\ answers' \in [{"flow", "check"} -> Replies]
    BY <1>1, <1>2, <1>3, Replying
  <2> QED
    BY <1>3, <2>1, <2>2, Blank DEF Types, DropHandles
<1> QED
  BY <1>4, <1>5, <1>6

-----------------------------------------------------------------------------
(* The other requests the bridge serves.                                    *)

\* A request that leaves the commit, and what stands behind Host Ready unless it
\* stops it, as it is.
LEMMA ServedKeeps ==
  ASSUME IInv, NEW answer \in Replies, Reply(answer), frames # << >>, bridge = "running",
         answer.result # "host_ready" \/ frames[1].who # "flow",
         frames[1].op = "health" => UNCHANGED <<ready, seed>>,
         commit = NoCommit, commit' = NoCommit, UNCHANGED <<published, local, text>>,
         plan' \in RealPlans \cup {NoPlan}, registry' \in AnyBaseline, seeds' \subseteq AnyBaseline,
         ready' \in AnyBaseline, seed' \in AnyBaseline, rearm' \in AnyBaseline
  PROVE  IInv'
<1> USE DEF IInv
<1>1. Waiting'
  BY ReplyKeepsWaiting
<1>2. Committing' /\ Reviews'
  BY ReplyKeepsTheRest
<1>3. Types'
  <2>1. /\ UNCHANGED <<flow, shown, reviewed>>
        /\ frames' \in Seq(Requests) /\ answers' \in [{"flow", "check"} -> Replies]
    BY Replying
  <2> QED
    BY <2>1, Blank DEF Types
<1> QED
  BY <1>1, <1>2, <1>3

LEMMA AtRest ==
  ASSUME Types, Committing, NEW op, Serves(op), op # "commitHost"
  PROVE  commit = NoCommit /\ bridge = "running" /\ frames # << >> /\ frames[1].op = op
BY DEF Serves, Serving, Committing

LEMMA InspectKeeps ==
  ASSUME IInv, Inspect
  PROVE  IInv'
<1>1. /\ commit = NoCommit /\ bridge = "running" /\ frames # << >>
      /\ frames[1].op \in {"inspect", "repairDependencies"}
  BY AtRest DEF Inspect, IInv
<1>2. PICK outcome \in {"idle", "needs_action"} : Reply([result |-> outcome, plan |-> NoPlan])
  BY DEF Inspect, Says
<1> DEFINE answer == [result |-> outcome, plan |-> NoPlan]
<1>3. answer \in Replies /\ answer.result # "host_ready" /\ Reply(answer)
  BY <1>2, SaysReplies DEF HostAnswers
<1>4. UNCHANGED <<commit, plan, seed, rearm, ready, registry, seeds, text, local, published>>
  BY DEF Inspect, orchestratorVars, handles, processVars, projectVars
<1> HIDE DEF answer
<1> QED
  BY <1>1, <1>3, <1>4, ServedKeeps DEF IInv, Types

LEMMA PlanHostKeeps ==
  ASSUME IInv, PlanHost
  PROVE  IInv'
<1>1. commit = NoCommit /\ bridge = "running" /\ frames # << >> /\ frames[1].op = "planHost"
  BY AtRest DEF PlanHost, IInv
<1>2. LocalPlan \in RealPlans /\ LocalPlan \in Plans
  BY PlansAreReal, Blank DEF IInv
<1>3. PICK answer \in Replies : Reply(answer) /\ answer.result # "host_ready"
  <2>1. [result |-> "awaiting_publish_confirmation", plan |-> LocalPlan] \in Replies
    BY <1>2, SaysReplies DEF HostAnswers
  <2>2. [result |-> "needs_action", plan |-> NoPlan] \in Replies
    BY SaysReplies DEF HostAnswers
  <2> QED
    BY <2>1, <2>2 DEF PlanHost, Says
<1>4. plan' \in RealPlans \cup {NoPlan}
  BY <1>2 DEF PlanHost, IInv, Types
<1>5. UNCHANGED <<commit, seed, rearm, ready, registry, seeds, text, local, published>>
  BY DEF PlanHost, handles, processVars, projectVars
<1> QED
  BY <1>1, <1>3, <1>4, <1>5, ServedKeeps DEF IInv, Types

LEMMA HealthKeeps ==
  ASSUME IInv, Health
  PROVE  IInv'
<1>1. commit = NoCommit /\ bridge = "running" /\ frames # << >> /\ frames[1].op = "health"
  BY AtRest DEF Health, IInv
<1>2. PICK answer \in Replies : Reply(answer)
  <2>1. [NoPlan EXCEPT !.base = ready] \in Plans
    BY DEF NoPlan, Plans, IInv, Types, NoBaseline, AnyBaseline
  <2>2. /\ [result |-> "host_ready", plan |-> [NoPlan EXCEPT !.base = ready]] \in Replies
        /\ [result |-> "needs_action", plan |-> NoPlan] \in Replies
    BY <2>1, SaysReplies DEF HostAnswers
  <2> QED
    BY <2>2 DEF Health, Says
<1>3. UNCHANGED <<commit, plan, seed, rearm, ready, registry, seeds, text, local, published>>
  BY DEF Health, orchestratorVars, handles, processVars, projectVars
<1>4. frames[1].who # "flow"
  BY <1>1 DEF IInv, Types, Waiting
<1> QED
  BY <1>1, <1>2, <1>3, <1>4, ServedKeeps DEF IInv, Types

LEMMA StopKeeps ==
  ASSUME IInv, StopHost
  PROVE  IInv'
<1>1. commit = NoCommit /\ bridge = "running" /\ frames # << >> /\ frames[1].op = "stop"
  BY AtRest DEF StopHost, IInv
<1>2. PICK answer \in Replies : Reply(answer) /\ answer.result # "host_ready"
  <2>1. /\ [result |-> "idle", plan |-> NoPlan] \in Replies
        /\ [result |-> "needs_action", plan |-> NoPlan] \in Replies
    BY SaysReplies DEF HostAnswers
  <2> QED
    BY <2>1 DEF StopHost, Says
<1>3. UNCHANGED <<commit, plan, text, local, published>>
  BY DEF StopHost, projectVars
<1>4. registry' \in AnyBaseline /\ seeds' \subseteq AnyBaseline
  BY StoppingKeepsTypes DEF StopHost, IInv
<1>5. ready' \in AnyBaseline /\ seed' \in AnyBaseline /\ rearm' \in AnyBaseline
  BY Blank DEF StopHost, DropHandles, handles, IInv, Types
<1> QED
  BY <1>1, <1>2, <1>3, <1>4, <1>5, ServedKeeps DEF IInv, Types

LEMMA CommitHostKeeps ==
  ASSUME IInv, CommitHost
  PROVE  IInv'
<1>1. /\ commit.step = "none" /\ commit = NoCommit /\ bridge = "running" /\ frames # << >>
      /\ frames[1].op = "commitHost"
  BY DEF CommitHost, Serves, Serving, Step, IInv, Committing
<1>2. UNCHANGED <<seed, rearm, ready, registry, seeds, text, local, published>>
  BY DEF CommitHost, handles, processVars, projectVars
<1>3. CASE Says("needs_action") /\ UNCHANGED <<commit, plan>>
  <2> DEFINE answer == [result |-> "needs_action", plan |-> NoPlan]
  <2>1. answer \in Replies /\ answer.result # "host_ready" /\ Reply(answer)
    BY <1>3, SaysReplies DEF HostAnswers, Says
  <2> HIDE DEF answer
  <2> QED
    BY <1>1, <1>2, <1>3, <2>1, ServedKeeps DEF IInv, Types
<1>4. CASE /\ plan = frames[1].plan /\ plan # NoPlan
           /\ commit' = [step |-> "coordinator", plan |-> plan, base |-> NoBaseline]
           /\ plan' = NoPlan /\ UNCHANGED <<uiVars, bridge, frames>>
  <2>1. 1 \in 1..Len(frames) /\ plan.base \in confirmed /\ plan \in RealPlans
    BY <1>1, <1>4 DEF IInv, Types, Reviews
  <2>2. Types'
    BY <1>2, <1>4, <2>1, Blank DEF IInv, Types, uiVars, Steps, RealPlans
  <2>3. Committing'
    BY <1>1, <1>4, <2>1 DEF IInv, Committing, RealPlans
  <2>4. Reviews'
    BY <1>2, <1>4, <2>1 DEF IInv, Reviews, PublishedWasReviewed, uiVars
  <2>5. ui # "ready" /\ answers["flow"].result # "host_ready"
    BY <1>1, <2>1 DEF IInv, Waiting
  <2>6. Waiting'
    BY <1>4, <2>5 DEF IInv, Waiting, uiVars
  <2> QED
    BY <2>2, <2>3, <2>4, <2>6 DEF IInv
<1> QED
  BY <1>3, <1>4 DEF CommitHost, Serving
-----------------------------------------------------------------------------
(* Unity.                                                                   *)

\* A bridge that does not run has no request: a new one is the last, whether or
\* not it takes a new bridge.
LEMMA Sending ==
  ASSUME Types, Committing, NEW m \in Requests, Send(m)
  PROVE  /\ bridge' = "running" /\ frames' \in Seq(Requests) /\ Len(frames') = Len(frames) + 1
         /\ \A i \in 1..Len(frames') :
              \/ i \in 1..Len(frames) /\ i # Len(frames') /\ frames'[i] = frames[i]
              \/ i = Len(frames') /\ frames'[i] = m
         /\ frames # << >> => frames'[1] = frames[1]
         /\ frames' # << >>
<1>1. frames \in Seq(Requests) /\ Len(frames) \in Nat
  BY DEF Types
<1>2. frames' = Append(frames, m) /\ bridge' = "running"
  <2>1. bridge # "running" => frames = << >> /\ <<m>> = Append(<< >>, m)
    BY DEF Committing
  <2> QED
    BY <2>1 DEF Send
<1> QED
  BY <1>1, <1>2, RequestAdded

LEMMA NobodyElseWaits ==
  ASSUME Types, Waiting, answers["flow"] # NoAnswer \/ flow \in {"none", "review"}
  PROVE  \A i \in 1..Len(frames) : frames[i].who # "flow"
BY DEF Waiting

Flows == {"none", "inspect", "repair", "plan", "review", "commit", "stop", "invalid_stop"}

\* The workflow sends its next request.
LEMMA FlowSends ==
  ASSUME IInv, NEW m \in Requests, Send(m), m.who = "flow", m.op # "health",
         \A i \in 1..Len(frames) : frames[i].who # "flow",
         m.op = "commitHost" <=> flow' = "commit",
         m.op = "commitHost" => m.plan.base \in confirmed',
         flow' \in Flows \ {"none", "review"}, ui' # "ready",
         answers' \in [{"flow", "check"} -> Replies], answers'["flow"] = NoAnswer,
         shown' \in AnyBaseline, reviewed' \in Plans, confirmed \subseteq confirmed',
         UNCHANGED <<commit, orchestratorVars, processVars, projectVars>>
  PROVE  IInv'
<1> USE DEF IInv
<1>1. /\ bridge' = "running" /\ frames' \in Seq(Requests) /\ Len(frames') = Len(frames) + 1
      /\ \A i \in 1..Len(frames') :
           \/ i \in 1..Len(frames) /\ i # Len(frames') /\ frames'[i] = frames[i]
           \/ i = Len(frames') /\ frames'[i] = m
      /\ frames # << >> => frames'[1] = frames[1]
      /\ frames' # << >>
  BY Sending
<1>2. UNCHANGED <<commit, plan, seed, rearm, ready, registry, seeds, text, local, published>>
  BY DEF orchestratorVars, handles, processVars, projectVars
<1>3. Types'
  BY <1>1, <1>2 DEF Types, Flows
<1>4. Committing'
  BY <1>1, <1>2 DEF Committing
<1>5. Reviews'
  BY <1>1, <1>2 DEF Reviews, PublishedWasReviewed
<1>6. Waiting'
  <2>1. answers'["flow"].result # "host_ready"
    BY DEF NoAnswer
  <2>2. ASSUME NEW i \in 1..Len(frames')
        PROVE  /\ frames'[i].who = "flow" =>
                    /\ i = Len(frames') /\ answers'["flow"] = NoAnswer
                    /\ flow' \notin {"none", "review"}
                    /\ frames'[i].op = "commitHost" <=> flow' = "commit"
               /\ frames'[i].op = "health" => frames'[i].who # "flow"
               /\ frames'[i].who = "check" => frames'[i].op = "health"
    <3>1. CASE i \in 1..Len(frames) /\ i # Len(frames') /\ frames'[i] = frames[i]
      BY <3>1 DEF Waiting
    <3>2. CASE i = Len(frames') /\ frames'[i] = m
      BY <3>2
    <3> QED
      BY <1>1, <3>1, <3>2
  <2> QED
    BY <2>1, <2>2 DEF Waiting
<1> QED
  BY <1>3, <1>4, <1>5, <1>6

\* Unity changes its mind without sending anything: it takes an answer, or stops
\* waiting for one.
LEMMA UnityKeeps ==
  ASSUME IInv, UNCHANGED <<bridge, commit, confirmed, orchestratorVars, processVars, projectVars>>,
         frames' \in Seq(Requests), Len(frames') = Len(frames),
         \A i \in 1..Len(frames) :
           /\ frames'[i].op = frames[i].op /\ frames'[i].plan = frames[i].plan
           /\ frames'[i].who \in {frames[i].who, "nobody"},
         answers' \in [{"flow", "check"} -> Replies], flow' \in Flows,
         shown' \in AnyBaseline, reviewed' \in Plans,
         \/ answers'["flow"] = answers["flow"] /\ flow' = flow
         \/ answers'["flow"] = NoAnswer /\ \A i \in 1..Len(frames) : frames'[i].who # "flow",
         ui' = "ready" =>
           /\ flow' = "none"
           /\ bridge = "running" =>
                Current(shown') /\ \A i \in 1..Len(frames) : frames[i].op = "health"
  PROVE  IInv'
<1> USE DEF IInv
<1>2. UNCHANGED <<commit, plan, seed, rearm, ready, registry, seeds, text, local, published>>
  BY DEF orchestratorVars, handles, processVars, projectVars
<1>0. frames \in Seq(Requests) /\ Len(frames) \in Nat
  BY DEF Types
<1>e. /\ frames = << >> <=> Len(frames) = 0
      /\ frames' = << >> <=> Len(frames') = 0
      /\ frames # << >> => 1 \in 1..Len(frames)
  BY <1>0
<1>3. Types'
  BY <1>2 DEF Types, Flows
<1>4. Committing'
  BY <1>2, <1>e DEF Committing
<1>5. Reviews'
  BY <1>2 DEF Reviews, PublishedWasReviewed
<1>6. Waiting'
  <2>1. \A b : Current(b)' <=> Current(b)
    BY <1>2 DEF Current
  <2>2. ASSUME NEW i \in 1..Len(frames')
        PROVE  /\ frames'[i].who = "flow" =>
                    /\ i = Len(frames') /\ answers'["flow"] = NoAnswer
                    /\ flow' \notin {"none", "review"}
                    /\ frames'[i].op = "commitHost" <=> flow' = "commit"
               /\ frames'[i].op = "health" => frames'[i].who # "flow"
               /\ frames'[i].who = "check" => frames'[i].op = "health"
               /\ ui' = "ready" /\ bridge = "running" => frames'[i].op = "health"
    <3>1. i \in 1..Len(frames)
      OBVIOUS
    <3> QED
      BY <3>1 DEF Waiting
  <2>3. answers'["flow"] # NoAnswer => flow' \notin {"none", "review"}
    BY DEF Waiting
  <2>4. answers'["flow"].result = "host_ready" =>
           /\ answers'["flow"] = answers["flow"] /\ flow' = "commit"
           /\ bridge' = "running" => frames' = << >> /\ Current(answers["flow"].plan.base)
    BY <1>e DEF Waiting, NoAnswer
  <2>5. answers'["flow"].result = "host_ready" =>
           /\ flow' = "commit"
           /\ bridge' = "running" => frames' = << >> /\ Current(answers["flow"].plan.base)'
    BY <1>2, <2>4 DEF Current
  <2>6. ui' = "ready" =>
           /\ flow' = "none"
           /\ bridge' = "running" => Current(shown)'
    BY <1>2 DEF Current
  <2> QED
    BY <2>2, <2>3, <2>5, <2>6 DEF Waiting
<1> QED
  BY <1>3, <1>4, <1>5, <1>6
LEMMA FramesAreRequests ==
  ASSUME Types
  PROVE  \A op \in Operations, who \in {"flow", "check"} :
           /\ Frame(op, who) \in Requests /\ Frame(op, who).op = op
           /\ Frame(op, who).who = who /\ Frame(op, who).plan = reviewed
BY DEF Frame, Requests, Types

LEMMA StartKeeps ==
  ASSUME IInv, StartCollaboration
  PROVE  IInv'
<1> DEFINE m == Frame("inspect", "flow")
<1>1. m \in Requests /\ m.op = "inspect" /\ m.who = "flow"
  BY FramesAreRequests DEF IInv, Operations
<1>2. Send(m) /\ ui' = "preflighting" /\ flow' = "inspect"
  BY DEF StartCollaboration, Then, Show
<1>3. UNCHANGED <<answers, shown, reviewed, confirmed, commit, orchestratorVars, processVars, projectVars>>
  BY DEF StartCollaboration
<1>4. flow = "none" /\ answers["flow"] = NoAnswer
  BY DEF StartCollaboration, IInv, Waiting
<1>5. \A i \in 1..Len(frames) : frames[i].who # "flow"
  BY <1>4, NobodyElseWaits DEF IInv
<1> HIDE DEF m
<1>6. /\ answers' \in [{"flow", "check"} -> Replies] /\ answers'["flow"] = NoAnswer
      /\ shown' \in AnyBaseline /\ reviewed' \in Plans /\ confirmed \subseteq confirmed'
  BY <1>3, <1>4 DEF IInv, Types
<1>7. flow' \in Flows \ {"none", "review"} /\ ui' # "ready" /\ flow' # "commit" /\ m.op # "commitHost"
  BY <1>1, <1>2 DEF Flows
<1> QED
  BY <1>1, <1>2, <1>3, <1>5, <1>6, <1>7, FlowSends

LEMMA StopCollaborationKeeps ==
  ASSUME IInv, StopCollaboration
  PROVE  IInv'
<1> DEFINE m == Frame("stop", "flow")
<1>1. m \in Requests /\ m.op = "stop" /\ m.who = "flow"
  BY FramesAreRequests DEF IInv, Operations
<1>2. Send(m) /\ ui' = "stopping" /\ flow' = "stop"
  BY DEF StopCollaboration, Then, Show
<1>3. UNCHANGED <<answers, shown, reviewed, confirmed, commit, orchestratorVars, processVars, projectVars>>
  BY DEF StopCollaboration
<1>4. flow = "none" /\ answers["flow"] = NoAnswer
  BY DEF StopCollaboration, IInv, Waiting
<1>5. \A i \in 1..Len(frames) : frames[i].who # "flow"
  BY <1>4, NobodyElseWaits DEF IInv
<1> HIDE DEF m
<1>6. /\ answers' \in [{"flow", "check"} -> Replies] /\ answers'["flow"] = NoAnswer
      /\ shown' \in AnyBaseline /\ reviewed' \in Plans /\ confirmed \subseteq confirmed'
  BY <1>3, <1>4 DEF IInv, Types
<1>7. flow' \in Flows \ {"none", "review"} /\ ui' # "ready" /\ flow' # "commit" /\ m.op # "commitHost"
  BY <1>1, <1>2 DEF Flows
<1> QED
  BY <1>1, <1>2, <1>3, <1>5, <1>6, <1>7, FlowSends

\* The plan that is sent to be committed is the one the user now confirms.
LEMMA ConfirmKeeps ==
  ASSUME IInv, Confirm
  PROVE  IInv'
<1> DEFINE m == Frame("commitHost", "flow")
<1>1. m \in Requests /\ m.op = "commitHost" /\ m.who = "flow" /\ m.plan = reviewed
  BY FramesAreRequests DEF IInv, Operations
<1>2. Send(m) /\ ui' = "starting" /\ flow' = "commit" /\ confirmed' = confirmed \cup {reviewed.base}
  BY DEF Confirm, Then, Show
<1>3. UNCHANGED <<answers, shown, reviewed, commit, orchestratorVars, processVars, projectVars>>
  BY DEF Confirm
<1>4. flow = "review" /\ answers["flow"] = NoAnswer
  BY DEF Confirm, IInv, Waiting
<1>5. \A i \in 1..Len(frames) : frames[i].who # "flow"
  BY <1>4, NobodyElseWaits DEF IInv
<1> HIDE DEF m
<1>6. /\ answers' \in [{"flow", "check"} -> Replies] /\ answers'["flow"] = NoAnswer
      /\ shown' \in AnyBaseline /\ reviewed' \in Plans /\ confirmed \subseteq confirmed'
      /\ m.plan.base \in confirmed'
  BY <1>1, <1>2, <1>3, <1>4 DEF IInv, Types
<1>7. flow' \in Flows \ {"none", "review"} /\ ui' # "ready"
  BY <1>2 DEF Flows
<1> QED
  BY <1>1, <1>2, <1>3, <1>5, <1>6, <1>7, FlowSends

LEMMA FlowResumesKeeps ==
  ASSUME IInv, FlowResumes
  PROVE  IInv'
<1>1. /\ answers["flow"] # NoAnswer /\ answers' = [answers EXCEPT !["flow"] = NoAnswer]
      /\ UNCHANGED <<confirmed, commit, orchestratorVars, processVars, projectVars>>
      /\ flow \notin {"none", "review"}
  BY DEF FlowResumes, IInv, Waiting
<1>2. \A i \in 1..Len(frames) : frames[i].who # "flow"
  BY <1>1, NobodyElseWaits DEF IInv
<1>3. /\ answers' \in [{"flow", "check"} -> Replies] /\ answers'["flow"] = NoAnswer
      /\ answers["flow"].plan \in Plans /\ answers["flow"].plan.base \in AnyBaseline
  BY <1>1, Blank DEF IInv, Types, Replies, Plans
\* Either it rests, or it sends its next request.
<1> DEFINE rests == /\ UNCHANGED <<bridge, frames>> /\ flow' \in {"none", "review"}
                    /\ shown' \in AnyBaseline /\ reviewed' \in Plans
                    /\ ui' = "ready" =>
                         /\ flow' = "none" /\ shown' = answers["flow"].plan.base
                         /\ answers["flow"].result = "host_ready"
           sends == /\ \E op \in {"planHost", "repairDependencies", "stop"} : Send(Frame(op, "flow"))
                    /\ flow' \in {"plan", "repair", "invalid_stop"}
                    /\ shown' \in AnyBaseline /\ reviewed' \in Plans /\ ui' # "ready"
<1>4. rests \/ sends
  <2> USE DEF NeedsAction, Then, Show
  <2>0. shown \in AnyBaseline /\ reviewed \in Plans /\ NoPlan \in Plans /\ NoBaseline \in AnyBaseline
    BY Blank DEF IInv, Types
  <2>1. CASE flow \in {"inspect", "repair"} /\ Inspected(answers["flow"])
    BY <2>0, <2>1 DEF Inspected
  <2>2. CASE flow = "plan" /\ Planned(answers["flow"])
    BY <1>3, <2>0, <2>2 DEF Planned
  <2>3. CASE flow = "commit" /\ Committed(answers["flow"])
    BY <1>3, <2>0, <2>3 DEF Committed
  <2>4. CASE flow \in {"stop", "invalid_stop"} /\ Stopped(answers["flow"])
    BY <2>0, <2>4 DEF Stopped
  <2>5. flow \in {"inspect", "repair", "plan", "commit", "stop", "invalid_stop"}
    BY <1>1 DEF IInv, Types
  <2>6. CASE flow \in {"inspect", "repair"}
    BY <2>1, <2>6 DEF FlowResumes
  <2>7. CASE flow = "plan"
    BY <2>2, <2>7 DEF FlowResumes
  <2>8. CASE flow = "commit"
    BY <2>3, <2>8 DEF FlowResumes
  <2>9. CASE flow \in {"stop", "invalid_stop"}
    BY <2>4, <2>9 DEF FlowResumes
  <2> QED
    BY <2>5, <2>6, <2>7, <2>8, <2>9
<1>5. CASE rests
  <2>1. ui' = "ready" =>
           /\ flow' = "none"
           /\ bridge = "running" =>
                Current(shown') /\ \A i \in 1..Len(frames) : frames[i].op = "health"
    <3>1. ui' = "ready" /\ bridge = "running" => frames = << >> /\ Current(shown')
      BY <1>5 DEF IInv, Waiting
    <3>2. frames = << >> => Len(frames) = 0
      OBVIOUS
    <3> QED
      BY <1>5, <3>1, <3>2
  <2>2. frames \in Seq(Requests) /\ flow' \in Flows
    BY <1>5 DEF IInv, Types, Flows
  <2> QED
    BY <1>1, <1>2, <1>3, <1>5, <2>1, <2>2, UnityKeeps
<1>6. CASE sends
  <2>1. PICK m \in Requests : Send(m) /\ m.who = "flow" /\ m.op \notin {"health", "commitHost"}
    BY <1>6, FramesAreRequests DEF IInv, Operations
  <2>2. flow' \in Flows \ {"none", "review"} /\ flow' # "commit"
    BY <1>6 DEF Flows
  <2> QED
    BY <1>1, <1>2, <1>3, <1>6, <2>1, <2>2, FlowSends
<1> QED
  BY <1>4, <1>5, <1>6
LEMMA DeclineKeeps ==
  ASSUME IInv, Decline
  PROVE  IInv'
<1>1. /\ flow = "review" /\ ui' = "idle" /\ flow' = "none" /\ reviewed' = NoPlan
      /\ UNCHANGED <<answers, shown, confirmed, bridge, frames, commit,
                     orchestratorVars, processVars, projectVars>>
  BY DEF Decline, Then, Show, bridgeVars
<1>2. answers["flow"] = NoAnswer /\ \A i \in 1..Len(frames) : frames[i].who # "flow"
  BY <1>1, NobodyElseWaits DEF IInv, Waiting
<1>3. /\ answers' \in [{"flow", "check"} -> Replies] /\ frames' \in Seq(Requests)
      /\ shown' \in AnyBaseline /\ reviewed' \in Plans /\ flow' \in Flows
  BY <1>1, Blank DEF IInv, Types, Flows
<1> QED
  BY <1>1, <1>2, <1>3, UnityKeeps

\* A check that fails takes Ready back, one that succeeds leaves it.
LEMMA HealthAnswers ==
  ASSUME NEW healthy, HealthAnswered(healthy)
  PROVE  \/ UNCHANGED <<ui, shown>>
         \/ ui' = "needs_action" /\ shown' = NoBaseline
BY DEF HealthAnswered, RevokeStaleReady, Show

LEMMA CheckKeeps ==
  ASSUME IInv, UNCHANGED <<flow, bridge, commit, reviewed, confirmed, orchestratorVars, processVars, projectVars>>,
         UNCHANGED <<ui, shown>> \/ (ui' = "needs_action" /\ shown' = NoBaseline),
         answers' \in [{"flow", "check"} -> Replies], answers'["flow"] = answers["flow"],
         frames' \in Seq(Requests), Len(frames') = Len(frames),
         \A i \in 1..Len(frames) :
           /\ frames'[i].op = frames[i].op /\ frames'[i].plan = frames[i].plan
           /\ frames'[i].who \in {frames[i].who, "nobody"}
  PROVE  IInv'
<1>1. shown' \in AnyBaseline /\ reviewed' \in Plans /\ flow' \in Flows
  BY Blank DEF IInv, Types, Flows
<1>2. ui' = "ready" =>
        /\ flow' = "none"
        /\ bridge = "running" =>
             Current(shown') /\ \A i \in 1..Len(frames) : frames[i].op = "health"
  BY DEF IInv, Waiting
<1> QED
  BY <1>1, <1>2, UnityKeeps

LEMMA CheckResumesKeeps ==
  ASSUME IInv, CheckResumes
  PROVE  IInv'
<1>1. /\ answers' = [answers EXCEPT !["check"] = NoAnswer]
      /\ UNCHANGED <<flow, bridge, frames, commit, reviewed, confirmed,
                     orchestratorVars, processVars, projectVars>>
  BY DEF CheckResumes, bridgeVars
<1>2. UNCHANGED <<ui, shown>> \/ (ui' = "needs_action" /\ shown' = NoBaseline)
  BY HealthAnswers DEF CheckResumes
<1>3. /\ answers' \in [{"flow", "check"} -> Replies] /\ answers'["flow"] = answers["flow"]
      /\ frames' \in Seq(Requests)
  BY <1>1, Blank DEF IInv, Types
<1> QED
  BY <1>1, <1>2, <1>3, CheckKeeps

\* A request nobody waits for any more stays what it was.
LEMMA Abandoning ==
  ASSUME Types, NEW who, Abandon(who)
  PROVE  /\ frames' \in Seq(Requests) /\ Len(frames') = Len(frames)
         /\ \A i \in 1..Len(frames) :
              /\ frames'[i].op = frames[i].op /\ frames'[i].plan = frames[i].plan
              /\ frames'[i].who = IF frames[i].who = who THEN "nobody" ELSE frames[i].who
<1>1. frames \in Seq(Requests) /\ DOMAIN frames = 1..Len(frames) /\ Len(frames) \in Nat
  BY DEF Types
<1>2. ASSUME NEW i \in 1..Len(frames)
      PROVE  /\ frames'[i] \in Requests
             /\ frames'[i].op = frames[i].op /\ frames'[i].plan = frames[i].plan
             /\ frames'[i].who = IF frames[i].who = who THEN "nobody" ELSE frames[i].who
  <2>1. frames[i] \in Requests
    BY <1>1
  <2>2. frames'[i] = IF frames[i].who = who THEN [frames[i] EXCEPT !.who = "nobody"] ELSE frames[i]
    BY <1>1 DEF Abandon
  <2>3. CASE frames[i].who = who
    BY <2>1, <2>2, <2>3 DEF Requests
  <2>4. CASE frames[i].who # who
    BY <2>1, <2>2, <2>4
  <2> QED
    BY <2>3, <2>4
<1>3. frames' = [i \in 1..Len(frames) |-> frames'[i]]
  BY <1>1 DEF Abandon
<1>4. frames' \in Seq(Requests) /\ Len(frames') = Len(frames)
  BY <1>1, <1>2, <1>3
<1> QED
  BY <1>2, <1>4

LEMMA FlowTimesOutKeeps ==
  ASSUME IInv, FlowTimesOut
  PROVE  IInv'
<1>1. /\ ui' = "needs_action" /\ flow' = "none" /\ reviewed' = NoPlan
      /\ UNCHANGED <<answers, shown, confirmed, bridge, commit,
                     orchestratorVars, processVars, projectVars>>
  BY DEF FlowTimesOut, NeedsAction, Then, Show
<1>2. /\ frames' \in Seq(Requests) /\ Len(frames') = Len(frames)
      /\ \A i \in 1..Len(frames) :
           /\ frames'[i].op = frames[i].op /\ frames'[i].plan = frames[i].plan
           /\ frames'[i].who = IF frames[i].who = "flow" THEN "nobody" ELSE frames[i].who
  BY Abandoning DEF FlowTimesOut, IInv
<1>3. answers["flow"] = NoAnswer
  BY DEF FlowTimesOut, Awaited, IInv, Types, Waiting
<1>4. /\ answers' \in [{"flow", "check"} -> Replies] /\ flow' \in Flows
      /\ shown' \in AnyBaseline /\ reviewed' \in Plans
  BY <1>1, Blank DEF IInv, Types, Flows
<1>5. \A i \in 1..Len(frames) : frames'[i].who # "flow" /\ frames'[i].who \in {frames[i].who, "nobody"}
  BY <1>2
<1> QED
  BY <1>1, <1>2, <1>3, <1>4, <1>5, UnityKeeps

LEMMA CheckTimesOutKeeps ==
  ASSUME IInv, CheckTimesOut
  PROVE  IInv'
<1>1. UNCHANGED <<flow, answers, reviewed, confirmed, bridge, commit,
                  orchestratorVars, processVars, projectVars>>
  BY DEF CheckTimesOut
<1>2. UNCHANGED <<ui, shown>> \/ (ui' = "needs_action" /\ shown' = NoBaseline)
  BY HealthAnswers DEF CheckTimesOut
<1>3. /\ frames' \in Seq(Requests) /\ Len(frames') = Len(frames)
      /\ \A i \in 1..Len(frames) :
           /\ frames'[i].op = frames[i].op /\ frames'[i].plan = frames[i].plan
           /\ frames'[i].who \in {frames[i].who, "nobody"}
  BY Abandoning DEF CheckTimesOut, IInv
<1>4. answers' \in [{"flow", "check"} -> Replies] /\ answers'["flow"] = answers["flow"]
  BY <1>1 DEF IInv, Types
<1> QED
  BY <1>1, <1>2, <1>3, <1>4, CheckKeeps

LEMMA MarkKeeps ==
  ASSUME IInv, MarkUnexpectedBridgeExit
  PROVE  IInv'
<1>1. /\ bridge = "exited" /\ ui = "ready" /\ bridge' = "none" /\ ui' = "needs_action" /\ shown' = NoBaseline
      /\ UNCHANGED <<flow, answers, reviewed, confirmed, frames, commit, plan, seed, rearm, ready,
                     registry, seeds, text, local, published>>
  BY DEF MarkUnexpectedBridgeExit, Show, orchestratorVars, handles, processVars, projectVars
<1>2. Types'
  BY <1>1, Blank DEF IInv, Types
<1>3. Committing'
  BY <1>1 DEF IInv, Committing
<1>4. Reviews'
  BY <1>1 DEF IInv, Reviews, PublishedWasReviewed
<1>5. Waiting'
  BY <1>1 DEF IInv, Waiting
<1> QED
  BY <1>2, <1>3, <1>4, <1>5 DEF IInv

LEMMA PollKeeps ==
  ASSUME IInv, PollHostHealth
  PROVE  IInv'
<1> USE DEF IInv
<1> DEFINE m == Frame("health", "check")
<1>0. m \in Requests /\ m.op = "health" /\ m.who = "check" /\ Send(m)
  BY FramesAreRequests DEF Operations, PollHostHealth
<1>m. /\ bridge = "running" /\ ui = "ready"
      /\ UNCHANGED <<ui, flow, answers, shown, reviewed, confirmed, commit, plan, seed, rearm, ready,
                     registry, seeds, text, local, published>>
  BY DEF PollHostHealth, orchestratorVars, handles, processVars, projectVars
<1> HIDE DEF m
<1>1. /\ bridge' = "running" /\ frames' \in Seq(Requests) /\ Len(frames') = Len(frames) + 1
      /\ \A i \in 1..Len(frames') :
           \/ i \in 1..Len(frames) /\ i # Len(frames') /\ frames'[i] = frames[i]
           \/ i = Len(frames') /\ frames'[i] = m
      /\ frames # << >> => frames'[1] = frames[1]
      /\ frames' # << >>
  BY <1>0, Sending
<1>2. Current(shown) /\ flow = "none" /\ answers["flow"] = NoAnswer
  BY <1>m DEF Waiting
<1>3. Types'
  BY <1>m, <1>1 DEF Types
<1>4. Committing'
  BY <1>m, <1>1 DEF Committing
<1>5. Reviews'
  BY <1>0, <1>m, <1>1 DEF Reviews, PublishedWasReviewed
<1>6. Waiting'
  <2>1. ASSUME NEW i \in 1..Len(frames')
        PROVE  frames'[i].op = "health" /\ frames'[i].who # "flow"
    <3>1. CASE i \in 1..Len(frames) /\ frames'[i] = frames[i]
      BY <1>m, <3>1 DEF Waiting
    <3>2. CASE frames'[i] = m
      BY <1>0, <3>2
    <3> QED
      BY <1>1, <3>1, <3>2
  <2>2. Current(shown)'
    BY <1>m, <1>2 DEF Current
  <2> QED
    BY <1>m, <1>2, <2>1, <2>2 DEF Waiting, NoAnswer
<1> QED
  BY <1>3, <1>4, <1>5, <1>6

-----------------------------------------------------------------------------
(* The world.                                                               *)

LEMMA BridgeExitsKeeps ==
  ASSUME IInv, BridgeExits
  PROVE  IInv'
<1>1. /\ bridge = "running" /\ bridge' = "exited" /\ frames' = << >> /\ commit' = NoCommit
      /\ plan' = NoPlan /\ seeds' = {} /\ seed' = NoBaseline /\ rearm' = NoBaseline /\ ready' = NoBaseline
      /\ registry' \in {registry, NoBaseline}
      /\ UNCHANGED <<ui, flow, shown, reviewed, confirmed, text, local, published>>
  BY DEF BridgeExits, DropHandles, projectVars
<1> DEFINE lost == [result |-> "error", plan |-> NoPlan]
<1>2. lost \in Replies /\ lost.result # "host_ready"
  BY SaysReplies DEF HostAnswers
<1>3. answers' = [who \in {"flow", "check"} |-> IF Awaited(who) THEN lost ELSE answers[who]]
  BY DEF BridgeExits, IInv, Types
<1> HIDE DEF lost
<1>4. answers' \in [{"flow", "check"} -> Replies]
  BY <1>2, <1>3 DEF IInv, Types
<1>5. Awaited("flow") => flow \notin {"none", "review"}
  BY DEF Awaited, IInv, Types, Waiting
<1>6. Types'
  BY <1>1, <1>4, Blank DEF IInv, Types
<1>7. Committing'
  BY <1>1 DEF Committing, NoCommit
<1>8. Reviews'
  BY <1>1 DEF IInv, Reviews, PublishedWasReviewed, NoCommit
<1>9. Waiting'
  <2>1. CASE Awaited("flow")
    <3>1. answers'["flow"] = lost
      BY <1>3, <2>1
    <3> QED
      BY <1>1, <1>2, <1>5, <2>1, <3>1 DEF IInv, Waiting
  <2>2. CASE ~Awaited("flow")
    <3>1. answers'["flow"] = answers["flow"]
      BY <1>3, <2>2
    <3> QED
      BY <1>1, <3>1 DEF IInv, Waiting
  <2> QED
    BY <2>1, <2>2
<1> QED
  BY <1>6, <1>7, <1>8, <1>9 DEF IInv

\* Processes and links come and go, and the source is edited, under everybody's feet.
LEMMA WorldKeeps ==
  ASSUME IInv, UNCHANGED <<uiVars, bridgeVars, orchestratorVars, local, published>>,
         registry' \in AnyBaseline, seeds' \subseteq AnyBaseline, text' \in Texts
  PROVE  IInv'
<1>1. UNCHANGED <<ui, flow, answers, shown, reviewed, confirmed, bridge, frames, commit,
                  plan, seed, rearm, ready>>
  BY DEF uiVars, bridgeVars, orchestratorVars, handles
<1>2. Types'
  BY <1>1 DEF IInv, Types
<1>3. Committing'
  BY <1>1 DEF IInv, Committing
<1>4. Reviews'
  BY <1>1 DEF IInv, Reviews, PublishedWasReviewed
<1>5. Waiting'
  BY <1>1 DEF IInv, Waiting, Current
<1> QED
  BY <1>2, <1>3, <1>4, <1>5 DEF IInv

LEMMA OutsideKeeps ==
  ASSUME IInv, CoordinatorExits \/ SeedExits \/ SeedLosesLink \/ SeedReconnects \/ EditSource
  PROVE  IInv'
<1>0. registry \in AnyBaseline /\ seeds \subseteq AnyBaseline /\ text \in Texts /\ NoBaseline \in AnyBaseline
  BY Blank DEF IInv, Types
<1>1. CASE CoordinatorExits
  BY <1>0, <1>1, WorldKeeps DEF CoordinatorExits, projectVars
<1>2. CASE SeedExits
  BY <1>0, <1>2, WorldKeeps DEF SeedExits, projectVars
<1>3. CASE SeedLosesLink
  BY <1>0, <1>3, WorldKeeps DEF SeedLosesLink, projectVars
<1>4. CASE SeedReconnects
  BY <1>0, <1>4, WorldKeeps DEF SeedReconnects, projectVars
<1>5. CASE EditSource
  BY <1>0, <1>5, WorldKeeps DEF EditSource, processVars
<1> QED
  BY <1>1, <1>2, <1>3, <1>4, <1>5

-----------------------------------------------------------------------------
(* The theorems.                                                            *)

LEMMA Beginning == Init => IInv
<1> SUFFICES ASSUME Init PROVE IInv
  OBVIOUS
<1> USE DEF Init
<1>1. Types
  <2>1. local \in AnyBaseline
    BY Blank DEF AnyBaseline
  <2> QED
    BY <2>1, Blank DEF Types
<1>2. Committing
  BY DEF Committing, NoCommit
<1>3. Reviews
  BY DEF Reviews, PublishedWasReviewed, NoCommit
<1>4. Waiting
  BY DEF Waiting, NoAnswer
<1> QED
  BY <1>1, <1>2, <1>3, <1>4 DEF IInv

LEMMA Continuing == IInv /\ [Next]_vars => IInv'
<1> SUFFICES ASSUME IInv, [Next]_vars PROVE IInv'
  OBVIOUS
<1>1. CASE UnityStep
  BY <1>1, FlowResumesKeeps, CheckResumesKeeps, PollKeeps, MarkKeeps DEF UnityStep
<1>2. CASE CommitStep
  <2>1. CASE Proceeds
    BY <2>1, ProceedingKeepsTypes, ProceedingKeepsTheRest DEF IInv
  <2>2. CASE HostReady \/ Unwind
    BY <2>2, HostReadyKeeps, UnwindKeeps
  <2> QED
    BY <1>2, <2>1, <2>2 DEF CommitStep, Proceeds
<1>3. CASE Inspect \/ PlanHost \/ CommitHost \/ Health \/ StopHost
  BY <1>3, InspectKeeps, PlanHostKeeps, CommitHostKeeps, HealthKeeps, StopKeeps
<1>4. CASE UserStep
  BY <1>4, StartKeeps, ConfirmKeeps, DeclineKeeps, StopCollaborationKeeps DEF UserStep
<1>5. CASE WorldStep
  BY <1>5, FlowTimesOutKeeps, CheckTimesOutKeeps, BridgeExitsKeeps, OutsideKeeps DEF WorldStep
<1>6. CASE UNCHANGED vars
  BY <1>6, WorldKeeps DEF vars, processVars, projectVars, IInv, Types
<1> QED
  BY <1>1, <1>2, <1>3, <1>4, <1>5, <1>6 DEF Next, BridgeStep

\* Every state a Host can be in satisfies the inductive invariant: the one commit
\* that is under way is the request at the head of the bridge's queue, every plan on
\* its way to being published was confirmed, and the workflow waits for the answer
\* to its last request only.
THEOREM HostInvariant == Spec => []IInv
<1> QED
  BY Beginning, Continuing, PTL DEF Spec

\* Nothing is published that the user did not confirm (commitHost: the plan that was
\* reviewed, once, and the child's own plan with the same fingerprint), whatever is
\* edited, abandoned or restarted between the review and the publication.
THEOREM OnlyReviewedIsPublished == Spec => []PublishedWasReviewed
<1>1. IInv => PublishedWasReviewed
  BY DEF IInv, Reviews
<1> QED
  BY <1>1, HostInvariant, PTL

\* Unity shows Host Ready, on a bridge that runs, only while the orchestrator behind
\* it is ready with that very baseline and its Seed, and the user confirmed it: a
\* request Unity gave up on cannot be served in between.
THEOREM HostReadyIsCurrent == Spec => []ReadyIsCurrent
<1>1. IInv => ReadyIsCurrent
  BY DEF IInv, Waiting, Current, ReadyIsCurrent
<1> QED
  BY <1>1, HostInvariant, PTL

-----------------------------------------------------------------------------
(* The children: calls that start and stop them.                            *)

-----------------------------------------------------------------------------
(* The inductive invariant.                                                 *)

Unborn(s) == pc[s] \in {"preflight", "verify", "probe"}
Starting(s) == pc[s] \in {"review", "ready", "leave", "health"}
Busy == {"asking", "closing", "killing"}

(* Nothing knows a start that has not forked yet.                           *)
Births ==
  \A s \in Starts : Unborn(s) =>
    /\ child[s] = "none"
    /\ s \notin records \cup pending \cup cancelled
    /\ \A t \in Starts : found[t] # s
    /\ \A k \in KeyNames : keys[k] # s
    /\ \A o \in Callers : on[o] # s
    /\ result[s] # s

(* A start that has forked and not ended is pending, and only a stop, which *)
(* cancels it, takes its record away.                                       *)
Stages ==
  \A s \in Starts : Starting(s) => s \in pending /\ (s \in records \/ s \in cancelled)

(* A start stops nothing before it fails.                                   *)
Idlers == \A s \in Starts : Unborn(s) \/ Starting(s) => stopPc[s] = "idle"

(* A record that somebody found under a key is not pending; one that is     *)
(* being stopped while it is pending is cancelled.                          *)
Finds ==
  \A s \in Starts :
    /\ pc[s] = "verify" => found[s] # None
    /\ found[s] # None => found[s] \notin pending
Stopping == \A o \in Callers : on[o] \in pending => on[o] \in cancelled

(* Who returned its own child was not stopped before, nor pending after.    *)
Results == \A s \in Starts : result[s] = s => s \notin pending \cup cancelled

(* A stop is under way for a record; a promise is a stop that is busy.      *)
Promises ==
  /\ \A o \in Callers : stopPc[o] \in Busy \cup {"sharing"} => on[o] \in Starts
  /\ \A o \in Callers : stopPc[o] = "sharing" => promise[on[o]] # None
  /\ \A s \in Starts : promise[s] # None =>
       stopPc[promise[s]] \in Busy /\ on[promise[s]] = s

LifecycleInv ==
  /\ TypeOK
  /\ Births /\ Stages /\ Idlers /\ Finds /\ Stopping /\ Results /\ Promises
  /\ NoChildIsLost /\ KeysAreOwned

-----------------------------------------------------------------------------
LEMMA Names ==
  /\ Starts \subseteq Callers /\ Stops \subseteq Callers
  /\ \A s \in Starts : s \notin Stops
  /\ \A o \in Callers : o \notin {None, "confirm", "cancel", "failed", "external"}
BY LifecycleAssumption DEF Callers

LEMMA InvInit == LifecycleInit => LifecycleInv
<1> SUFFICES ASSUME LifecycleInit PROVE LifecycleInv
  OBVIOUS
<1>1. << >> \in Seq(Callers \cup {"confirm", "cancel"})
  OBVIOUS
<1>2. TypeOK
  BY <1>1 DEF LifecycleInit, TypeOK, Kinds
<1>3. Births /\ Stages /\ Idlers /\ Finds /\ Stopping /\ Results
  BY LifecycleAssumption DEF LifecycleInit, Births, Stages, Idlers, Finds, Stopping, Results,
     Unborn, Starting, Callers
<1>4. Promises /\ NoChildIsLost /\ KeysAreOwned
  BY DEF LifecycleInit, Promises, Busy, NoChildIsLost, Running, KeysAreOwned
<1> QED BY <1>2, <1>3, <1>4 DEF LifecycleInv

-----------------------------------------------------------------------------
(* A start that has not forked.                                             *)

(* It moves on or ends, may note what it found and return another's record, *)
(* and may retire records of dead children that are not pending.            *)
LEMMA LookingStep ==
  ASSUME LifecycleInv, NEW s \in Starts, Unborn(s),
         NEW to \in {"verify", "probe", "done"}, pc' = [pc EXCEPT ![s] = to],
         NEW r \in Starts \cup {None, "failed", "external"}, r # s,
         result' = [result EXCEPT ![s] = r],
         NEW f \in Starts \cup {None}, found' = [found EXCEPT ![s] = f],
         f # None => f \notin pending /\ ~Unborn(f),
         to = "verify" => f # None,
         NEW gone \in SUBSET Starts, records' = records \ gone,
         keys' = [k \in KeyNames |-> IF keys[k] \in gone THEN None ELSE keys[k]],
         \A g \in gone : child[g] = "exited" /\ g \notin pending,
         UNCHANGED <<kind, code, pending, cancelled, promise, stopVars, childVars>>
  PROVE  LifecycleInv'
<1> USE LifecycleAssumption DEF LifecycleInv
<1>1. /\ pc \in [Starts -> {"preflight", "verify", "probe", "review", "ready",
                            "leave", "health", "cleanup", "done"}]
      /\ found \in [Starts -> Starts \cup {None}]
      /\ result \in [Starts -> Starts \cup {None, "failed", "external"}]
      /\ keys \in [KeyNames -> Starts \cup {None}]
  BY DEF TypeOK
<1>2. /\ kind' = kind /\ code' = code /\ pending' = pending /\ cancelled' = cancelled
      /\ promise' = promise /\ stopPc' = stopPc /\ on' = on /\ rest' = rest
      /\ child' = child /\ inbox' = inbox /\ asker' = asker
  BY DEF stopVars, childVars
<1>3. TypeOK'
  BY <1>1, <1>2 DEF TypeOK
<1>4. \A t \in Starts :
        /\ (t # s => pc'[t] = pc[t] /\ result'[t] = result[t] /\ found'[t] = found[t])
        /\ pc'[s] = to /\ result'[s] = r /\ found'[s] = f
  BY <1>1
<1>5. \A k \in KeyNames : keys'[k] # None => keys'[k] = keys[k] /\ keys[k] \notin gone
  BY <1>1
<1>6. \A t \in Starts : (Unborn(t))' => Unborn(t)
  BY <1>4 DEF Unborn
<1>7. \A t \in Starts : (Starting(t))' => Starting(t)
  BY <1>4 DEF Unborn, Starting
<1>8. Births'
  <2> SUFFICES ASSUME NEW t \in Starts, (Unborn(t))'
               PROVE  /\ child'[t] = "none"
                      /\ t \notin records' \cup pending' \cup cancelled'
                      /\ \A u \in Starts : found'[u] # t
                      /\ \A k \in KeyNames : keys'[k] # t
                      /\ \A o \in Callers : on'[o] # t
                      /\ result'[t] # t
    BY DEF Births
  <2>1. Unborn(t)
    BY <1>6
  <2>2. /\ child[t] = "none"
        /\ t \notin records \cup pending \cup cancelled
        /\ \A u \in Starts : found[u] # t
        /\ \A k \in KeyNames : keys[k] # t
        /\ \A o \in Callers : on[o] # t
        /\ result[t] # t
    BY <2>1 DEF Births
  <2>3. \A u \in Starts : found'[u] # t
    BY <1>4, <2>1, <2>2, Names
  <2>4. \A k \in KeyNames : keys'[k] # t
    BY <1>5, <2>2, Names
  <2>5. result'[t] # t
    BY <1>4, <2>2
  <2> QED BY <1>2, <2>2, <2>3, <2>4, <2>5
<1>9. Stages'
  BY <1>2, <1>7 DEF Stages
<1>10. Idlers'
  BY <1>2, <1>6, <1>7 DEF Idlers
<1>11. Finds'
  BY <1>2, <1>4 DEF Finds
<1>12. Stopping' /\ Promises'
  BY <1>2 DEF Stopping, Promises
<1>13. Results'
  BY <1>2, <1>4 DEF Results
<1>14. NoChildIsLost'
  BY <1>2 DEF NoChildIsLost, Running
<1>15. KeysAreOwned'
  BY <1>2, <1>5 DEF KeysAreOwned, KeyOf
<1> QED BY <1>3, <1>8, <1>9, <1>10, <1>11, <1>12, <1>13, <1>14, <1>15

(* What Forget(r) takes away, if r is a record that is found.               *)
LEMMA ForgetOne ==
  ASSUME LifecycleInv, NEW r, Forget(r)
  PROVE  /\ records' = records \ {r}
         /\ keys' = [k \in KeyNames |-> IF keys[k] \in {r} THEN None ELSE keys[k]]
BY DEF Forget

(* What is under a key or was found there is an owned record.               *)
LEMMA FoundIsBorn ==
  ASSUME LifecycleInv, NEW r \in Starts,
         (\E k \in KeyNames : keys[k] = r) \/ (\E s \in Starts : found[s] = r)
  PROVE  r \notin pending /\ ~Unborn(r)
BY Names DEF LifecycleInv, Births, Finds, KeysAreOwned

LEMMA TypeFacts ==
  ASSUME LifecycleInv
  PROVE  /\ result \in [Starts -> Starts \cup {None, "failed", "external"}]
         /\ found \in [Starts -> Starts \cup {None}]
         /\ keys \in [KeyNames -> Starts \cup {None}]
         /\ records \subseteq Starts
         /\ \A s \in Starts : result[s] \in Starts \cup {None, "failed", "external"}
         /\ \A s \in Starts : found[s] \in Starts \cup {None}
         /\ \A k \in KeyNames : keys[k] \in Starts \cup {None}
BY DEF LifecycleInv, TypeOK

(* As LookingStep, with no record retired.                                  *)
LEMMA LookingOn ==
  ASSUME LifecycleInv, NEW s \in Starts, Unborn(s),
         NEW to \in {"verify", "probe", "done"}, pc' = [pc EXCEPT ![s] = to],
         NEW r \in Starts \cup {None, "failed", "external"}, r # s,
         result' = [result EXCEPT ![s] = r],
         NEW f \in Starts \cup {None}, found' = [found EXCEPT ![s] = f],
         f # None => f \notin pending /\ ~Unborn(f),
         to = "verify" => f # None,
         UNCHANGED <<records, keys>>,
         UNCHANGED <<kind, code, pending, cancelled, promise, stopVars, childVars>>
  PROVE  LifecycleInv'
<1> DEFINE gone == {x \in Starts : FALSE}
<1>1. gone \in SUBSET Starts /\ \A x : x \notin gone
  OBVIOUS
<1> HIDE DEF gone
<1>2. records' = records \ gone
  BY <1>1, TypeFacts
<1>3. keys' = [k \in KeyNames |-> IF keys[k] \in gone THEN None ELSE keys[k]]
  BY <1>1, TypeFacts
<1>4. \A g \in gone : child[g] = "exited" /\ g \notin pending
  BY <1>1
<1> QED BY <1>1, <1>2, <1>3, <1>4, LookingStep

LEMMA LookStep ==
  ASSUME LifecycleInv, NEW s \in Starts, NEW k \in KeyNames, NEW to \in {"verify", "probe", "done"},
         Suspended(s, "preflight"),
         \/ FailsEarly(s) /\ UNCHANGED found
         \/ keys[k] = None /\ Goes(s, "probe") /\ UNCHANGED <<found, records, keys>>
         \/ keys[k] # None /\ Replace(s, keys[k]) /\ UNCHANGED found
         \/ /\ keys[k] # None /\ Goes(s, "verify")
            /\ found' = [found EXCEPT ![s] = keys[k]]
            /\ UNCHANGED <<records, keys>>,
         UNCHANGED <<kind, code, pending, cancelled, promise, stopVars, childVars>>
  PROVE  LifecycleInv'
<1>1. Unborn(s) /\ result[s] # s
  BY DEF Suspended, Unborn, LifecycleInv, Births
<1>2. /\ found = [found EXCEPT ![s] = found[s]]
      /\ result = [result EXCEPT ![s] = result[s]]
      /\ found[s] # None => found[s] \notin pending /\ ~Unborn(found[s])
  BY TypeFacts, FoundIsBorn
<1>3. CASE FailsEarly(s) /\ UNCHANGED found
  <2>1. /\ pc' = [pc EXCEPT ![s] = "done"] /\ result' = [result EXCEPT ![s] = "failed"]
        /\ found' = [found EXCEPT ![s] = found[s]]
        /\ UNCHANGED <<records, keys>>
    BY <1>2, <1>3, TypeFacts DEF FailsEarly, Returns, Moves
  <2>2. "failed" # s
    BY Names
  <2> QED BY <1>1, <1>2, <2>1, <2>2, TypeFacts, LookingOn
<1>4. CASE keys[k] = None /\ Goes(s, "probe") /\ UNCHANGED <<found, records, keys>>
  <2>1. /\ pc' = [pc EXCEPT ![s] = "probe"] /\ result' = [result EXCEPT ![s] = result[s]]
        /\ found' = [found EXCEPT ![s] = found[s]]
        /\ UNCHANGED <<records, keys>>
    BY <1>2, <1>4, TypeFacts DEF Goes, Moves
  <2> QED BY <1>1, <1>2, <2>1, TypeFacts, LookingOn
<1>5. CASE keys[k] # None /\ Replace(s, keys[k]) /\ UNCHANGED found
  <2>1. /\ pc' = [pc EXCEPT ![s] = "probe"] /\ result' = [result EXCEPT ![s] = result[s]]
        /\ found' = [found EXCEPT ![s] = found[s]]
        /\ records' = records \ {keys[k]}
        /\ keys' = [j \in KeyNames |-> IF keys[j] \in {keys[k]} THEN None ELSE keys[j]]
    BY <1>2, <1>5, ForgetOne DEF Replace, Goes, Moves
  <2>2. keys[k] \in Starts /\ child[keys[k]] = "exited" /\ keys[k] \notin pending
    BY <1>5, TypeFacts, FoundIsBorn DEF Replace
  <2>3. {keys[k]} \in SUBSET Starts /\ \A g \in {keys[k]} : child[g] = "exited" /\ g \notin pending
    BY <2>2
  <2> QED BY <1>1, <1>2, <2>1, <2>3, TypeFacts, LookingStep
<1>6. CASE /\ keys[k] # None /\ Goes(s, "verify")
           /\ found' = [found EXCEPT ![s] = keys[k]]
           /\ UNCHANGED <<records, keys>>
  <2>1. /\ pc' = [pc EXCEPT ![s] = "verify"] /\ result' = [result EXCEPT ![s] = result[s]]
        /\ UNCHANGED <<records, keys>>
    BY <1>2, <1>6, TypeFacts DEF Goes, Moves
  <2>2. keys[k] \in Starts /\ keys[k] \notin pending /\ ~Unborn(keys[k])
    BY <1>6, TypeFacts, FoundIsBorn
  <2> QED BY <1>1, <1>6, <2>1, <2>2, TypeFacts, LookingOn
<1> QED BY <1>3, <1>4, <1>5, <1>6

LEMMA LookActions ==
  ASSUME LifecycleInv, NEW s \in Starts,
         LookForCoordinator(s) \/ LookForSeed(s) \/ LookBeforePublish(s)
  PROVE  LifecycleInv'
<1>1. "coordinator" \in KeyNames /\ "seed" \in KeyNames
  BY DEF KeyNames
<1>2. CASE LookForCoordinator(s)
  BY <1>1, <1>2, LookStep DEF LookForCoordinator
<1>3. CASE LookForSeed(s)
  BY <1>1, <1>3, LookStep DEF LookForSeed
<1>4. CASE LookBeforePublish(s)
  BY <1>1, <1>4, LookStep DEF LookBeforePublish
<1> QED BY <1>2, <1>3, <1>4

LEMMA VerifyStep ==
  ASSUME LifecycleInv, NEW s \in Starts, Verify(s)
  PROVE  LifecycleInv'
<1> DEFINE r == found[s]
<1>1. Unborn(s) /\ result[s] # s /\ pc[s] = "verify"
  BY DEF Suspended, Unborn, LifecycleInv, Births, Verify
<1>2. r \in Starts /\ r \notin pending /\ r # s
  BY <1>1, TypeFacts, FoundIsBorn DEF LifecycleInv, Finds
<1>3. /\ found' = [found EXCEPT ![s] = None]
      /\ UNCHANGED <<kind, code, pending, cancelled, promise, stopVars, childVars>>
      /\ \/ Returns(s, r) /\ UNCHANGED <<records, keys>>
         \/ Replace(s, r)
         \/ FailsEarly(s)
  BY DEF Verify
<1> HIDE DEF r
<1>4. result = [result EXCEPT ![s] = result[s]]
  BY TypeFacts
<1>5. CASE Returns(s, r) /\ UNCHANGED <<records, keys>>
  <2>1. /\ pc' = [pc EXCEPT ![s] = "done"] /\ result' = [result EXCEPT ![s] = r]
        /\ UNCHANGED <<records, keys>>
    BY <1>5, TypeFacts DEF Returns, Moves
  <2> QED BY <1>1, <1>2, <1>3, <2>1, LookingOn
<1>6. CASE Replace(s, r)
  <2>1. /\ pc' = [pc EXCEPT ![s] = "probe"] /\ result' = [result EXCEPT ![s] = result[s]]
        /\ records' = records \ {r}
        /\ keys' = [j \in KeyNames |-> IF keys[j] \in {r} THEN None ELSE keys[j]]
    BY <1>4, <1>6, ForgetOne DEF Replace, Goes, Moves
  <2>2. {r} \in SUBSET Starts /\ \A g \in {r} : child[g] = "exited" /\ g \notin pending
    BY <1>2, <1>6 DEF Replace
  <2> QED BY <1>1, <1>3, <2>1, <2>2, TypeFacts, LookingStep
<1>7. CASE FailsEarly(s)
  <2>1. /\ pc' = [pc EXCEPT ![s] = "done"] /\ result' = [result EXCEPT ![s] = "failed"]
        /\ UNCHANGED <<records, keys>>
    BY <1>7, TypeFacts DEF FailsEarly, Returns, Moves
  <2>2. "failed" # s
    BY Names
  <2> QED BY <1>1, <1>3, <2>1, <2>2, LookingOn
<1> QED BY <1>3, <1>5, <1>6, <1>7

LEMMA PortTakenStep ==
  ASSUME LifecycleInv, NEW s \in Starts,
         CoordinatorPortTaken(s) \/ SeedPortTaken(s) \/ PublishPortTaken(s)
  PROVE  LifecycleInv'
<1>1. Unborn(s)
  BY DEF CoordinatorPortTaken, SeedPortTaken, PublishPortTaken, Suspended, Unborn
<1>2. s \notin records
  BY <1>1 DEF LifecycleInv, Births
<1>3. PICK r \in Starts \cup {None, "failed", "external"} : r # s /\ Returns(s, r)
  BY <1>2, TypeFacts, Names DEF CoordinatorPortTaken, SeedPortTaken, PublishPortTaken
<1>4. UNCHANGED <<kind, code, found, tableVars, stopVars, childVars>>
  BY DEF CoordinatorPortTaken, SeedPortTaken, PublishPortTaken
<1>5. /\ pc' = [pc EXCEPT ![s] = "done"] /\ result' = [result EXCEPT ![s] = r]
      /\ found' = [found EXCEPT ![s] = found[s]]
      /\ UNCHANGED <<records, keys>>
      /\ UNCHANGED <<kind, code, pending, cancelled, promise, stopVars, childVars>>
  BY <1>3, <1>4, TypeFacts DEF Returns, Moves, tableVars
<1>6. found[s] # None => found[s] \notin pending /\ ~Unborn(found[s])
  BY TypeFacts, FoundIsBorn
<1> QED BY <1>1, <1>3, <1>5, <1>6, TypeFacts, LookingOn

-----------------------------------------------------------------------------
(* A start that has forked, and its child.                                  *)

SpawnSteps(s) == SpawnCoordinator(s) \/ SpawnSeed(s) \/ SpawnPublishing(s)

LEMMA SpawnStep ==
  ASSUME LifecycleInv, NEW s \in Starts, SpawnSteps(s)
  PROVE  LifecycleInv'
<1> USE DEF LifecycleInv
<1>1. PICK to \in {"ready", "review"} : Spawn(s, to)
  BY DEF SpawnSteps, SpawnCoordinator, SpawnSeed, SpawnPublishing
<1>2. Unborn(s)
  BY <1>1 DEF Spawn, Suspended, Unborn
<1>3. /\ pc' = [pc EXCEPT ![s] = to]
      /\ child' = [child EXCEPT ![s] = "starting"]
      /\ records' = records \cup {s} /\ pending' = pending \cup {s}
      /\ result' = result /\ kind' = kind /\ code' = code /\ found' = found
      /\ keys' = keys /\ cancelled' = cancelled /\ promise' = promise
      /\ stopPc' = stopPc /\ on' = on /\ rest' = rest /\ inbox' = inbox /\ asker' = asker
  BY <1>1 DEF Spawn, Goes, Moves, stopVars
<1>4. /\ s \notin records \cup pending \cup cancelled
      /\ \A t \in Starts : found[t] # s
      /\ \A k \in KeyNames : keys[k] # s
      /\ \A o \in Callers : on[o] # s
      /\ result[s] # s
  BY <1>2 DEF Births
<1>5. TypeOK'
  BY <1>3 DEF TypeOK
<1>6. \A t \in Starts :
        /\ t # s => pc'[t] = pc[t] /\ child'[t] = child[t]
        /\ pc'[s] = to /\ child'[s] = "starting"
  BY <1>3 DEF TypeOK
<1>7. Births'
  <2> SUFFICES ASSUME NEW t \in Starts, (Unborn(t))'
               PROVE  /\ child'[t] = "none"
                      /\ t \notin records' \cup pending' \cup cancelled'
                      /\ \A u \in Starts : found'[u] # t
                      /\ \A k \in KeyNames : keys'[k] # t
                      /\ \A o \in Callers : on'[o] # t
                      /\ result'[t] # t
    BY DEF Births
  <2>1. t # s /\ Unborn(t)
    BY <1>6 DEF Unborn
  <2> QED BY <1>3, <1>6, <2>1 DEF Births
<1>8. Stages'
  BY <1>3, <1>6 DEF Stages, Starting
<1>9. Idlers'
  BY <1>2, <1>3, <1>6 DEF Idlers, Starting, Unborn
<1>10. Finds'
  BY <1>3, <1>4, <1>6 DEF Finds
<1>11. Stopping' /\ Promises'
  BY <1>3, <1>4 DEF Stopping, Promises
<1>12. Results'
  BY <1>3, <1>4 DEF Results
<1>13. NoChildIsLost'
  BY <1>3, <1>6 DEF NoChildIsLost, Running
<1>14. KeysAreOwned'
  BY <1>3, <1>4 DEF KeysAreOwned, KeyOf
<1> QED BY <1>5, <1>7, <1>8, <1>9, <1>10, <1>11, <1>12, <1>13, <1>14

(* What a child does, or a start that goes on to its next await: no record, *)
(* key or stop changes, and no child comes to life.                         *)
LEMMA CalmStep ==
  ASSUME LifecycleInv,
         pc' \in [Starts -> {"preflight", "verify", "probe", "review", "ready",
                             "leave", "health", "cleanup", "done"}],
         \A t \in Starts : pc'[t] = pc[t] \/ (Starting(t) /\ (Starting(t))')
                           \/ (pc[t] = "cleanup" /\ pc'[t] = "done"),
         result' \in [Starts -> Starts \cup {None, "failed", "external"}],
         \A t \in Starts : result'[t] = result[t] \/ result'[t] = "failed",
         child' \in [Starts -> {"none", "starting", "review", "confirmed", "serving",
                                "stopping", "killed", "exited"}],
         \A t \in Starts : child[t] = "none" => child'[t] = "none",
         \A t \in Starts : (Running(t))' => Running(t),
         inbox' \in [Starts -> Seq(Callers \cup {"confirm", "cancel"})],
         asker' \in [Starts -> Callers \cup {None}],
         UNCHANGED <<kind, code, found, tableVars, stopVars>>
  PROVE  LifecycleInv'
<1> USE DEF LifecycleInv
<1>1. /\ kind' = kind /\ code' = code /\ found' = found
      /\ records' = records /\ keys' = keys /\ pending' = pending
      /\ cancelled' = cancelled /\ promise' = promise
      /\ stopPc' = stopPc /\ on' = on /\ rest' = rest
  BY DEF tableVars, stopVars
<1>2. TypeOK'
  BY <1>1 DEF TypeOK
<1>3. \A t \in Starts :
        /\ (Unborn(t))' => Unborn(t) /\ pc'[t] = pc[t]
        /\ (Starting(t))' => Starting(t)
        /\ pc'[t] = "verify" => pc[t] = "verify"
  BY DEF Unborn, Starting
<1>4. \A t \in Starts : result'[t] = t => result[t] = t
  BY Names
<1>5. Births'
  BY <1>1, <1>3, <1>4 DEF Births
<1>6. Stages' /\ Idlers'
  BY <1>1, <1>3 DEF Stages, Idlers
<1>7. Finds' /\ Stopping' /\ Promises' /\ Results'
  BY <1>1, <1>3, <1>4 DEF Finds, Stopping, Promises, Results
<1>8. NoChildIsLost' /\ KeysAreOwned'
  BY <1>1 DEF NoChildIsLost, KeysAreOwned, KeyOf
<1> QED BY <1>2, <1>5, <1>6, <1>7, <1>8

LEMMA TellsType ==
  ASSUME LifecycleInv, NEW s \in Starts, NEW m \in Callers \cup {"confirm", "cancel"}, Tells(s, m)
  PROVE  /\ inbox' \in [Starts -> Seq(Callers \cup {"confirm", "cancel"})]
         /\ inbox' = [inbox EXCEPT ![s] = Append(inbox[s], m)]
<1>1. Append(inbox[s], m) \in Seq(Callers \cup {"confirm", "cancel"})
  BY AppendProperties DEF LifecycleInv, TypeOK
<1> QED BY <1>1 DEF Tells, LifecycleInv, TypeOK

AwaitSteps(s) == ReviewMatches(s) \/ ReviewDiffers(s) \/ CoordinatorReady(s) \/ CleanedUp(s)

LEMMA AwaitStep ==
  ASSUME LifecycleInv, NEW s \in Starts, AwaitSteps(s)
  PROVE  LifecycleInv'
<1> USE DEF LifecycleInv
<1>1. /\ kind' = kind /\ code' = code /\ found' = found
      /\ UNCHANGED <<tableVars, stopVars>> /\ child' = child /\ asker' = asker
  BY DEF AwaitSteps, ReviewMatches, ReviewDiffers, CoordinatorReady, CleanedUp, childVars
<1>2. PICK to \in {"ready", "leave", "health", "done"} :
        /\ pc' = [pc EXCEPT ![s] = to]
        /\ IF to = "done" THEN pc[s] = "cleanup" ELSE Starting(s)
        /\ result' = IF to = "done" THEN [result EXCEPT ![s] = "failed"] ELSE result
  BY DEF AwaitSteps, ReviewMatches, ReviewDiffers, CoordinatorReady, CleanedUp,
         Goes, Moves, Returns, Suspended, Starting
<1>3. inbox' \in [Starts -> Seq(Callers \cup {"confirm", "cancel"})]
  <2>1. CASE inbox' = inbox
    BY <2>1 DEF TypeOK
  <2>2. CASE Tells(s, "confirm") \/ Tells(s, "cancel")
    BY <2>2, TellsType
  <2> QED BY <2>1, <2>2
       DEF AwaitSteps, ReviewMatches, ReviewDiffers, CoordinatorReady, CleanedUp, childVars
<1>4. /\ pc' \in [Starts -> {"preflight", "verify", "probe", "review", "ready",
                             "leave", "health", "cleanup", "done"}]
      /\ \A t \in Starts : pc'[t] = pc[t] \/ (Starting(t) /\ (Starting(t))')
                           \/ (pc[t] = "cleanup" /\ pc'[t] = "done")
  BY <1>2 DEF TypeOK, Starting
<1>5. /\ result' \in [Starts -> Starts \cup {None, "failed", "external"}]
      /\ \A t \in Starts : result'[t] = result[t] \/ result'[t] = "failed"
  BY <1>2 DEF TypeOK
<1>6. /\ child' \in [Starts -> {"none", "starting", "review", "confirmed", "serving",
                                "stopping", "killed", "exited"}]
      /\ asker' \in [Starts -> Callers \cup {None}]
      /\ \A t \in Starts : child[t] = "none" => child'[t] = "none"
      /\ \A t \in Starts : (Running(t))' => Running(t)
  BY <1>1 DEF TypeOK, Running
<1> QED BY <1>1, <1>3, <1>4, <1>5, <1>6, CalmStep

LEMMA ChildStepInv ==
  ASSUME LifecycleInv, NEW s \in Starts, ChildStep(s)
  PROVE  LifecycleInv'
<1> USE DEF LifecycleInv
<1>1. pc' = pc /\ result' = result /\ UNCHANGED <<kind, code, found, tableVars, stopVars>>
  BY DEF ChildStep, ChildReviews, ChildServes, ChildHears, ChildExits, startVars
<1>2. PICK to \in {"starting", "review", "confirmed", "serving", "stopping", "killed", "exited"} :
        child' = [child EXCEPT ![s] = to]
  <2>1. child[s] \in {"none", "starting", "review", "confirmed", "serving", "stopping",
                      "killed", "exited"}
    BY DEF TypeOK
  <2>2. CASE ChildReviews(s) \/ ChildServes(s) \/ ChildExits(s)
    BY <2>2 DEF ChildReviews, ChildServes, ChildExits
  <2>3. CASE ChildHears(s)
    BY <2>1, <2>3 DEF ChildHears, Listens
  <2> QED BY <2>2, <2>3 DEF ChildStep
<1>3. Running(s)
  BY DEF ChildStep, ChildReviews, ChildServes, ChildHears, ChildExits, Running, Listens
<1>4. /\ child' \in [Starts -> {"none", "starting", "review", "confirmed", "serving",
                                "stopping", "killed", "exited"}]
      /\ \A t \in Starts : child[t] = "none" => child'[t] = "none"
      /\ \A t \in Starts : (Running(t))' => Running(t)
  BY <1>2, <1>3 DEF TypeOK, Running
<1>5. inbox' \in [Starts -> Seq(Callers \cup {"confirm", "cancel"})]
  <2>1. inbox \in [Starts -> Seq(Callers \cup {"confirm", "cancel"})]
    BY DEF TypeOK
  <2>2. << >> \in Seq(Callers \cup {"confirm", "cancel"})
    OBVIOUS
  <2>3. inbox[s] # << >> => Tail(inbox[s]) \in Seq(Callers \cup {"confirm", "cancel"})
    BY <2>1, HeadTailProperties
  <2> QED BY <2>1, <2>2, <2>3
       DEF ChildStep, ChildReviews, ChildServes, ChildHears, ChildExits
<1>6. asker' \in [Starts -> Callers \cup {None}]
  BY DEF ChildStep, ChildReviews, ChildServes, ChildHears, ChildExits, TypeOK
<1>7. /\ pc' \in [Starts -> {"preflight", "verify", "probe", "review", "ready",
                             "leave", "health", "cleanup", "done"}]
      /\ result' \in [Starts -> Starts \cup {None, "failed", "external"}]
      /\ \A t \in Starts : pc'[t] = pc[t] /\ result'[t] = result[t]
  BY <1>1 DEF TypeOK
<1> QED BY <1>1, <1>4, <1>5, <1>6, <1>7, CalmStep

(* A child that serves, or whose start is past its health check, belongs to *)
(* a start that was not stopped: its record is owned and stays owned.       *)
LEMMA PublishStep ==
  ASSUME LifecycleInv, NEW s \in Starts, Starting(s), Publish(s)
  PROVE  LifecycleInv'
<1> USE DEF LifecycleInv
<1>1. /\ pc' = [pc EXCEPT ![s] = "done"] /\ result' = [result EXCEPT ![s] = s]
      /\ pending' = pending \ {s} /\ keys' = [keys EXCEPT ![KeyOf(s)] = s]
      /\ kind' = kind /\ code' = code /\ found' = found /\ records' = records
      /\ cancelled' = cancelled /\ promise' = promise
      /\ stopPc' = stopPc /\ on' = on /\ rest' = rest
      /\ child' = child /\ inbox' = inbox /\ asker' = asker
  BY DEF Publish, Returns, Moves, stopVars, childVars
<1>2. s \notin cancelled /\ s \in records
  BY DEF Publish, Stages
<1>3. KeyOf(s) \in KeyNames
  BY DEF KeyOf, KeyNames
<1>4. TypeOK'
  BY <1>1, <1>3 DEF TypeOK
<1>5. \A t \in Starts :
        /\ t # s => pc'[t] = pc[t] /\ result'[t] = result[t]
        /\ pc'[s] = "done" /\ result'[s] = s
  BY <1>1 DEF TypeOK
<1>6. \A k \in KeyNames : keys'[k] = IF k = KeyOf(s) THEN s ELSE keys[k]
  BY <1>1 DEF TypeOK
<1>7. Births'
  BY <1>1, <1>5, <1>6 DEF Births, Unborn
<1>8. Stages' /\ Idlers'
  BY <1>1, <1>5 DEF Stages, Idlers, Starting, Unborn
<1>9. Finds' /\ Stopping' /\ Promises'
  BY <1>1, <1>5 DEF Finds, Stopping, Promises
<1>10. Results'
  BY <1>1, <1>2, <1>5 DEF Results
<1>11. NoChildIsLost'
  BY <1>1 DEF NoChildIsLost, Running
<1>12. KeysAreOwned'
  BY <1>1, <1>2, <1>6 DEF KeysAreOwned, KeyOf
<1> QED BY <1>4, <1>7, <1>8, <1>9, <1>10, <1>11, <1>12

LEMMA ReadySteps ==
  ASSUME LifecycleInv, NEW s \in Starts, SeedReady(s) \/ CoordinatorHealthy(s)
  PROVE  LifecycleInv'
BY PublishStep DEF SeedReady, CoordinatorHealthy, Suspended, Starting

-----------------------------------------------------------------------------
(* Stopping.                                                                *)

(* A stop that is doing nothing turns to record s; a start that fails turns *)
(* to its own.                                                              *)
LEMMA StopOneStep ==
  ASSUME LifecycleInv, NEW o \in Callers, NEW s \in Starts, StopOne(o, s),
         stopPc[o] \notin Busy \cup {"sharing"},
         \/ pc' = pc /\ stopPc[o] # "idle"
         \/ o \in Starts /\ Starting(o) /\ pc' = [pc EXCEPT ![o] = "cleanup"],
         rest' \in [Callers -> SUBSET Starts],
         UNCHANGED <<kind, code, found, result>>
  PROVE  LifecycleInv'
<1> USE DEF LifecycleInv
<1>1. /\ pending' = pending /\ child' = child /\ asker' = asker
      /\ kind' = kind /\ code' = code /\ found' = found /\ result' = result
  BY DEF StopOne
<1>2. PICK to \in {"sharing", "asking", "stopped"} : stopPc' = [stopPc EXCEPT ![o] = to]
  BY DEF StopOne, Share, Ask, Retire, Enters
<1>3. /\ s \in records
      /\ cancelled' = IF s \in pending THEN cancelled \cup {s} ELSE cancelled
  BY DEF StopOne, Share, Ask, Retire
<1>4. \/ Share(o, s) /\ to = "sharing"
      \/ Ask(o, s) /\ to = "asking"
      \/ Retire(o, s) /\ to = "stopped"
  BY <1>2 DEF StopOne, Share, Ask, Retire, Enters, TypeOK
<1>5. on' = IF to = "stopped" THEN on ELSE [on EXCEPT ![o] = s]
  BY <1>4 DEF Share, Ask, Retire
<1>6. /\ records' \subseteq records
      /\ \A t \in records : t \notin records' =>
           t = s /\ ~Running(t) /\ (t \in pending => t \in cancelled')
      /\ \A k \in KeyNames : keys'[k] = keys[k] \/ keys'[k] = None
      /\ \A k \in KeyNames : keys'[k] # None => keys'[k] \notin records \ records'
      /\ keys' \in [KeyNames -> Starts \cup {None}]
  <2>1. CASE UNCHANGED <<records, keys>>
    BY <2>1 DEF TypeOK
  <2>2. CASE Retire(o, s)
    BY <1>3, <2>2, Names DEF Retire, Forget, TypeOK
  <2> QED BY <1>4, <2>1, <2>2 DEF Share, Ask
<1>7. promise' = IF to = "asking" /\ s \in pending THEN [promise EXCEPT ![s] = o]
                 ELSE promise
  BY <1>4 DEF Share, Ask, Retire, TypeOK
<1>8. inbox' \in [Starts -> Seq(Callers \cup {"confirm", "cancel"})]
  <2>1. CASE inbox' = inbox
    BY <2>1 DEF TypeOK
  <2>2. CASE Tells(s, o)
    BY <2>2, TellsType
  <2> QED BY <1>4, <2>1, <2>2 DEF Share, Ask, Retire
<1>9. /\ pc' \in [Starts -> {"preflight", "verify", "probe", "review", "ready",
                             "leave", "health", "cleanup", "done"}]
      /\ \A t \in Starts : pc'[t] = pc[t] \/ (t = o /\ pc'[t] = "cleanup" /\ Starting(t))
  <2>1. pc \in [Starts -> {"preflight", "verify", "probe", "review", "ready",
                          "leave", "health", "cleanup", "done"}]
    BY DEF TypeOK
  <2>2. CASE pc' = pc
    BY <2>1, <2>2
  <2>3. CASE o \in Starts /\ Starting(o) /\ pc' = [pc EXCEPT ![o] = "cleanup"]
    BY <2>1, <2>3
  <2> QED BY <2>2, <2>3
<1>10. TypeOK'
  BY <1>1, <1>2, <1>3, <1>5, <1>6, <1>7, <1>8, <1>9 DEF TypeOK
<1>11. \A t \in Starts :
         /\ (Unborn(t))' => Unborn(t) /\ pc'[t] = pc[t]
         /\ (Starting(t))' => Starting(t) /\ pc'[t] = pc[t]
         /\ pc'[t] = "verify" => pc[t] = "verify"
  BY <1>9 DEF Unborn, Starting
<1>12. \A p \in Callers :
         /\ p # o => stopPc'[p] = stopPc[p] /\ on'[p] = on[p]
         /\ stopPc'[o] = to /\ on'[o] = IF to = "stopped" THEN on[o] ELSE s
  BY <1>2, <1>5 DEF TypeOK
<1>13. Births'
  <2> SUFFICES ASSUME NEW t \in Starts, (Unborn(t))'
               PROVE  /\ child'[t] = "none"
                      /\ t \notin records' \cup pending' \cup cancelled'
                      /\ \A u \in Starts : found'[u] # t
                      /\ \A k \in KeyNames : keys'[k] # t
                      /\ \A p \in Callers : on'[p] # t
                      /\ result'[t] # t
    BY DEF Births
  <2>1. /\ child[t] = "none"
        /\ t \notin records \cup pending \cup cancelled
        /\ \A u \in Starts : found[u] # t
        /\ \A k \in KeyNames : keys[k] # t
        /\ \A p \in Callers : on[p] # t
        /\ result[t] # t
    BY <1>11 DEF Births
  <2>2. t # s /\ t # None
    BY <1>3, <2>1, Names
  <2>3. \A p \in Callers : on'[p] # t
    BY <1>12, <2>1, <2>2
  <2> QED BY <1>1, <1>3, <1>6, <2>1, <2>2, <2>3
<1>14. Stages'
  <2> SUFFICES ASSUME NEW t \in Starts, (Starting(t))'
               PROVE  t \in pending' /\ (t \in records' \/ t \in cancelled')
    BY DEF Stages
  <2>1. t \in pending /\ (t \in records \/ t \in cancelled)
    BY <1>11 DEF Stages
  <2> QED BY <1>1, <1>3, <1>6, <2>1
<1>15. Idlers'
  <2> SUFFICES ASSUME NEW t \in Starts, (Unborn(t))' \/ (Starting(t))'
               PROVE  stopPc'[t] = "idle"
    BY DEF Idlers
  <2>1. (Unborn(t) \/ Starting(t)) /\ pc'[t] = pc[t]
    BY <1>11
  <2>2. stopPc[t] = "idle"
    BY <2>1 DEF Idlers
  <2>3. t # o
    BY <2>1, <2>2 DEF TypeOK, Starting
  <2> QED BY <1>12, <2>2, <2>3, Names
<1>16. Finds'
  BY <1>1, <1>11 DEF Finds
<1>17. Stopping'
  BY <1>1, <1>3, <1>12 DEF Stopping
<1>18. Results'
  BY <1>1, <1>3 DEF Results
<1>19. \A t \in Starts : promise'[t] = IF t = s /\ to = "asking" /\ s \in pending THEN o
                                       ELSE promise[t]
  BY <1>7 DEF TypeOK
<1>20. Promises'
  <2>1. ASSUME NEW p \in Callers, stopPc'[p] \in Busy \cup {"sharing"}
        PROVE  on'[p] \in Starts
    BY <1>12, <2>1 DEF Promises, Busy
  <2>2. ASSUME NEW p \in Callers, stopPc'[p] = "sharing"
        PROVE  promise'[on'[p]] # None
    <3>1. CASE p = o
      BY <1>4, <1>12, <1>19, <2>2, <3>1 DEF Share
    <3>2. CASE p # o
      <4>1. on[p] \in Starts /\ promise[on[p]] # None /\ on'[p] = on[p]
        BY <1>12, <2>2, <3>2 DEF Promises
      <4> QED BY <1>19, <4>1, Names
    <3> QED BY <3>1, <3>2
  <2>3. ASSUME NEW t \in Starts, promise'[t] # None
        PROVE  stopPc'[promise'[t]] \in Busy /\ on'[promise'[t]] = t
    <3>1. CASE t = s /\ to = "asking" /\ s \in pending
      BY <1>12, <1>19, <3>1 DEF Busy
    <3>2. CASE ~(t = s /\ to = "asking" /\ s \in pending)
      <4>1. promise'[t] = promise[t] /\ promise[t] \in Callers
        BY <1>19, <2>3, <3>2 DEF TypeOK
      <4>2. stopPc[promise[t]] \in Busy /\ on[promise[t]] = t
        BY <2>3, <4>1 DEF Promises
      <4>3. promise[t] # o
        BY <4>2
      <4> QED BY <1>12, <4>1, <4>2, <4>3
    <3> QED BY <3>1, <3>2
  <2> QED BY <2>1, <2>2, <2>3 DEF Promises
<1>21. NoChildIsLost'
  BY <1>1, <1>6 DEF NoChildIsLost, Running
<1>22. KeysAreOwned'
  <2> SUFFICES ASSUME NEW k \in KeyNames, keys'[k] # None
               PROVE  /\ keys'[k] \in records' \ (pending' \cup cancelled')
                      /\ (KeyOf(keys[k]) = k)'
    BY DEF KeysAreOwned
  <2>1. keys'[k] = keys[k] /\ keys[k] \in records \ (pending \cup cancelled)
    BY <1>6 DEF KeysAreOwned
  <2>2. keys'[k] \in records' \ (pending' \cup cancelled')
    BY <1>1, <1>3, <1>6, <2>1
  <2> QED BY <1>1, <2>1, <2>2 DEF KeysAreOwned, KeyOf
<1> QED BY <1>10, <1>13, <1>14, <1>15, <1>16, <1>17, <1>18, <1>20, <1>21, <1>22

(* Only the place of stops changes, none of them busy or idle before or     *)
(* after but where it says so.                                              *)
LEMMA StopsOnly ==
  ASSUME LifecycleInv, NEW o \in Callers, NEW to \in Busy \cup {"stopped"},
         stopPc' = [stopPc EXCEPT ![o] = to],
         \/ to \in Busy /\ stopPc[o] \in Busy
         \/ to = "stopped" /\ stopPc[o] = "idle" /\ o \notin Starts,
         rest' \in [Callers -> SUBSET Starts], on' = on,
         child' \in [Starts -> {"none", "starting", "review", "confirmed", "serving",
                                "stopping", "killed", "exited"}],
         \A t \in Starts : child[t] = "none" => child'[t] = "none",
         \A t \in Starts : (Running(t))' => Running(t),
         UNCHANGED <<startVars, tableVars, inbox, asker>>
  PROVE  LifecycleInv'
<1> USE DEF LifecycleInv
<1>1. /\ kind' = kind /\ code' = code /\ found' = found /\ pc' = pc /\ result' = result
      /\ records' = records /\ keys' = keys /\ pending' = pending
      /\ cancelled' = cancelled /\ promise' = promise
      /\ inbox' = inbox /\ asker' = asker
  BY DEF startVars, tableVars
<1>2. TypeOK'
  BY <1>1 DEF TypeOK, Busy
<1>3. \A p \in Callers : stopPc'[p] = IF p = o THEN to ELSE stopPc[p]
  BY DEF TypeOK
<1>4. Births' /\ Stages' /\ Finds' /\ Stopping' /\ Results'
  BY <1>1 DEF Births, Stages, Finds, Stopping, Results, Unborn, Starting
<1>5. Idlers'
  <2> SUFFICES ASSUME NEW t \in Starts, Unborn(t) \/ Starting(t)
               PROVE  stopPc'[t] = "idle"
    BY <1>1 DEF Idlers, Unborn, Starting
  <2>1. stopPc[t] = "idle"
    BY DEF Idlers
  <2>2. t # o
    BY <2>1 DEF Busy
  <2> QED BY <1>3, <2>1, <2>2, Names
<1>6. Promises'
  <2>1. \A p \in Callers : /\ stopPc'[p] \in Busy \cup {"sharing"} =>
                                stopPc[p] \in Busy \cup {"sharing"}
                           /\ stopPc'[p] = "sharing" => stopPc[p] = "sharing"
                           /\ stopPc[p] \in Busy => stopPc'[p] \in Busy
    BY <1>3 DEF Busy
  <2>2. \A s \in Starts : promise[s] \in Callers \cup {None}
    BY DEF TypeOK
  <2> QED BY <1>1, <2>1, <2>2 DEF Promises
<1>7. NoChildIsLost' /\ KeysAreOwned'
  BY <1>1 DEF NoChildIsLost, KeysAreOwned, KeyOf
<1> QED BY <1>2, <1>4, <1>5, <1>6, <1>7

(* A start whose record a stop has taken away ends.                         *)
LEMMA EndsStep ==
  ASSUME LifecycleInv, NEW s \in Starts, Starting(s),
         pc' = [pc EXCEPT ![s] = "done"], result' = [result EXCEPT ![s] = "failed"],
         UNCHANGED <<kind, code, found, tableVars, stopVars, childVars>>
  PROVE  LifecycleInv'
<1> USE DEF LifecycleInv
<1>1. /\ kind' = kind /\ code' = code /\ found' = found
      /\ records' = records /\ keys' = keys /\ pending' = pending
      /\ cancelled' = cancelled /\ promise' = promise
      /\ stopPc' = stopPc /\ on' = on /\ rest' = rest
      /\ child' = child /\ inbox' = inbox /\ asker' = asker
  BY DEF tableVars, stopVars, childVars
<1>2. TypeOK'
  BY <1>1 DEF TypeOK
<1>3. \A t \in Starts :
        /\ t # s => pc'[t] = pc[t] /\ result'[t] = result[t]
        /\ pc'[s] = "done" /\ result'[s] = "failed"
  BY DEF TypeOK
<1>4. \A t \in Starts :
        /\ (Unborn(t))' => Unborn(t)
        /\ (Starting(t))' => Starting(t)
        /\ pc'[t] = "verify" => pc[t] = "verify"
        /\ result'[t] = t => result[t] = t
  BY <1>3, Names DEF Unborn, Starting
<1>5. Births' /\ Stages' /\ Idlers'
  BY <1>1, <1>4 DEF Births, Stages, Idlers
<1>6. Finds' /\ Stopping' /\ Promises' /\ Results'
  BY <1>1, <1>4 DEF Finds, Stopping, Promises, Results
<1>7. NoChildIsLost' /\ KeysAreOwned'
  BY <1>1 DEF NoChildIsLost, Running, KeysAreOwned, KeyOf
<1> QED BY <1>2, <1>5, <1>6, <1>7

LEMMA FailStep ==
  ASSUME LifecycleInv, NEW s \in Starts, Fail(s)
  PROVE  LifecycleInv'
<1>1. Starting(s)
  BY DEF Fail, Suspended, Starting
<1>2. stopPc[s] = "idle"
  BY <1>1 DEF LifecycleInv, Idlers
<1>3. CASE s \in records
  <2>1. /\ StopOne(s, s) /\ pc' = [pc EXCEPT ![s] = "cleanup"] /\ result' = result
        /\ UNCHANGED <<kind, code, found>> /\ rest' = rest
    BY <1>3 DEF Fail, Goes, Moves
  <2>2. rest' \in [Callers -> SUBSET Starts]
    BY <2>1 DEF LifecycleInv, TypeOK
  <2>3. s \in Callers /\ stopPc[s] \notin Busy \cup {"sharing"}
    BY <1>2, Names DEF Busy
  <2> QED BY <1>1, <2>1, <2>2, <2>3, StopOneStep
<1>4. CASE s \notin records
  <2>1. /\ pc' = [pc EXCEPT ![s] = "done"] /\ result' = [result EXCEPT ![s] = "failed"]
        /\ UNCHANGED <<kind, code, found, tableVars, stopVars, childVars>>
    BY <1>4 DEF Fail, Returns, Moves
  <2> QED BY <1>1, <2>1, EndsStep
<1> QED BY <1>3, <1>4

LEMMA BeginStopStep ==
  ASSUME LifecycleInv, NEW o \in Stops, BeginStop(o)
  PROVE  LifecycleInv'
<1> USE DEF LifecycleInv
<1>1. /\ UNCHANGED <<startVars, tableVars, childVars>> /\ on' = on
      /\ stopPc' = [stopPc EXCEPT ![o] = "stopped"] /\ stopPc[o] = "idle"
  BY DEF BeginStop, Enters
<1>2. rest' \in [Callers -> SUBSET Starts]
  <2>1. PICK targets \in {records} \cup {{r} : r \in {result[s] : s \in Starts} \cap Starts} :
          rest' = [rest EXCEPT ![o] = targets]
    BY DEF BeginStop
  <2>2. targets \in SUBSET Starts
    BY DEF TypeOK
  <2> QED BY <2>1, <2>2 DEF TypeOK
<1>3. o \in Callers /\ \A s \in Starts : s # o
  BY Names
<1>4. /\ child' = child /\ UNCHANGED <<inbox, asker>>
      /\ child \in [Starts -> {"none", "starting", "review", "confirmed", "serving",
                               "stopping", "killed", "exited"}]
  BY <1>1 DEF childVars, TypeOK
<1>5. \A t \in Starts : (Running(t))' => Running(t)
  BY <1>4 DEF Running
<1> QED BY <1>1, <1>2, <1>3, <1>4, <1>5, StopsOnly

LEMMA AnsweredStep ==
  ASSUME LifecycleInv, NEW o \in Callers, Answered(o) \/ Kill(o)
  PROVE  LifecycleInv'
<1> USE DEF LifecycleInv
<1>1. /\ UNCHANGED <<startVars, tableVars, inbox, asker>> /\ on' = on /\ rest' = rest
      /\ stopPc[o] \in Busy
  BY DEF Answered, Kill, Busy, childVars
<1>2. PICK to \in Busy : stopPc' = [stopPc EXCEPT ![o] = to]
  BY DEF Answered, Kill, Enters, Busy
<1>3. on[o] \in Starts
  BY <1>1 DEF Promises
<1>4. /\ child' \in [Starts -> {"none", "starting", "review", "confirmed", "serving",
                                "stopping", "killed", "exited"}]
      /\ \A t \in Starts : child[t] = "none" => child'[t] = "none"
      /\ \A t \in Starts : (Running(t))' => Running(t)
  <2>1. CASE child' = child
    BY <2>1 DEF TypeOK, Running
  <2>2. CASE Kill(o)
    BY <1>3, <2>2 DEF Kill, TypeOK, Running
  <2> QED BY <2>1, <2>2 DEF Answered, childVars
<1>5. rest' \in [Callers -> SUBSET Starts]
  BY <1>1 DEF TypeOK
<1> QED BY <1>1, <1>2, <1>4, <1>5, StopsOnly

(* A stop ends for itself and for those who share it; its record leaves the *)
(* table only if the child has exited.                                      *)
LEMMA SettleStep ==
  ASSUME LifecycleInv, NEW o \in Callers, NEW outcome \in {"stopped", "threw"},
         stopPc[o] \in Busy, Settle(o, on[o], outcome),
         \/ UNCHANGED <<records, keys>>
         \/ child[on[o]] = "exited" /\ Forget(on[o]),
         UNCHANGED <<startVars, pending, cancelled, childVars>>
  PROVE  LifecycleInv'
<1> USE DEF LifecycleInv
<1> DEFINE s == on[o]
           served == {o} \cup {p \in Callers :
                        promise[s] = o /\ stopPc[p] = "sharing" /\ on[p] = s}
<1>1. /\ kind' = kind /\ code' = code /\ found' = found /\ pc' = pc /\ result' = result
      /\ pending' = pending /\ cancelled' = cancelled
      /\ child' = child /\ inbox' = inbox /\ asker' = asker
  BY DEF startVars, childVars
<1>2. s \in Starts
  BY DEF Promises
<1>3. /\ stopPc' = [p \in Callers |-> IF p \in served THEN outcome ELSE stopPc[p]]
      /\ on' = [p \in Callers |-> IF p \in served THEN None ELSE on[p]]
      /\ rest' = [p \in Callers |-> IF p \in served /\ outcome = "threw" THEN {} ELSE rest[p]]
      /\ promise' = [promise EXCEPT ![s] = IF promise[s] = o THEN None ELSE promise[s]]
  BY DEF Settle
<1>4. /\ served \subseteq Callers /\ o \in served
      /\ \A p \in served : stopPc[p] \in Busy \cup {"sharing"}
      /\ \A p \in served : p # o => promise[s] = o /\ on[p] = s /\ stopPc[p] = "sharing"
      /\ \A p \in Callers : promise[s] = o /\ stopPc[p] = "sharing" /\ on[p] = s => p \in served
  OBVIOUS
<1> HIDE DEF served
<1>5. /\ records' \subseteq records
      /\ \A t \in records : t \notin records' => t = s /\ ~Running(t)
      /\ \A k \in KeyNames : keys'[k] = keys[k] \/ keys'[k] = None
      /\ \A k \in KeyNames : keys'[k] # None => keys'[k] \notin records \ records'
      /\ keys' \in [KeyNames -> Starts \cup {None}]
  <2>1. CASE UNCHANGED <<records, keys>>
    BY <2>1 DEF TypeOK
  <2>2. CASE child[s] = "exited" /\ Forget(s)
    BY <1>2, <2>2, Names DEF Forget, TypeOK, Running
  <2> QED BY <2>1, <2>2
<1> HIDE DEF s
<1>6. TypeOK'
  BY <1>1, <1>2, <1>3, <1>4, <1>5 DEF TypeOK
<1>7. \A p \in Callers :
        /\ p \in served => stopPc'[p] = outcome /\ on'[p] = None
        /\ p \notin served => stopPc'[p] = stopPc[p] /\ on'[p] = on[p]
  BY <1>3
<1>8. \A t \in Starts :
        promise'[t] = IF t = s /\ promise[t] = o THEN None ELSE promise[t]
  BY <1>3 DEF TypeOK
<1>9. Births'
  BY <1>1, <1>5, <1>7, Names DEF Births, Unborn
<1>10. Stages'
  <2> SUFFICES ASSUME NEW t \in Starts, Starting(t)
               PROVE  t \in pending /\ (t \in records' \/ t \in cancelled)
    BY <1>1 DEF Stages, Starting
  <2>1. t \in pending /\ (t \in records \/ t \in cancelled)
    BY DEF Stages
  <2>2. s \in pending => s \in cancelled
    BY DEF Stopping, s
  <2> QED BY <1>5, <2>1, <2>2
<1>11. Idlers'
  <2> SUFFICES ASSUME NEW t \in Starts, Unborn(t) \/ Starting(t)
               PROVE  stopPc'[t] = "idle"
    BY <1>1 DEF Idlers, Unborn, Starting
  <2>1. stopPc[t] = "idle"
    BY DEF Idlers
  <2>2. t \notin served
    BY <1>4, <2>1 DEF Busy
  <2> QED BY <1>7, <2>1, <2>2, Names
<1>12. Finds' /\ Results'
  BY <1>1 DEF Finds, Results
<1>13. Stopping'
  BY <1>1, <1>6, <1>7, Names DEF Stopping, TypeOK
<1>14. Promises'
  <2>1. ASSUME NEW p \in Callers, stopPc'[p] \in Busy \cup {"sharing"}
        PROVE  p \notin served /\ on'[p] \in Starts
    BY <1>7, <2>1 DEF Promises, Busy
  <2>2. ASSUME NEW p \in Callers, stopPc'[p] = "sharing"
        PROVE  promise'[on'[p]] # None
    <3>1. p \notin served /\ on'[p] = on[p] /\ stopPc[p] = "sharing"
      BY <1>7, <2>1, <2>2
    <3>2. on[p] \in Starts /\ promise[on[p]] # None
      BY <3>1 DEF Promises
    <3>3. ~(on[p] = s /\ promise[on[p]] = o)
      BY <1>4, <3>1
    <3> QED BY <1>8, <3>1, <3>2, <3>3
  <2>3. ASSUME NEW t \in Starts, promise'[t] # None
        PROVE  stopPc'[promise'[t]] \in Busy /\ on'[promise'[t]] = t
    <3>1. promise'[t] = promise[t] /\ promise[t] \in Callers
      BY <1>8, <2>3 DEF TypeOK
    <3>2. stopPc[promise[t]] \in Busy /\ on[promise[t]] = t
      BY <2>3, <3>1 DEF Promises
    <3>3. promise[t] # o
      BY <1>8, <2>3, <3>1, <3>2 DEF s
    <3>4. promise[t] \notin served
      BY <1>4, <3>2, <3>3 DEF Busy
    <3> QED BY <1>7, <3>1, <3>2, <3>4
  <2> QED BY <2>1, <2>2, <2>3 DEF Promises
<1>15. NoChildIsLost'
  BY <1>1, <1>5 DEF NoChildIsLost, Running
<1>16. KeysAreOwned'
  <2> SUFFICES ASSUME NEW k \in KeyNames, keys'[k] # None
               PROVE  /\ keys'[k] \in records' \ (pending' \cup cancelled')
                      /\ (KeyOf(keys[k]) = k)'
    BY DEF KeysAreOwned
  <2>1. keys'[k] = keys[k] /\ keys[k] \in records \ (pending \cup cancelled)
    BY <1>5 DEF KeysAreOwned
  <2>2. keys'[k] \in records' \ (pending' \cup cancelled')
    BY <1>1, <1>5, <2>1
  <2> QED BY <1>1, <2>1, <2>2 DEF KeysAreOwned, KeyOf
<1> QED BY <1>6, <1>9, <1>10, <1>11, <1>12, <1>13, <1>14, <1>15, <1>16

LEMMA EndOfStopStep ==
  ASSUME LifecycleInv, NEW o \in Callers, SeesExit(o) \/ GivesUp(o)
  PROVE  LifecycleInv'
<1>1. stopPc[o] \in Busy /\ UNCHANGED <<startVars, pending, cancelled, childVars>>
  BY DEF SeesExit, GivesUp, Busy
<1>2. PICK outcome \in {"stopped", "threw"} : Settle(o, on[o], outcome)
  BY DEF SeesExit, GivesUp
<1>3. \/ UNCHANGED <<records, keys>>
      \/ child[on[o]] = "exited" /\ Forget(on[o])
  BY DEF SeesExit, GivesUp
<1> QED BY <1>1, <1>2, <1>3, SettleStep

LEMMA StopNextStep ==
  ASSUME LifecycleInv, NEW o \in Callers, StopNext(o)
  PROVE  LifecycleInv'
<1>1. stopPc[o] = "stopped" /\ UNCHANGED startVars
  BY DEF StopNext
<1>2. PICK s \in rest[o] :
        /\ rest' = [rest EXCEPT ![o] = @ \ {s}]
        /\ \/ StopOne(o, s)
           \/ UNCHANGED <<tableVars, stopPc, on, childVars>>
  BY DEF StopNext
<1>3. s \in Starts /\ rest' \in [Callers -> SUBSET Starts]
  BY <1>2 DEF LifecycleInv, TypeOK
<1>4. CASE StopOne(o, s)
  <2>1. stopPc[o] \notin Busy \cup {"sharing"} /\ stopPc[o] # "idle"
    BY <1>1 DEF Busy
  <2>2. pc' = pc /\ UNCHANGED <<kind, code, found, result>>
    BY <1>1 DEF startVars
  <2> QED BY <1>3, <1>4, <2>1, <2>2, StopOneStep
<1>5. CASE UNCHANGED <<tableVars, stopPc, on, childVars>>
  <2>1. /\ pc' = pc /\ kind' = kind /\ code' = code /\ found' = found /\ result' = result
        /\ records' = records /\ keys' = keys /\ pending' = pending
        /\ cancelled' = cancelled /\ promise' = promise
        /\ stopPc' = stopPc /\ on' = on
        /\ child' = child /\ inbox' = inbox /\ asker' = asker
    BY <1>1, <1>5 DEF startVars, tableVars, childVars
  <2>2. TypeOK'
    BY <1>3, <2>1 DEF LifecycleInv, TypeOK
  <2>3. (Births /\ Stages /\ Idlers /\ Finds /\ Stopping /\ Results)'
    BY <2>1 DEF LifecycleInv, Births, Stages, Idlers, Finds, Stopping, Results, Unborn, Starting
  <2>4. (Promises /\ NoChildIsLost /\ KeysAreOwned)'
    BY <2>1 DEF LifecycleInv, Promises, NoChildIsLost, Running, KeysAreOwned, KeyOf
  <2> QED BY <2>2, <2>3, <2>4 DEF LifecycleInv
<1> QED BY <1>2, <1>4, <1>5

-----------------------------------------------------------------------------
LEMMA InvStep == LifecycleInv /\ [LifecycleNext]_lifecycleVars => LifecycleInv'
<1> SUFFICES ASSUME LifecycleInv, [LifecycleNext]_lifecycleVars PROVE LifecycleInv'
  OBVIOUS
<1>1. ASSUME NEW s \in Starts, StartStep(s)
      PROVE  LifecycleInv'
  BY <1>1, LookActions, VerifyStep, PortTakenStep, SpawnStep, AwaitStep, ReadySteps, FailStep
     DEF StartStep, SpawnSteps, AwaitSteps
<1>2. ASSUME NEW s \in Starts, ChildStep(s)
      PROVE  LifecycleInv'
  BY <1>2, ChildStepInv
<1>3. ASSUME NEW o \in Stops, BeginStop(o)
      PROVE  LifecycleInv'
  BY <1>3, BeginStopStep
<1>4. ASSUME NEW o \in Callers, StopStep(o)
      PROVE  LifecycleInv'
  BY <1>4, StopNextStep, AnsweredStep, EndOfStopStep DEF StopStep
<1>5. CASE UNCHANGED lifecycleVars
  <2>1. /\ pc' = pc /\ kind' = kind /\ code' = code /\ found' = found /\ result' = result
        /\ records' = records /\ keys' = keys /\ pending' = pending
        /\ cancelled' = cancelled /\ promise' = promise
        /\ stopPc' = stopPc /\ on' = on /\ rest' = rest
        /\ child' = child /\ inbox' = inbox /\ asker' = asker
    BY <1>5 DEF lifecycleVars, startVars, tableVars, stopVars, childVars
  <2>2. TypeOK'
    BY <2>1 DEF LifecycleInv, TypeOK
  <2>3. (Births /\ Stages /\ Idlers /\ Finds /\ Stopping /\ Results)'
    BY <2>1 DEF LifecycleInv, Births, Stages, Idlers, Finds, Stopping, Results, Unborn, Starting
  <2>4. (Promises /\ NoChildIsLost /\ KeysAreOwned)'
    BY <2>1 DEF LifecycleInv, Promises, NoChildIsLost, Running, KeysAreOwned, KeyOf
  <2> QED BY <2>2, <2>3, <2>4 DEF LifecycleInv
<1> QED BY <1>1, <1>2, <1>3, <1>4, <1>5 DEF LifecycleNext, Ended

LEMMA Invariance == LifecycleSpec => []LifecycleInv
<1> QED BY InvInit, InvStep, PTL DEF LifecycleSpec

(* The table of TeamForgeProcessLifecycleManager keeps every child that     *)
(* runs, whatever fails, times out, is shared or replaced.                  *)
THEOREM OwnedUntilExit == LifecycleSpec => []NoChildIsLost
<1>1. LifecycleInv => NoChildIsLost
  BY DEF LifecycleInv
<1> QED BY <1>1, Invariance, PTL

(* A reuse key leads to an owned record of a start that succeeded and was   *)
(* not stopped, of the kind of the key.                                     *)
THEOREM KeysLeadHome == LifecycleSpec => []KeysAreOwned
<1>1. LifecycleInv => KeysAreOwned
  BY DEF LifecycleInv
<1> QED BY <1>1, Invariance, PTL

(* A caller that shares a stop shares one that is still under way for the   *)
(* same record, so that its end settles the sharer too.                     *)
THEOREM SharersJoinBusyStops == LifecycleSpec => []SharersAreServed
<1>1. LifecycleInv => SharersAreServed
  BY Names DEF LifecycleInv, Promises, SharersAreServed, Busy
<1> QED BY <1>1, Invariance, PTL

-----------------------------------------------------------------------------
(* A stop wins over the start it stops.                                     *)

Won(s) ==
  /\ s \in pending => s \in pending'
  /\ result'[s] # s
  /\ "confirm" \in ToSet(inbox'[s]) => "confirm" \in ToSet(inbox[s])

(* Only a publication takes a record from the pending ones.                 *)
LEMMA PendingStays ==
  ASSUME LifecycleInv, LifecycleNext, NEW s \in cancelled, s \in pending
  PROVE  s \in pending'
<1>1. ASSUME NEW t \in Starts, StartStep(t)
      PROVE  pending' = pending \/ pending' = pending \cup {t}
             \/ (pending' = pending \ {t} /\ t \notin cancelled)
  BY <1>1 DEF StartStep, LookForCoordinator, LookForSeed, LookBeforePublish, Verify,
     CoordinatorPortTaken, SeedPortTaken, PublishPortTaken, SpawnCoordinator, SpawnSeed,
     SpawnPublishing, Spawn, ReviewMatches, ReviewDiffers, SeedReady, CoordinatorReady,
     CoordinatorHealthy, Publish, Fail, StopOne, CleanedUp, tableVars
<1>2. ASSUME NEW t \in Starts, ChildStep(t)
      PROVE  pending' = pending
  BY <1>2 DEF ChildStep, ChildReviews, ChildServes, ChildHears, ChildExits, tableVars
<1>3. ASSUME NEW o \in Stops, BeginStop(o)
      PROVE  pending' = pending
  BY <1>3 DEF BeginStop, tableVars
<1>4. ASSUME NEW o \in Callers, StopStep(o)
      PROVE  pending' = pending
  BY <1>4 DEF StopStep, StopNext, StopOne, Answered, SeesExit, GivesUp, Kill, tableVars
<1>5. Ended => pending' = pending
  BY DEF Ended, lifecycleVars, tableVars
<1> QED BY <1>1, <1>2, <1>3, <1>4, <1>5 DEF LifecycleNext

(* Only the start itself returns its child, and not once it is cancelled.   *)
LEMMA ResultStays ==
  ASSUME LifecycleInv, LifecycleNext, NEW s \in cancelled
  PROVE  result'[s] # s
<1>1. s \in Starts /\ result[s] # s
  BY DEF LifecycleInv, TypeOK, Results
<1>2. \A t \in Starts : ~Unborn(s) \/ (found[t] # s /\ s \notin records)
  BY <1>1 DEF LifecycleInv, Births
<1>3. ASSUME NEW t \in Starts, StartStep(t)
      PROVE  \/ result' = result
             \/ \E r : result' = [result EXCEPT ![t] = r] /\ (t = s => r # s)
  <2>1. CASE LookForCoordinator(t) \/ LookForSeed(t) \/ LookBeforePublish(t) \/ SpawnSteps(t)
             \/ AwaitSteps(t) \/ Fail(t) \/ CoordinatorPortTaken(t) \/ PublishPortTaken(t)
    BY <1>1, <2>1, Names DEF LookForCoordinator, LookForSeed, LookBeforePublish, FailsEarly,
       Replace, SpawnSteps, SpawnCoordinator, SpawnSeed, SpawnPublishing, Spawn, AwaitSteps,
       ReviewMatches, ReviewDiffers, CoordinatorReady, CleanedUp, Fail, CoordinatorPortTaken,
       PublishPortTaken, Goes, Returns
  <2>2. CASE Verify(t)
    <3>1. t = s => found[t] # s
      BY <1>1, <1>2, <2>2 DEF Verify, Suspended, Unborn
    <3> QED BY <1>1, <2>2, <3>1, Names DEF Verify, Returns, Replace, FailsEarly, Goes
  <2>3. CASE SeedPortTaken(t)
    <3>1. t = s => s \notin records
      BY <1>1, <1>2, <2>3 DEF SeedPortTaken, Suspended, Unborn
    <3> QED BY <1>1, <2>3, <3>1, Names DEF SeedPortTaken, Returns
  <2>4. CASE SeedReady(t) \/ CoordinatorHealthy(t)
    BY <2>4 DEF SeedReady, CoordinatorHealthy, Publish, Returns
  <2> QED BY <1>3, <2>1, <2>2, <2>3, <2>4 DEF StartStep, SpawnSteps, AwaitSteps
<1>4. ASSUME NEW t \in Starts, ChildStep(t)
      PROVE  result' = result
  BY <1>4 DEF ChildStep, ChildReviews, ChildServes, ChildHears, ChildExits, startVars
<1>5. ASSUME NEW o \in Stops, BeginStop(o)
      PROVE  result' = result
  BY <1>5 DEF BeginStop, startVars
<1>6. ASSUME NEW o \in Callers, StopStep(o)
      PROVE  result' = result
  BY <1>6 DEF StopStep, StopNext, Answered, SeesExit, GivesUp, Kill, startVars
<1>7. Ended => result' = result
  BY DEF Ended, lifecycleVars, startVars
<1>8. \/ result' = result
      \/ \E t \in Starts : \E r : result' = [result EXCEPT ![t] = r] /\ (t = s => r # s)
  BY <1>3, <1>4, <1>5, <1>6, <1>7 DEF LifecycleNext
<1> QED BY <1>1, <1>8 DEF LifecycleInv, TypeOK

LEMMA SetOfAppend ==
  ASSUME NEW S, NEW q \in Seq(S), NEW m \in S, NEW x \in ToSet(Append(q, m))
  PROVE  x \in ToSet(q) \/ x = m
<1>1. Append(q, m) \in Seq(S) /\ Len(Append(q, m)) = Len(q) + 1
  BY AppendProperties
<1>2. PICK i \in DOMAIN Append(q, m) : x = Append(q, m)[i]
  BY DEF ToSet
<1>3. i \in 1 .. Len(q) + 1
  BY <1>1, <1>2
<1>4. CASE i = Len(q) + 1
  BY <1>2, <1>4, AppendProperties
<1>5. CASE i # Len(q) + 1
  <2>1. i \in DOMAIN q /\ Append(q, m)[i] = q[i]
    BY <1>3, <1>5, AppendProperties
  <2> QED BY <1>2, <2>1 DEF ToSet
<1> QED BY <1>4, <1>5

LEMMA SetOfTail ==
  ASSUME NEW S, NEW q \in Seq(S), q # << >>, NEW x \in ToSet(Tail(q))
  PROVE  x \in ToSet(q)
<1>1. Tail(q) \in Seq(S) /\ Len(Tail(q)) = Len(q) - 1 /\ Len(q) \in Nat
  BY HeadTailProperties
<1>2. PICK i \in DOMAIN Tail(q) : x = Tail(q)[i]
  BY DEF ToSet
<1>3. i \in 1 .. Len(Tail(q))
  BY <1>1, <1>2
<1>4. Tail(q)[i] = q[i + 1]
  BY <1>3, HeadTailProperties
<1>5. i + 1 \in DOMAIN q
  BY <1>1, <1>3
<1> QED BY <1>2, <1>4, <1>5 DEF ToSet

LEMMA NoNewConfirm ==
  ASSUME LifecycleInv, LifecycleNext, NEW s \in cancelled, "confirm" \in ToSet(inbox'[s])
  PROVE  "confirm" \in ToSet(inbox[s])
<1> DEFINE Messages == Callers \cup {"confirm", "cancel"}
<1>1. s \in Starts /\ inbox[s] \in Seq(Messages) /\ inbox \in [Starts -> Seq(Messages)]
  BY DEF LifecycleInv, TypeOK
<1>2. ASSUME NEW t \in Starts, NEW m \in Messages, Tells(t, m), m # "confirm" \/ t # s
      PROVE  "confirm" \in ToSet(inbox[s])
  <2>1. CASE t # s
    BY <1>1, <1>2, <2>1 DEF Tells
  <2>2. CASE t = s
    <3>1. inbox'[s] = Append(inbox[s], m)
      BY <1>1, <1>2, <2>2 DEF Tells
    <3> QED BY <1>1, <1>2, <2>2, <3>1, SetOfAppend
  <2> QED BY <2>1, <2>2
<1>3. ASSUME NEW o \in Callers, NEW t, StopOne(o, t)
      PROVE  "confirm" \in ToSet(inbox[s])
  <2>1. CASE inbox' = inbox
    BY <2>1
  <2>2. CASE Ask(o, t)
    <3>1. t \in Starts /\ Tells(t, o) /\ o # "confirm"
      BY <2>2, Names DEF Ask, LifecycleInv, TypeOK
    <3> QED BY <1>2, <3>1
  <2> QED BY <1>3, <2>1, <2>2 DEF StopOne, Share, Retire
<1>4. ASSUME NEW t \in Starts, StartStep(t)
      PROVE  "confirm" \in ToSet(inbox[s])
  <2>1. CASE inbox' = inbox
    BY <2>1
  <2>2. CASE ReviewMatches(t)
    BY <1>2, <2>2 DEF ReviewMatches
  <2>3. CASE ReviewDiffers(t)
    BY <1>2, <2>3 DEF ReviewDiffers
  <2>4. CASE StopOne(t, t)
    BY <1>3, <2>4, Names
  <2> QED BY <1>4, <2>1, <2>2, <2>3, <2>4
       DEF StartStep, LookForCoordinator, LookForSeed, LookBeforePublish, Verify,
       CoordinatorPortTaken, SeedPortTaken, PublishPortTaken, SpawnCoordinator, SpawnSeed,
       SpawnPublishing, Spawn, SeedReady, CoordinatorReady, CoordinatorHealthy, Publish,
       Fail, CleanedUp, childVars
<1>5. ASSUME NEW t \in Starts, ChildStep(t)
      PROVE  "confirm" \in ToSet(inbox[s])
  <2>1. CASE inbox' = inbox
    BY <2>1
  <2>2. CASE ChildHears(t)
    <3>1. inbox' = [inbox EXCEPT ![t] = Tail(inbox[t])] /\ inbox[t] # << >>
      BY <2>2 DEF ChildHears
    <3>2. inbox'[s] = IF t = s THEN Tail(inbox[s]) ELSE inbox[s]
      BY <1>1, <3>1
    <3> QED BY <1>1, <3>1, <3>2, SetOfTail
  <2>3. CASE ChildExits(t)
    <3>1. inbox'[s] = inbox[s] \/ inbox'[s] = << >>
      BY <1>1, <2>3 DEF ChildExits
    <3>2. ToSet(<< >>) = {}
      BY DEF ToSet
    <3> QED BY <3>1, <3>2
  <2> QED BY <1>5, <2>1, <2>2, <2>3 DEF ChildStep, ChildReviews, ChildServes
<1>6. ASSUME NEW o \in Callers, StopStep(o)
      PROVE  "confirm" \in ToSet(inbox[s])
  <2>1. CASE inbox' = inbox
    BY <2>1
  <2>2. CASE \E t : StopOne(o, t)
    BY <1>3, <2>2
  <2> QED BY <1>6, <2>1, <2>2
       DEF StopStep, StopNext, Answered, SeesExit, GivesUp, Kill, childVars
<1>7. (\E o \in Stops : BeginStop(o)) \/ Ended => inbox' = inbox
  BY DEF BeginStop, Ended, lifecycleVars, childVars
<1> QED BY <1>4, <1>5, <1>6, <1>7 DEF LifecycleNext

(* Once startupCancelled is set, no step of anybody lets the start publish  *)
(* its key, return its handle or confirm the publication to its child.      *)
THEOREM StoppedStaysStopped == LifecycleSpec => StopWins
<1>1. LifecycleInv /\ [LifecycleNext]_lifecycleVars => [\A s \in cancelled : Won(s)]_lifecycleVars
  <2> SUFFICES ASSUME LifecycleInv, LifecycleNext, NEW s \in cancelled
               PROVE  Won(s)
    OBVIOUS
  <2> QED BY PendingStays, ResultStays, NoNewConfirm DEF Won
<1>2. [\A s \in cancelled : Won(s)]_lifecycleVars
        <=> [\A s \in cancelled :
               /\ s \in pending => s \in pending'
               /\ result'[s] # s
               /\ "confirm" \in ToSet(inbox'[s]) => "confirm" \in ToSet(inbox[s])]_lifecycleVars
  BY DEF Won
<1> QED BY <1>1, <1>2, Invariance, PTL DEF LifecycleSpec, StopWins
=============================================================================
