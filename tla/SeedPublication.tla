-------------------------- MODULE SeedPublication --------------------------
(***************************************************************************)
(* The peer commands publish, seed, sync and repair-source-descriptor       *)
(* (project-peer.mjs, cli.mjs) over the Coordinator client, each machine    *)
(* running one command at a time. A command prepares signed documents,      *)
(* publishes them, records what the Coordinator approved (published.json    *)
(* and the Unity source descriptor), and serves it: a Seed that loses its   *)
(* Coordinator reconnects until it is stopped. Messages wait at the         *)
(* Coordinator in pending; the machine can crash, the connection break and  *)
(* the Coordinator restart between any two steps.                           *)
(*                                                                         *)
(* The connection that publish and repair open only to read the snapshot    *)
(* opens and closes inside one step, and an answer arrives in the step that *)
(* handles the request: one that a broken connection swallows is the same   *)
(* to the machine as one that was never sent.                               *)
(***************************************************************************)
EXTENDS ProjectRegistry

CONSTANTS
  Publisher,    \* the machine with the Owner key and the source Project
  Inventory,    \* Inventory[m]: the shares m's chunk store may turn out to have
  MaxRevision,  \* revisions a plan may reach
  MaxCommands,  \* commands started
  MaxFaults     \* crashes, broken connections, Coordinator restarts, checkouts

ASSUME PublicationParameters ==
  /\ Publisher \in Machines /\ Inventory \in [Machines -> SUBSET Shares]
  /\ MaxRevision \in Nat /\ MaxCommands \in Nat /\ MaxFaults \in Nat

VARIABLES
  \* on the machine's disk
  docs,       \* the baselines whose manifest and descriptor files it has
  published,  \* metadata/published.json
  lock,       \* metadata/published.lock exists
  current,    \* the Active baseline (sync)
  source,     \* the source Project's descriptor (the Publisher's)
  \* the running command
  run,        \* [cmd, step, base, expected, retrying, timer, stopped]
  link,       \* its socket: "none", "open", or "lost" and not yet noticed
  \* at the Coordinator
  up,         \* it accepts connections
  pending,    \* the request of the machine's newest connection
  \* history and bounds
  approved,   \* every baseline a Coordinator accepted from a publish
  commands, faults

diskVars == <<docs, published, lock, current, source>>
runVars  == <<run, link>>
history  == <<approved, commands, faults>>
vars == <<registryVars, diskVars, runVars, up, pending, history>>

Nothing == [kind |-> "none", base |-> NoBaseline, share |-> "none", proof |-> FALSE]
Idle == [cmd |-> "none", step |-> "idle", base |-> NoBaseline, expected |-> NoBaseline,
         retrying |-> FALSE, timer |-> FALSE, stopped |-> FALSE]
Begin(cmd, step, d, digest) ==
  [Idle EXCEPT !.cmd = cmd, !.step = step, !.base = d, !.expected = digest]

Init ==
  /\ RegistryInit
  /\ docs = [m \in Machines |-> {}] /\ published = [m \in Machines |-> NoBaseline]
  /\ lock = [m \in Machines |-> FALSE] /\ current = [m \in Machines |-> NoBaseline]
  /\ source = NoBaseline
  /\ run = [m \in Machines |-> Idle] /\ link = [m \in Machines |-> "none"]
  /\ pending = [m \in Machines |-> Nothing]
  /\ up = TRUE /\ approved = {} /\ commands = 0 /\ faults = 0

-----------------------------------------------------------------------------
At(m, steps) == run[m].step \in steps
Goto(m, step) == run' = [run EXCEPT ![m].step = step]

Connecting(m) == ~At(m, {"idle", "serving"})

\* The command is over and its process gone.
Ends(m) == run' = [run EXCEPT ![m] = Idle] /\ link' = [link EXCEPT ![m] = "none"]

(* (mutant) A failed reconnect waits for the next close event. *)
Fails_Once(m) ==
  /\ link' = [link EXCEPT ![m] = "none"]
  /\ run' = [run EXCEPT ![m] =
       IF ~@.retrying THEN Idle ELSE [@ EXCEPT !.step = "serving", !.retrying = FALSE]]

(* (mutant) A failed reconnect is scheduled again without asking for a stop. *)
Fails_Reschedules(m) ==
  /\ link' = [link EXCEPT ![m] = "none"]
  /\ run' = [run EXCEPT ![m] =
       IF ~@.retrying THEN Idle
       ELSE [@ EXCEPT !.step = "serving", !.retrying = FALSE, !.timer = TRUE]]

\* The call fails and closes its client. The first call, and every command but
\* a Seed's reconnect, ends the process; a reconnect is scheduled again.
Fails(m) ==
  /\ link' = [link EXCEPT ![m] = "none"]
  /\ run' = [run EXCEPT ![m] =
       IF ~@.retrying THEN Idle
       ELSE [@ EXCEPT !.step = "serving", !.retrying = FALSE, !.timer = ~run[m].stopped]]

\* A discovery connection supersedes the machine's older one and is gone again.
Discovers(m) == up /\ members' = members \ {m} /\ Gone(m) /\ pending' = [pending EXCEPT ![m] = Nothing]

MayStart(m) == At(m, {"idle"}) /\ commands < MaxCommands
Starts(m, r) == run' = [run EXCEPT ![m] = r] /\ commands' = commands + 1

-----------------------------------------------------------------------------
(* Starting a command.                                                      *)

\* loadPublication: an approved baseline only, or for a repair any document.
Approved(m, d) == d \in docs[m] /\ d \in {current[m], published[m]} \ {NoBaseline}

\* validatePublishBase against the baseline of the snapshot.
ValidPublishBase(m) ==
  IF project = NoBaseline
    THEN source = NoBaseline /\ published[m] = NoBaseline
    ELSE source = project /\ Approved(m, project)

\* publish: connect, validate the base, write the draft documents.
PlanPublish(m) ==
  /\ m = Publisher /\ MayStart(m) /\ ValidPublishBase(m) /\ project.rev < MaxRevision
  /\ \E t \in Texts :
       LET d == [rev |-> project.rev + 1, text |-> t]
       IN /\ docs' = [docs EXCEPT ![m] = @ \cup {d}]
          /\ Starts(m, Begin("publish", "connect", d, source))
  /\ Discovers(m)
  /\ UNCHANGED <<up, project, published, lock, current, source, link, approved, faults>>

\* seed: what is Active, else what is published.
StartSeed(m) ==
  LET d == IF current[m] # NoBaseline THEN current[m] ELSE published[m]
  IN /\ MayStart(m) /\ d # NoBaseline
     /\ Starts(m, Begin("seed", "connect", d, NoBaseline))
     /\ UNCHANGED <<up, registryVars, diskVars, link, pending, approved, faults>>

StartSync(m) ==
  /\ MayStart(m) /\ m # Publisher
  /\ Starts(m, Begin("sync", "connect", NoBaseline, NoBaseline))
  /\ UNCHANGED <<up, registryVars, diskVars, link, pending, approved, faults>>

(* (mutant) repair takes any document of the revision. *)
Repairable_ByRevision(m) == {d \in docs[m] : d.rev = project.rev}

\* repair-source-descriptor: the Coordinator's baseline, if its documents are
\* here, becomes the source descriptor, and then the published pointer.
Repairable(m) == {d \in docs[m] : d = project}

Repair(m) ==
  /\ m = Publisher /\ MayStart(m)
  /\ \E d \in Repairable(m) : source' = d /\ Starts(m, Begin("repair", "mark", d, source))
  /\ Discovers(m)
  /\ UNCHANGED <<up, project, docs, published, lock, current, link, approved, faults>>

-----------------------------------------------------------------------------
(* connectAndAnnounce, and sync up to its first announcement.               *)

\* The peer a sync downloads from still serves the baseline of the snapshot.
Served(m, d) ==
  \E n \in Machines \ {m} : announced[n].base = d /\ announced[n].rank < 99 /\ run[n].base = d

\* hello, registration and snapshot. sync then stores the documents it finds.
Connect(m) ==
  LET sync == run[m].cmd = "sync"
      d == IF sync THEN project ELSE run[m].base
      next == CASE run[m].cmd = "publish" /\ ~run[m].retrying -> "publish"
                [] sync                                      -> "mark"
                [] OTHER                                      -> "announce"
  IN /\ At(m, {"connect"}) /\ ~run[m].stopped /\ up /\ Register(m)
     /\ sync => project # NoBaseline /\ Served(m, project)
     /\ docs' = IF sync THEN [docs EXCEPT ![m] = @ \cup {d}] ELSE docs
     /\ run' = [run EXCEPT ![m].base = d, ![m].step = next]
     /\ link' = [link EXCEPT ![m] = "open"]
     /\ pending' = [pending EXCEPT ![m] = Nothing]
     /\ UNCHANGED <<up, published, lock, current, source, history>>

Send(m, request) == link[m] = "open" /\ pending' = [pending EXCEPT ![m] = request]

\* The source descriptor must be what it was when the plan was made.
SendPublish(m) ==
  /\ At(m, {"publish"}) /\ source = run[m].expected
  /\ Send(m, [Nothing EXCEPT !.kind = "publish", !.base = run[m].base])
  /\ Goto(m, "published?")
  /\ UNCHANGED <<up, registryVars, diskVars, link, history>>

\* #markPublished: only sync and repair may jump forward.
MayMark(m) ==
  LET d == run[m].base  old == published[m].rev
      jump == run[m].cmd \in {"sync", "repair"}
  IN d = published[m] \/ (d.rev > old /\ (jump \/ d.rev = old + 1))

TakeLock(m) ==
  /\ At(m, {"mark"}) /\ ~lock[m]
  /\ lock' = [lock EXCEPT ![m] = TRUE] /\ Goto(m, "locked")
  /\ UNCHANGED <<up, registryVars, docs, published, current, source, link, pending,
                 history>>

MarkPublished(m) ==
  /\ At(m, {"locked"}) /\ MayMark(m)
  /\ published' = [published EXCEPT ![m] = run[m].base]
  /\ lock' = [lock EXCEPT ![m] = FALSE]
  /\ CASE run[m].cmd = "publish" -> Goto(m, "describe") /\ UNCHANGED link
       [] run[m].cmd = "sync"    -> Goto(m, "announce") /\ UNCHANGED link
       [] OTHER                  -> Ends(m)
  /\ UNCHANGED <<up, registryVars, docs, current, source, pending, history>>

WriteSource(m) ==
  /\ At(m, {"describe"}) /\ source = run[m].expected
  /\ source' = run[m].base /\ Goto(m, "announce")
  /\ UNCHANGED <<up, registryVars, docs, published, lock, current, link, pending, history>>

\* The store may have lost files since; the Owner key proves the Owner's Seed.
SendAnnounce(m) ==
  /\ At(m, {"announce"})
  /\ \E share \in Inventory[m] :
       Send(m, [kind |-> "announce", base |-> run[m].base, share |-> share,
                proof |-> m = Publisher /\ run[m].cmd # "sync"])
  /\ Goto(m, "announced?")
  /\ UNCHANGED <<up, registryVars, diskVars, link, history>>

\* The user may decline to trust the publisher; either way the command is over.
Activate(m) ==
  /\ At(m, {"activate"}) /\ current' \in {current, [current EXCEPT ![m] = run[m].base]}
  /\ Ends(m)
  /\ UNCHANGED <<up, registryVars, docs, published, lock, source, pending, history>>

\* A check that does not hold, or a connection that is gone.
Refused(m) ==
  \/ At(m, {"published?", "announced?"}) /\ link[m] = "none"
  \/ At(m, {"publish"}) /\ source # run[m].expected
  \/ At(m, {"mark"}) /\ lock[m]
  \/ At(m, {"describe"}) /\ source # run[m].expected
  \/ At(m, {"publish", "announce"}) /\ link[m] # "open"
  \/ At(m, {"connect"}) /\ (run[m].stopped \/ ~up)
  \/ At(m, {"connect"}) /\ run[m].cmd = "sync" /\ ~Served(m, project)

CallFails(m) ==
  /\ Refused(m) /\ Fails(m)
  /\ UNCHANGED <<up, registryVars, diskVars, pending, history>>

\* The pointer is refused; its lock goes with the call.
MarkFails(m) ==
  /\ At(m, {"locked"}) /\ ~MayMark(m) /\ Fails(m)
  /\ lock' = [lock EXCEPT ![m] = FALSE]
  /\ UNCHANGED <<up, registryVars, docs, published, current, source, pending, history>>

-----------------------------------------------------------------------------
(* The running Seed: its close event, its timer and its stop.               *)

\* A call under way sees its coordinator gone and fails at its next use of it.
NoticeClose(m) ==
  /\ link[m] = "lost" /\ link' = [link EXCEPT ![m] = "none"]
  /\ run' = [run EXCEPT ![m].timer = @ \/ (~Connecting(m) /\ ~run[m].stopped)]
  /\ UNCHANGED <<up, registryVars, diskVars, pending, history>>

TimerFires(m) ==
  /\ run[m].timer
  /\ run' = [run EXCEPT ![m].timer = FALSE, ![m].retrying = TRUE, ![m].step = "connect"]
  /\ UNCHANGED <<up, registryVars, diskVars, link, pending, history>>

\* Only a start that has returned can be stopped; closing the client detaches
\* its socket at once, and a call under way fails.
Started(m) == run[m].cmd \in {"publish", "seed"} /\ (At(m, {"serving"}) \/ run[m].retrying)

Stop(m) ==
  /\ Started(m) /\ ~run[m].stopped
  /\ run' = [run EXCEPT ![m].stopped = TRUE, ![m].timer = FALSE]
  /\ link' = [link EXCEPT ![m] = "none"]
  /\ UNCHANGED <<up, registryVars, diskVars, pending, history>>

\* stop() awaits the reconnect, stops the server, and the process ends.
Stopped(m) ==
  /\ At(m, {"serving"}) /\ run[m].stopped /\ Ends(m)
  /\ UNCHANGED <<up, registryVars, diskVars, pending, history>>

-----------------------------------------------------------------------------
(* The Coordinator: a request is handled as long as its connection is the    *)
(* machine's registered one, even if the client has already given up.        *)

HandlePublish(m) ==
  LET verdict == PublishVerdict(pending[m].base)
  IN /\ pending[m].kind = "publish" /\ Publish(m, pending[m].base)
     /\ approved' = IF verdict = "accepted" THEN approved \cup {pending[m].base} ELSE approved
     /\ CASE link[m] # "open"                        -> UNCHANGED runVars
          [] link[m] = "open" /\ verdict \in {"accepted", "idempotent"} ->
               Goto(m, "mark") /\ UNCHANGED link
          [] OTHER                                   -> Fails(m)
     /\ pending' = [pending EXCEPT ![m] = Nothing]
     /\ UNCHANGED <<up, diskVars, commands, faults>>

\* A Seed serves from now on. A sync announces again while it downloads, and
\* activates what it has downloaded once it has announced all of it.
AfterAnnounce(m, share) ==
  IF run[m].cmd # "sync"
    THEN run' = [run EXCEPT ![m].step = "serving", ![m].retrying = FALSE]
    ELSE Goto(m, IF share = "all" THEN "activate" ELSE "announce")

HandleAnnounce(m) ==
  /\ pending[m].kind = "announce"
  /\ Announce(m, pending[m].base, pending[m].share, pending[m].proof)
  /\ IF link[m] = "open" THEN AfterAnnounce(m, pending[m].share) ELSE UNCHANGED run
  /\ pending' = [pending EXCEPT ![m] = Nothing]
  /\ UNCHANGED <<up, diskVars, link, history>>

\* A close frame, or the heartbeat, tells the Coordinator that it is gone.
SeesClose(m) ==
  /\ link[m] # "open" /\ Remove(m) /\ pending' = [pending EXCEPT ![m] = Nothing]
  /\ UNCHANGED <<up, diskVars, runVars, history>>

-----------------------------------------------------------------------------
(* Faults.                                                                   *)

Fault == faults < MaxFaults /\ faults' = faults + 1

\* The network fails, or the answer does not arrive within the timeout.
Break(m) ==
  /\ link[m] = "open" /\ Fault /\ link' = [link EXCEPT ![m] = "lost"]
  /\ UNCHANGED <<up, registryVars, diskVars, run, pending, approved, commands>>

\* published.lock stays behind when the process dies holding it.
Crash(m) ==
  /\ ~At(m, {"idle"}) /\ Fault
  /\ Ends(m)
  /\ UNCHANGED <<up, registryVars, diskVars, pending, approved, commands>>

CoordinatorStops ==
  /\ up /\ members # {} /\ Fault /\ Clear /\ up' = FALSE
  /\ link' = [m \in Machines |-> IF link[m] = "open" THEN "lost" ELSE link[m]]
  /\ pending' = [m \in Machines |-> Nothing]
  /\ UNCHANGED <<diskVars, run, approved, commands>>

CoordinatorStarts ==
  /\ ~up /\ up' = TRUE
  /\ UNCHANGED <<registryVars, diskVars, runVars, pending, history>>

\* The descriptor is a file of the source Project: version control may bring
\* back an older one, or none.
Checkout ==
  /\ source # NoBaseline /\ Fault
  /\ \E d \in {NoBaseline} \cup {d \in approved : d.rev < source.rev} : source' = d
  /\ UNCHANGED <<up, registryVars, docs, published, lock, current, runVars, pending, approved,
                 commands>>

-----------------------------------------------------------------------------
Call(m) ==
  \/ Connect(m) \/ SendPublish(m) \/ TakeLock(m) \/ MarkPublished(m) \/ WriteSource(m)
  \/ SendAnnounce(m) \/ Activate(m) \/ CallFails(m) \/ MarkFails(m)
Runtime(m) == NoticeClose(m) \/ TimerFires(m) \/ Stopped(m)
Server(m) == HandlePublish(m) \/ HandleAnnounce(m) \/ SeesClose(m)

Next ==
  \/ \E m \in Machines :
       \/ Call(m) \/ Runtime(m) \/ Server(m) \/ Stop(m)
       \/ PlanPublish(m) \/ StartSeed(m) \/ StartSync(m) \/ Repair(m)
       \/ Break(m) \/ Crash(m)
  \/ CoordinatorStops \/ CoordinatorStarts \/ Checkout

\* A machine's event loop and timers and the Coordinator's end of its connection
\* do not all stand still while one of them has something to do; a Coordinator
\* that stopped is started again.
Fairness ==
  /\ \A m \in Machines : WF_vars(Call(m) \/ Runtime(m) \/ Server(m))
  /\ WF_vars(CoordinatorStarts)

Spec == Init /\ [][Next]_vars /\ Fairness

-----------------------------------------------------------------------------
(* Whatever crashes, breaks or restarts, a baseline is recorded as approved,  *)
(* stands in the source Project, is Active or is offered by a Seed only if a  *)
(* Coordinator once accepted exactly it from a reviewed publish: a draft that  *)
(* was refused, or whose answer never came, is not revived by a restart, a    *)
(* retry, a repair or an empty registry (project-peer.mjs markPublished,      *)
(* repairSourceDescriptor and loadPublication).                              *)
OnlyApproved ==
  \A m \in Machines :
    {published[m], current[m], source, announced[m].base} \subseteq approved \cup {NoBaseline}

(* Once a Seed was asked to stop, whatever its reconnect was doing, it has no  *)
(* connection and will open none (stop and scheduleReconnect, project-peer.mjs). *)
StoppedIsSilent ==
  \A m \in Machines :
    run[m].stopped => link[m] = "none" /\ ~run[m].timer

(* A Seed that was started and not stopped is registered again with what it   *)
(* serves after every loss of its Coordinator: the close event, the retry     *)
(* under way and its failure never leave it without a next attempt            *)
(* (scheduleReconnect in project-peer.mjs).                                   *)
Serves(m) == Started(m) /\ ~run[m].stopped
Offered(m) == link[m] = "open" /\ announced[m].base = run[m].base
SeedComesBack == \A m \in Machines : Serves(m) ~> (Offered(m) \/ ~Serves(m))
=============================================================================
