-------------------------- MODULE ProcessLifecycle --------------------------
(***************************************************************************)
(* TeamForgeProcessLifecycleManager (project-peer/src/process-lifecycle.   *)
(* mjs): calls that start a Coordinator, a Seed or a publishing Seed, and  *)
(* calls that stop them, interleaved at every await, with the children on  *)
(* the other side of the IPC channel.  A call and the child it forks share *)
(* one name.  A wait may time out at any moment; a child may die at any    *)
(* moment.                                                                 *)
(***************************************************************************)
EXTENDS Naturals, Sequences, SequencesExt

CONSTANTS
    Starts,     \* ensureCoordinator, ensureSeed, ensurePublishingSeed calls
    Stops,      \* stopCoordinator, stopSeed, stopAll calls
    Forceful,   \* those of them with forceOwnedAfterTimeout
    Codes,      \* access codes of the Coordinator
    None

Callers == Starts \cup Stops
Kinds == {"coordinator", "seed", "publish"}
KeyNames == {"coordinator", "seed"}

ASSUME LifecycleAssumption ==
    /\ Starts \cap Stops = {}
    /\ None \notin Callers
    /\ {"confirm", "cancel", "failed", "external"} \cap (Callers \cup {None}) = {}
    /\ Forceful \subseteq Stops
    /\ Codes # {}

VARIABLES
    pc,         \* where each start is: the await it is suspended at
    kind,       \* what it starts
    code,       \* with which access code (Coordinators)
    found,      \* the record it found under its key
    result,     \* the record of the handle it returned, or how else it ended
    records,    \* children that are owned, by the start that forked them
    keys,       \* the record under which a Coordinator or Seed is reused
    pending,    \* records with startupPending
    cancelled,  \* records with startupCancelled
    promise,    \* startupStopPromise: who is stopping a record that is pending
    stopPc,     \* where each stop is (a start stops its own child when it fails)
    on,         \* the record it is stopping
    rest,       \* the records it has still to stop
    child,      \* the forked process
    inbox,      \* messages on their way to it
    asker       \* the stop request it is answering

startVars == <<pc, kind, code, found, result>>
tableVars == <<records, keys, pending, cancelled, promise>>
stopVars == <<stopPc, on, rest>>
childVars == <<child, inbox, asker>>
lifecycleVars == <<startVars, tableVars, stopVars, childVars>>

LifecycleInit ==
    /\ pc = [s \in Starts |-> "preflight"]
    /\ kind \in [Starts -> Kinds]
    /\ code \in [Starts -> Codes]
    /\ \A s \in Starts : kind[s] # "coordinator" => code[s] = CHOOSE c \in Codes : TRUE
    /\ found = [s \in Starts |-> None]
    /\ result = [s \in Starts |-> None]
    /\ records = {} /\ pending = {} /\ cancelled = {}
    /\ keys = [k \in KeyNames |-> None]
    /\ promise = [s \in Starts |-> None]
    /\ stopPc = [o \in Callers |-> "idle"]
    /\ on = [o \in Callers |-> None]
    /\ rest = [o \in Callers |-> {}]
    /\ child = [s \in Starts |-> "none"]
    /\ inbox = [s \in Starts |-> << >>]
    /\ asker = [s \in Starts |-> None]

KeyOf(s) == IF kind[s] = "coordinator" THEN "coordinator" ELSE "seed"
Running(s) == child[s] \notin {"none", "exited"}
Suspended(s, at) == pc[s] = at
Moves(s, to) == pc' = [pc EXCEPT ![s] = to]
Goes(s, to) == Moves(s, to) /\ UNCHANGED result
Returns(s, r) ==
    /\ Moves(s, "done")
    /\ result' = [result EXCEPT ![s] = r]
Tells(s, message) == inbox' = [inbox EXCEPT ![s] = Append(@, message)]

(* (mutant) a retired record stays behind the reuse key *)
Forget_KeepsKey(s) ==
    /\ records' = records \ {s}
    /\ keys' = keys

(* The record leaves the table, and its key if it still points to it. *)
Forget(s) ==
    /\ records' = records \ {s}
    /\ keys' = [k \in KeyNames |-> IF keys[k] = s THEN None ELSE keys[k]]

-----------------------------------------------------------------------------
(* Starting *)

FailsEarly(s) ==
    /\ Returns(s, "failed")
    /\ UNCHANGED <<records, keys>>

(* Replacing a record takes proof that its child has exited. *)
Replace(s, r) ==
    /\ child[r] = "exited"
    /\ Forget(r)
    /\ Goes(s, "probe")

(* After the preflight: what is under the key?  Another access code cannot *)
(* be adopted by a Coordinator that runs.                                  *)
LookForCoordinator(s) ==
    LET r == keys["coordinator"]
    IN /\ Suspended(s, "preflight") /\ kind[s] = "coordinator"
       /\ \/ FailsEarly(s) /\ UNCHANGED found
          \/ r = None /\ Goes(s, "probe") /\ UNCHANGED <<found, records, keys>>
          \/ /\ r # None
             /\ r # None => code[r] # code[s]
             /\ Replace(s, r)
             /\ UNCHANGED found
          \/ /\ r # None
             /\ r # None => code[r] = code[s]
             /\ Goes(s, "verify")
             /\ found' = [found EXCEPT ![s] = r]
             /\ UNCHANGED <<records, keys>>
       /\ UNCHANGED <<kind, code, pending, cancelled, promise, stopVars, childVars>>

LookForSeed(s) ==
    LET r == keys["seed"]
    IN /\ Suspended(s, "preflight") /\ kind[s] = "seed"
       /\ \/ FailsEarly(s) /\ UNCHANGED found
          \/ r = None /\ Goes(s, "probe") /\ UNCHANGED <<found, records, keys>>
          \/ /\ r # None /\ Goes(s, "verify")
             /\ found' = [found EXCEPT ![s] = r]
             /\ UNCHANGED <<records, keys>>
       /\ UNCHANGED <<kind, code, pending, cancelled, promise, stopVars, childVars>>

(* A Baseline that is under the key is not published again. *)
LookBeforePublish(s) ==
    /\ Suspended(s, "preflight") /\ kind[s] = "publish"
    /\ \/ FailsEarly(s)
       \/ keys["seed"] = None /\ Goes(s, "probe") /\ UNCHANGED <<records, keys>>
    /\ UNCHANGED <<kind, code, found, pending, cancelled, promise, stopVars, childVars>>

(* The status, and the health of a Coordinator, of the record under the key. *)
Verify(s) ==
    LET r == found[s]
    IN /\ Suspended(s, "verify")
       /\ \/ child[r] = "serving" /\ Returns(s, r) /\ UNCHANGED <<records, keys>>
          \/ Replace(s, r)
          \/ Running(r) /\ FailsEarly(s)
       /\ found' = [found EXCEPT ![s] = None]
       /\ UNCHANGED <<kind, code, pending, cancelled, promise, stopVars, childVars>>

(* The port is taken by somebody: a compatible Coordinator is used without *)
(* being owned, a Seed of ours with the right identity is reused.          *)
CoordinatorPortTaken(s) ==
    /\ Suspended(s, "probe") /\ kind[s] = "coordinator"
    /\ Returns(s, "failed") \/ Returns(s, "external")
    /\ UNCHANGED <<kind, code, found, tableVars, stopVars, childVars>>

SeedPortTaken(s) ==
    /\ Suspended(s, "probe") /\ kind[s] = "seed"
    /\ \/ Returns(s, "failed")
       \/ \E r \in records \ pending :
             KeyOf(r) = "seed" /\ child[r] = "serving" /\ Returns(s, r)
    /\ UNCHANGED <<kind, code, found, tableVars, stopVars, childVars>>

PublishPortTaken(s) ==
    /\ Suspended(s, "probe") /\ kind[s] = "publish"
    /\ Returns(s, "failed")
    /\ UNCHANGED <<kind, code, found, tableVars, stopVars, childVars>>

(* Forking proves ownership: the record exists before the identity does.   *)
Spawn(s, next) ==
    /\ Suspended(s, "probe")
    /\ Goes(s, next)
    /\ child' = [child EXCEPT ![s] = "starting"]
    /\ records' = records \cup {s}
    /\ pending' = pending \cup {s}
    /\ UNCHANGED <<kind, code, found, keys, cancelled, promise, stopVars, inbox, asker>>

SpawnCoordinator(s) == kind[s] = "coordinator" /\ Spawn(s, "ready")
SpawnSeed(s) == kind[s] = "seed" /\ Spawn(s, "ready")
SpawnPublishing(s) == kind[s] = "publish" /\ Spawn(s, "review")

(* The review of the child arrives.  Only the fingerprint that the user    *)
(* confirmed is confirmed to the child, and only by a start that goes on.  *)
ReviewMatches(s) ==
    /\ Suspended(s, "review") /\ child[s] = "review"
    /\ s \notin cancelled
    /\ Goes(s, "ready")
    /\ Tells(s, "confirm")
    /\ UNCHANGED <<kind, code, found, tableVars, stopVars, child, asker>>

ReviewDiffers(s) ==
    /\ Suspended(s, "review") /\ child[s] = "review"
    /\ s \notin cancelled
    /\ Goes(s, "leave")
    /\ Tells(s, "cancel")
    /\ UNCHANGED <<kind, code, found, tableVars, stopVars, child, asker>>

(* (mutant) nobody looks whether the start was stopped in the meantime *)
Publish_Anyway(s) ==
    /\ child[s] = "serving" \/ pc[s] = "health"
    /\ pending' = pending \ {s}
    /\ keys' = [keys EXCEPT ![KeyOf(s)] = s]
    /\ Returns(s, s)
    /\ UNCHANGED <<kind, code, found, records, cancelled, promise, stopVars, childVars>>

(* The record becomes reusable, in one step with the last look at          *)
(* startupCancelled.                                                       *)
Publish(s) ==
    /\ s \notin cancelled
    /\ child[s] = "serving" \/ pc[s] = "health"
    /\ pending' = pending \ {s}
    /\ keys' = [keys EXCEPT ![KeyOf(s)] = s]
    /\ Returns(s, s)
    /\ UNCHANGED <<kind, code, found, records, cancelled, promise, stopVars, childVars>>

SeedReady(s) ==
    /\ Suspended(s, "ready") /\ kind[s] # "coordinator"
    /\ Publish(s)

CoordinatorReady(s) ==
    /\ Suspended(s, "ready") /\ kind[s] = "coordinator"
    /\ child[s] = "serving" /\ s \notin cancelled
    /\ Goes(s, "health")
    /\ UNCHANGED <<kind, code, found, tableVars, stopVars, childVars>>

CoordinatorHealthy(s) ==
    /\ Suspended(s, "health")
    /\ Publish(s)

-----------------------------------------------------------------------------
(* Stopping *)

(* The cleanup of a failed start is always allowed to. *)
Forces(o) == o \in Starts \cup Forceful

Enters(o, to) == stopPc' = [stopPc EXCEPT ![o] = to]

(* (mutant) those who share the stop are not told of its end *)
Settle_Alone(o, s, outcome) ==
    /\ stopPc' = [stopPc EXCEPT ![o] = outcome]
    /\ on' = [on EXCEPT ![o] = None]
    /\ rest' = [rest EXCEPT ![o] = IF outcome = "threw" THEN {} ELSE @]
    /\ promise' = [promise EXCEPT ![s] = IF @ = o THEN None ELSE @]

(* How stop `o' of record `s' ends, for itself and for all who share it: a *)
(* stop of several records goes on to the next unless it failed.           *)
Settle(o, s, outcome) ==
    LET served == {o} \cup {p \in Callers :
                     promise[s] = o /\ stopPc[p] = "sharing" /\ on[p] = s}
    IN /\ stopPc' = [p \in Callers |-> IF p \in served THEN outcome ELSE stopPc[p]]
       /\ on' = [p \in Callers |-> IF p \in served THEN None ELSE on[p]]
       /\ rest' = [p \in Callers |-> IF p \in served /\ outcome = "threw" THEN {} ELSE rest[p]]
       /\ promise' = [promise EXCEPT ![s] = IF @ = o THEN None ELSE @]

(* #stop and the beginning of #stopOwnedRecord: the first stop of a record *)
(* that is still starting cancels the start, the next ones share it.       *)
Share(o, s) ==
    /\ s \in records \cap pending
    /\ promise[s] # None
    /\ Enters(o, "sharing")
    /\ on' = [on EXCEPT ![o] = s]
    /\ cancelled' = cancelled \cup {s}
    /\ UNCHANGED <<records, keys, promise, inbox>>

Ask(o, s) ==
    /\ s \in records /\ Running(s)
    /\ s \in pending => promise[s] = None
    /\ Enters(o, "asking")
    /\ on' = [on EXCEPT ![o] = s]
    /\ cancelled' = IF s \in pending THEN cancelled \cup {s} ELSE cancelled
    /\ promise' = [promise EXCEPT ![s] = IF s \in pending THEN o ELSE @]
    /\ Tells(s, o)
    /\ UNCHANGED <<records, keys>>

Retire(o, s) ==
    /\ s \in records /\ ~Running(s)
    /\ s \in pending => promise[s] = None
    /\ Enters(o, "stopped")
    /\ cancelled' = IF s \in pending THEN cancelled \cup {s} ELSE cancelled
    /\ Forget(s)
    /\ UNCHANGED <<on, promise, inbox>>

StopOne(o, s) ==
    /\ Share(o, s) \/ Ask(o, s) \/ Retire(o, s)
    /\ UNCHANGED <<pending, child, asker>>

(* stopCoordinator and stopSeed have a handle that a start returned;       *)
(* stopAll takes the records of this moment.                               *)
BeginStop(o) ==
    /\ stopPc[o] = "idle" /\ o \in Stops
    /\ \E targets \in {records} \cup {{r} : r \in {result[s] : s \in Starts} \cap Starts} :
          rest' = [rest EXCEPT ![o] = targets]
    /\ Enters(o, "stopped")
    /\ UNCHANGED <<startVars, tableVars, on, childVars>>

(* The next record of a stop; a handle that is stale is refused.           *)
StopNext(o) ==
    /\ stopPc[o] = "stopped"
    /\ \E s \in rest[o] :
          /\ rest' = [rest EXCEPT ![o] = @ \ {s}]
          /\ \/ StopOne(o, s)
             \/ s \notin records /\ UNCHANGED <<tableVars, stopPc, on, childVars>>
    /\ UNCHANGED startVars

(* A start that fails after the fork stops its child, by force if need be. *)
Fail(s) ==
    /\ \/ Suspended(s, "ready") \/ Suspended(s, "review")
       \/ Suspended(s, "leave") \/ Suspended(s, "health")
    /\ IF s \in records
       THEN /\ StopOne(s, s)
            /\ Goes(s, "cleanup")
            /\ UNCHANGED <<kind, code, found, rest>>
       ELSE /\ Returns(s, "failed")
            /\ UNCHANGED <<kind, code, found, tableVars, stopVars, childVars>>

CleanedUp(s) ==
    /\ Suspended(s, "cleanup") /\ stopPc[s] \in {"stopped", "threw"}
    /\ Returns(s, "failed")
    /\ UNCHANGED <<kind, code, found, tableVars, stopVars, childVars>>

(* The child confirms that it is going down. *)
Answered(o) ==
    /\ stopPc[o] = "asking"
    /\ child[on[o]] = "stopping" /\ asker[on[o]] = o
    /\ Enters(o, "closing")
    /\ UNCHANGED <<startVars, tableVars, on, rest, childVars>>

(* Only an exit lets a record go. *)
SeesExit(o) ==
    /\ stopPc[o] \in {"asking", "closing", "killing"}
    /\ child[on[o]] = "exited"
    /\ Forget(on[o])
    /\ Settle(o, on[o], "stopped")
    /\ UNCHANGED <<startVars, pending, cancelled, childVars>>

(* (mutant) a stop that timed out drops the record as well *)
GivesUp_Forgets(o) ==
    /\ \/ stopPc[o] \in {"asking", "closing"} /\ ~Forces(o)
       \/ stopPc[o] = "killing"
    /\ Running(on[o])
    /\ Forget(on[o])
    /\ Settle(o, on[o], "threw")
    /\ UNCHANGED <<startVars, pending, cancelled, childVars>>

(* No answer in time, or a failure: throw, or force the child and wait.    *)
GivesUp(o) ==
    /\ \/ stopPc[o] \in {"asking", "closing"} /\ ~Forces(o)
       \/ stopPc[o] = "killing"
    /\ Running(on[o])
    /\ Settle(o, on[o], "threw")
    /\ UNCHANGED <<startVars, records, keys, pending, cancelled, childVars>>

Kill(o) ==
    /\ stopPc[o] \in {"asking", "closing"} /\ Forces(o)
    /\ Running(on[o])
    /\ Enters(o, "killing")
    /\ child' = [child EXCEPT ![on[o]] = "killed"]
    /\ UNCHANGED <<startVars, tableVars, on, rest, inbox, asker>>

-----------------------------------------------------------------------------
(* The children: lifecycle-child.mjs and cli.mjs *)

ChildReviews(s) ==
    /\ kind[s] = "publish" /\ child[s] = "starting"
    /\ child' = [child EXCEPT ![s] = "review"]
    /\ UNCHANGED <<startVars, tableVars, stopVars, inbox, asker>>

ChildServes(s) ==
    /\ child[s] = IF kind[s] = "publish" THEN "confirmed" ELSE "starting"
    /\ child' = [child EXCEPT ![s] = "serving"]
    /\ UNCHANGED <<startVars, tableVars, stopVars, inbox, asker>>

(* A Coordinator listens from its first line.  A Seed listens once it      *)
(* serves, and while it waits for the confirmation, when it hears nothing  *)
(* but that.                                                               *)
Listens(s) ==
    \/ child[s] \in {"review", "serving", "stopping"}
    \/ kind[s] = "coordinator" /\ child[s] = "starting"

ChildHears(s) ==
    /\ Listens(s) /\ inbox[s] # << >>
    /\ LET message == Head(inbox[s])
           heeds == CASE message = "confirm" -> child[s] = "review"
                      [] message = "cancel" -> child[s] = "review"
                      [] OTHER -> child[s] \in {"starting", "serving"}
       IN /\ child' = [child EXCEPT ![s] = IF ~heeds THEN @
                                           ELSE IF message = "confirm" THEN "confirmed"
                                           ELSE "stopping"]
          /\ asker' = [asker EXCEPT ![s] =
                IF heeds /\ message \in Callers THEN message ELSE @]
    /\ inbox' = [inbox EXCEPT ![s] = Tail(@)]
    /\ UNCHANGED <<startVars, tableVars, stopVars>>

(* A stop that was asked for, a kill, a failure or a crash. *)
ChildExits(s) ==
    /\ Running(s)
    /\ child' = [child EXCEPT ![s] = "exited"]
    /\ inbox' = [inbox EXCEPT ![s] = << >>]
    /\ asker' = [asker EXCEPT ![s] = None]
    /\ UNCHANGED <<startVars, tableVars, stopVars>>

-----------------------------------------------------------------------------
StartStep(s) ==
    \/ LookForCoordinator(s) \/ LookForSeed(s) \/ LookBeforePublish(s)
    \/ Verify(s)
    \/ CoordinatorPortTaken(s) \/ SeedPortTaken(s) \/ PublishPortTaken(s)
    \/ SpawnCoordinator(s) \/ SpawnSeed(s) \/ SpawnPublishing(s)
    \/ ReviewMatches(s) \/ ReviewDiffers(s)
    \/ SeedReady(s) \/ CoordinatorReady(s) \/ CoordinatorHealthy(s)
    \/ Fail(s) \/ CleanedUp(s)

StopStep(o) == StopNext(o) \/ Answered(o) \/ SeesExit(o) \/ GivesUp(o) \/ Kill(o)

ChildStep(s) == ChildReviews(s) \/ ChildServes(s) \/ ChildHears(s) \/ ChildExits(s)

Ended ==
    /\ \A s \in Starts : pc[s] = "done" /\ ~Running(s)
    /\ \A o \in Stops : stopPc[o] \in {"stopped", "threw"}
    /\ UNCHANGED lifecycleVars

LifecycleNext ==
    \/ \E s \in Starts : StartStep(s) \/ ChildStep(s)
    \/ \E o \in Stops : BeginStop(o)
    \/ \E o \in Callers : StopStep(o)
    \/ Ended

LifecycleSpec == LifecycleInit /\ [][LifecycleNext]_lifecycleVars

-----------------------------------------------------------------------------
(* Properties *)

TypeOK ==
    /\ pc \in [Starts -> {"preflight", "verify", "probe", "review", "ready",
                          "leave", "health", "cleanup", "done"}]
    /\ kind \in [Starts -> Kinds]
    /\ code \in [Starts -> Codes]
    /\ found \in [Starts -> Starts \cup {None}]
    /\ result \in [Starts -> Starts \cup {None, "failed", "external"}]
    /\ records \subseteq Starts /\ pending \subseteq Starts /\ cancelled \subseteq Starts
    /\ keys \in [KeyNames -> Starts \cup {None}]
    /\ promise \in [Starts -> Callers \cup {None}]
    /\ stopPc \in [Callers -> {"idle", "asking", "closing", "killing", "sharing", "stopped", "threw"}]
    /\ on \in [Callers -> Starts \cup {None}]
    /\ rest \in [Callers -> SUBSET Starts]
    /\ child \in [Starts -> {"none", "starting", "review", "confirmed", "serving", "stopping",
                             "killed", "exited"}]
    /\ inbox \in [Starts -> Seq(Callers \cup {"confirm", "cancel"})]
    /\ asker \in [Starts -> Callers \cup {None}]

(* Whatever fails, times out or is replaced, a child that runs is in the   *)
(* table, where stopAll finds it: only proof of its exit removes a record  *)
(* (#forgetExitedBeforeReplacement, #stopOwnedRecord, the catch blocks).   *)
NoChildIsLost == \A s \in Starts : Running(s) => s \in records

(* A reuse key leads to a record in the table whose start has succeeded,   *)
(* of the right kind, although two starts may publish the same key and any *)
(* of them may be stopped or replaced first (#forget).                     *)
KeysAreOwned ==
    \A k \in KeyNames : keys[k] # None =>
        /\ keys[k] \in records \ (pending \cup cancelled)
        /\ KeyOf(keys[k]) = k

(* A start that was stopped stays stopped: from then on it publishes no    *)
(* key, returns no handle of its child and does not let it publish a       *)
(* Baseline (the checks of startupCancelled after each await).             *)
StopWins ==
    [][\A s \in cancelled :
          /\ s \in pending => s \in pending'
          /\ result'[s] # s
          /\ "confirm" \in ToSet(inbox'[s]) => "confirm" \in ToSet(inbox[s])]_lifecycleVars

(* Who shares a stop waits for one that is under way and has a timer: the  *)
(* cleanup of a failing start may join the stop of its caller, and both    *)
(* must come to their end (startupStopPromise).                            *)
SharersAreServed ==
    \A o \in Callers : stopPc[o] = "sharing" =>
        LET p == promise[on[o]]
        IN /\ p # None
           /\ p # None => stopPc[p] \in {"asking", "closing", "killing"}
           /\ p # None => on[p] = on[o]
=============================================================================
