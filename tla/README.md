# TeamForge in TLA+

TLA+ specifications of TeamForge, with TLC configurations that check them on
small instances and TLAPS proofs of their main invariants. Paths are relative
to the root of the repository, under `src/`.

## 1. The system

Several people edit one Unity project at the same time. A *host* publishes a
signed baseline of the project; *guests* download it from the host and from each
other; then all Unity editors connect to one realtime server, which is the
authority on who is present, who holds the lock of an object, where objects are
and how the Hierarchy looks.

| Component | Code | State | Operations | Hard behaviour |
|---|---|---|---|---|
| Session authority | `server/src/session-authority.mjs` | members, locks, retained Transforms, Hierarchy records, tombstones, seeded Scenes, recent operations, revision | hello, close, presence, lock request and release, Transform update, seed, hierarchy operation, lock sweep | late closes, expiring leases, stale revisions, five tables changed together |
| Hierarchy model | `server/src/hierarchy-model.mjs` | none (pure) | validate, prepare a seed or an operation | index arithmetic, cycles, caps |
| Realtime server shell | `server/src/teamforge-server.mjs` | sockets, hello state, timers | accept, hello, route, heartbeat, sweep, stop | back-pressure closes, heartbeat against late pong, stop during listen |
| Project Coordinator | `server/src/project-coordinator*.mjs` | baseline and peers per session | register, publish, announce, expire | publisher change, expiry, supersession |
| Managed project | `project-peer/src/managed-project.mjs` | staging/, active/, current.json, activation.lock | activate, current | crashes between file operations, two processes |
| Seed publication | `project-peer/src/project-peer.mjs` | published.json, a running Seed's connection | publish, start a Seed, reconnect, sync | acknowledged but not recorded, reconnect races |
| Swarm downloader | `project-peer/src/swarm-downloader.mjs` | peers, cursor, concurrency, workers | claim, transfer, hedge, fail, finish | all workers waiting, one failing, late answers |
| Content store | `project-peer/src/content-store.mjs` | chunks on disk | put, has, read | concurrent writers, corrupt entries |
| Direct transfer | `project-peer/src/direct-transfer-*.mjs` | active requests, rate windows, bandwidth | start, serve, stop | abort on every path, overlapping stop |
| Process lifecycle | `project-peer/src/process-lifecycle.mjs` | records of owned children | ensure, start, adopt, stop, stopAll | stop during startup, replacement, lost ownership |
| Host orchestrator | `project-peer/src/host-orchestrator.mjs` | plan, handles, health context | plan, commit, health, stop | stop during commit, single-use plans |
| Guest orchestrator | `project-peer/src/guest-orchestrator.mjs` | run, attempt, pause gate, trust challenge | receive, pause, resume, cancel, trust | late callbacks of an old attempt |
| Coordinator client | `project-peer/src/coordinator-client.mjs` | socket, pending requests | connect, publish, announce, close | an answer after a close or a timeout; every attempt has a client of its own |
| Unity connection | `unity-package/.../Editor/Connection` | epoch, transport, state, backoff | connect, disconnect, reconnect, reload | queued callbacks of an old transport |
| Unity Transform Sync | `unity-package/.../Editor/TransformSync` | selected object, lock, pending operations, latest revisions | select, request, renew, send, apply, recover | answers crossing on the wire |
| Unity Hierarchy Sync | `unity-package/.../Editor/HierarchySync` | mirror of the Hierarchy, one pending operation | scan, send, apply, revert, seed | a refused edit reverted to a state that moved on |
| Launcher | `launcher/src` | bridge process, pending commands | start, receive, launch Unity | child exit |

Interactions. Editors and the realtime server exchange JSON messages over one
WebSocket each, in order in both directions. The server shell turns a message, a
close or a timer into one `dispatch` of the authority and sends the effects it
returns. Publishers and guests talk to the Coordinator, which runs in the same
server process, in the same way; guests fetch chunks from peers over HTTP.
Orchestrators own child processes and are driven over a line protocol by the
Unity editor (host) or the launcher (guest). Processes on one machine share the
managed directory, with lock files.

What makes each part correct:

* authority: a lock belongs to a present connection and to one connection only;
  running leases of others are respected by every edit; the Hierarchy stays a
  forest in canonical order; deleted objects are gone everywhere and stay gone;
  every change takes the next revision; late joiners can always be sent the state;
* mirrors: an editor that has received everything shows what the authority holds;
* files: the current pointer names a complete, trusted, verified baseline, and
  an interrupted activation or publication can be repeated;
* download: only verified bytes are accepted, and a download ends;
* processes: no child is lost, none is killed that is not ours, stop wins;
* guest: what was trusted is what is activated, and a cancelled run leaves nothing.

The components no module models, and why, are in `PROJECT.json`; so is the list
of hazards, each at its line, with the properties that cover it.

## 2. How the project is split

Every module stands for one part of the system and the processes it meets, and
is checked by the `MC` module of its name. In the order they were written:

1. `HierarchyModel`, the pure operators of the shared Hierarchy;
2. `SessionAuthority`, one session of the realtime server, on top of it;
3. `OrderedForest`, what a shared Hierarchy promises, and `SessionForest`, the
   refinement mapping onto it;
4. `SessionAuthorityProofs`, about `HierarchyModel`, `SessionAuthority` and the
   refinement;
5. `ProjectActivation` and `ProjectActivationProofs`: receives by several
   processes, the approved and the current pointer and what they name;
6. `ProcessLifecycle`: the children a Host's bridge owns;
7. `SwarmDownload`: one download, its workers, peers and store, and
   `SwarmDownloadProofs`;
8. `ProjectRegistry`, the Coordinator, and `SeedPublication` on top of it: the
   commands that publish, seed, sync and repair, with crashes and restarts; and
   `SeedPublicationProofs`;
9. `HostFlow`: the Unity workflow, the bridge and the Host orchestrator; and
   `HostProofs`, about `HostFlow` and `ProcessLifecycle`, which it extends both
   (the latter's `LifecycleInit`, `LifecycleNext` and `LifecycleSpec` are named so
   for that);
10. `GuestReceive`: the Launcher, the bridge and the Guest orchestrator, and
    `GuestReceiveProofs`;
11. `TransformSync`: Unity editors, the wires and the session's lock, and
    `TransformSyncProofs`;
12. `EditorConnection`: the connection of Unity Editors to the server, and
    `EditorConnectionProofs`.

The modules meet where the code has an interface: `GuestReceive` takes the
download as one step and `SwarmDownload` is that step; `HostFlow` takes the
lifecycle's calls as they return and `ProcessLifecycle` is what they do;
`TransformSync` has the lock table `SessionAuthority` has, for one object, with
the effects on the wire that `SessionAuthority` leaves out; the presence that
`EditorConnection` keeps is `members` of `SessionAuthority`. Only
`SeedPublication` and `ProjectRegistry`, and `SessionAuthority` and
`HierarchyModel`, are composed as modules; a product of the others is out of
TLC's reach.

To come, the most important first: local Hierarchy operations of an editor
(pending, refused, reverted) against `SessionAuthority`; the transfer server's
counters, timers and stop; several writers of one chunk, file operation by file
operation.

## 3. Modules and code

`HierarchyModel` follows `hierarchy-model.mjs`. A JavaScript `Map` is a function
on its keys (`IsMap`, `Put`, `Drop`). An operation is a record
`[kind, object, parent, index, base]`. `OperationAccepted` is the conjunction of
the conflicts of `prepareHierarchyOperation`; `NextObjects` and `NextTombstones`
are its effect. Sibling order is `Before` (index, then id), and `Position`
counts predecessors, which is what sorting and re-numbering do. `GraphValid` walks
up `MaxHierarchyDepth + 1` steps and wants to be at the root: a cycle never is.

`SessionAuthority` has one action per command that changes something:

| Action | Code |
|---|---|
| `RegisterPresence` | `#registerPresence`: a newer connection of a user supersedes the older |
| `RemovePresence`, `RemoveLastPresence`, `CloseSuperseded` | `#removePresence`, three of its outcomes |
| `UpdatePresence` | `#updatePresence` |
| `LockRequest`, `LockRelease` | `#handleLockRequest` (grant and renewal), `#handleLockRelease` |
| `TransformUpdate`, `TransformTooLarge` | `#handleTransformUpdate`: applied; applied, found too large for a snapshot and rolled back |
| `HierarchySeed`, `HierarchyOperation` | `#handleHierarchySeed`, `#handleHierarchyOperation` |
| `ExpireLocks` | `#expireAllLocks`, called by the sweep of the server |
| `Tick` | time |

A command that is refused changes nothing but the locks that had expired, which
`#expireSessionLocks` removes first: it is a step of `ExpireLocks`, or a stutter.
The one refusal that comes after the change is a Transform the snapshot has no room
for: `TransformTooLarge` applies it (`MovedTransforms`, `MovedObjects`) and undoes it
the way the code does (`RestoredTransforms`, `RestoredObjects`), so that a roll-back
that misses one of the two copies of the pose shows in `PosesAgree`.
The same holds for a repeated operation (answered from the cache) and a repeated
seed.

Abstractions.

* `expiresAtUnixMs` is `ttl`, the ticks that remain of a lease; a lock with
  `ttl = 0` has expired and may still be in the table.
* Names and poses are the revision of the operation that wrote them: two writes
  are different, and the copies of one write are equal.
* Byte limits of snapshots are limits on the number of records.
* A connection id is a fresh UUID in the code; here the id of a closed connection
  may come back. `LockOwnersAreMembers` shows that nothing refers to a closed
  connection, so that a reused id is as good as a fresh one.
* Which of the tombstones of one delete leave first is left open (`Evictions`):
  the code takes the Map's order.
* Validation of text, numbers and lengths is left out; requests are well formed.
* Clocks do not run backwards.

`MaxRevision` is a bound of the model, in the guards of the two actions that take
a revision. All other bounds are limits of the configuration of the server.

`OrderedForest` knows no indexes. Siblings stand in rows: `row` is the set of pairs
of siblings, the earlier one first. An edit puts one object somewhere (`Create`),
moves one (`Move`) or takes a subtree out (`Delete`), and everybody else keeps the
parent and the place relative to the others; `Acyclic` and `InRows` say what every
next state must be. There is no arithmetic and no recursion: a subtree is the least
set that has the object and is closed under children. `SessionForest` maps the
records to it: `ParentOf` forgets all but the parents, `RowOf` compares indexes.

`ProjectActivation` follows one receive through `#markPublished` and `activate`.
`pc` is the stage of each process; the sets `Approving` and `Activating` are the
blocks between the `open(..., "wx")` of a lock file and the `finally` that
removes it:

| Actions | Code |
|---|---|
| `Receive` | `syncFromSnapshot`, up to the verified manifest and descriptor |
| `OpenPublished`, `ReadPublished`, `WritePublished`, `ReleasePublished` | `#markPublished`, one action per file operation |
| `BeginActivation`, `Stage`, `Approve`, `Reject` | `activate` until the lock, and its `catch` |
| `OpenActivation`, `CheckActive`, `Move`, `WritePointer`, `ReleaseActivation` | `activate` under the lock, one action per file operation |
| `Cancel`, `Crash` | the abort signal; the end of the process, which leaves its lock files |

A check of the signal and the operation that follows it without an `await` between
them are one step. The download, the rebuild of the files and their verification
are one step, which may fail. The failures of `writeJsonAtomic` and of the rename
change nothing, as the code has it; that the removal of a lock file fails is left
out (a crash in that place has the same effect on the files). `history`, `trusted`,
`broken` and `orphans` record what happened, and no step reads them.

What the model makes visible, and nothing in the repository denies: after a crash
in the activation block the lock file refuses every later activation, and after a
crash or a failed write between move and pointer write the same baseline cannot be
activated any more (`active_revision_exists`, which
`project-peer/test/managed-project.test.mjs` expects); and a receive that was
overtaken by another process installs its older baseline when it ends.

`ProcessLifecycle` has one action for every stretch between two awaits of
`ensureCoordinator`, `ensureSeed`, `ensurePublishingSeed`, `#stop`, `stopAll` and
the cleanup of a failing start. `records` and `keys` are the manager's two maps,
`pending` and `cancelled` the flags of a record, `promise` its
`startupStopPromise`; `child` and `inbox` are the forked process and its channel.
A wait may time out and a child may die at any moment; ports are not numbered, so
a probe may find anything.

`SwarmDownload` has one action for every stretch between two awaits of `discover`
and `download` and of each worker. `race` is the hedged request of
`#fetchEndgameChunk` with its two slots. A peer answers with what it has, fails,
or fails for good; `Reliable` peers never fail for what they hold. `Meddle` is
another process on the same store.

`ProjectRegistry` is the state of `project-coordinator-core.mjs`; its operators
are the commands. `SeedPublication` puts machines in front of it: the actions of
`Call` are the steps of `publish`, `seed`, `sync` and `repair-source-descriptor`,
those of `Runtime` the running Seed, those of `Server` the Coordinator's end.
One command runs on a machine at a time. The download of `sync` is one step.

`HostFlow`: `UnityStep` is the editor's update loop with the workflows of
`TeamForgeHostFlow`; `BridgeStep` the queue of `host-orchestrator-cli.mjs` and
the orchestrator's `inspect`, `plan`, `commit`, `health`, `stop`; `WorldStep` the
deaths and edits. Requests and answers are in order; a request that timed out in
Unity stays in the bridge's queue. The children of a bridge that exits stop at
once. `PollHostHealth` and the restart of the bridge in its `SendAsync` are one
step.

`GuestReceive`: `RunStep` goes on with the run of the orchestrator, `Handle` is
the bridge reading a frame, the rest are the Launcher's buttons and answers, the
Unity process and the Coordinator's next baseline. One control is under way at a
time; `inspect` only reads; the pause button's label and the microtask by which
`activeStartId` lags are left out; the consumption of the handoff and its
application in Unity are one step. Invites for a transfer without a session are
left out: the Launcher refuses to open them.

`TransformSync` has one saved object in a session that some other member keeps
alive. `up` and `down` are the two directions of each editor's WebSocket;
`ed` is what an editor keeps. An editor changes only the object it has selected;
whether its mouse holds the handle (`hotControl`) is a choice at each call;
`MayBeLate` says its local deadline for the lease may have passed. A message of
a closed connection is cut off, the editor is its connection. A Leave's last
messages may be lost, as the server may close at any time.

`EditorConnection` has the statics of `TeamForgeConnectionService` in `editor`,
both ends of every socket in `conn`, and the presence the session lists in
`member`. Epoch and transport of an attempt are one number, which may be used
again once nothing refers to it. `RunCallback` is one iteration of `Update`'s
loop; the overflow mark is seen after at most `MaxRuns` more callbacks, as
`MaximumMainThreadActionsPerUpdate` is smaller than the queue. A send that fails
is the same as a break. Messages other than `hello_ack` and `session_superseded`
are left out: they come after the acknowledgement and change nothing here.
`Quit` is also a crash of the Editor. `AutoReconnect` is on.

What these models make visible:

* `HostFlow`: when `commit` is unwound, `host-orchestrator.mjs` (599) swallows a
  failing stop and drops its handles, and a later `commit` overwrites the Seed's
  handle. A following `host_stop` then answers although the Seed or the Coordinator
  still runs; the action property that would forbid it fails. `StaleReadyIsRevoked`
  and the other properties are stated for what the handles name.
* `SeedPublication`: the registry is in memory and trusts whatever revision is
  announced first. After a crash between the Coordinator's acceptance and the
  write of `published.json`, followed by a restart of the Coordinator, one revision
  number can be given two contents (`docs/architecture-decisions.md` 212-218, D-313,
  speaks of one Coordinator's life). A `published.lock` left by a crash refuses
  every later command (`published_pointer_busy`). Two Seeds of one user supersede
  each other.
* `TransformSync`: in three cases an editor that reports no conflict goes on showing
  a value the session has replaced. The history field `unseen` marks them, and
  `NothingOutdatedShows` excepts them and nothing else.
  1. A value of another editor that arrives during a conflict that is not to be
     recovered is not shown; a late `lock_required` for the same edit marks the
     conflict recoverable again, and the recovery shows the last value the editor
     knew (`TeamForgeTransformSyncService.cs` 1341-1403 with
     `TeamForgeTransformConflictRecoveryRegistry.cs`). TLC finds it in twenty steps
     without the exception.
  2. `MarkNonRecoverable` discards the value an earlier conflict had deferred, with
     the same end; it takes two pending operations.
  3. The answer to an editor's own update is not applied, as the editor is taken to
     show it already (`HandleTransformApplied` 1273-1339). But a renewal and an update
     may be on their way when the lease lapses; another editor gets the lock, moves
     the object and releases it; then the renewal is granted and the update taken. The
     first editor was shown the other's value in between, or deferred it, and keeps
     it, although the session has its own. The log line 1398 says of the recovery that
     it restores "the latest authoritative value". This case lies outside the bounds
     of the run (it takes five gestures and four messages on a wire): the proof of the
     property failed on it, and TLC, led through its 32 steps, agreed.

  An edit made before the grant and deselected is neither sent nor reported, and an
  object that is deselected and selected again takes a value as confirmed that is not.
* `EditorConnection`: if the callback of `FinishDisconnectAsync` is dropped because
  the queue is full, the Editor shows "disconnecting" until Disconnect is pressed
  again, as `Update` gives up a current transport only.

## 4. Runs

| Run | Instance | What it shows |
|---|---|---|
| `session_locks` | two users, one of them with two connections; two objects; leases of two ticks; two locks per session and one per connection; three operation ids, two of them remembered; revisions up to 3 | `LockOwnersAreMembers`, `RevisionLog`, `ForeignLeasesSurvive`, `EditsNeedLeases` (here without Hierarchy records; the theorem has them), and, under fairness, `IdleLocksAreFreed` |
| `session_hierarchy` | two editors; one saved and two created objects; one tombstone, one remembered operation; revisions up to 3 | `TombstonesStayDead`, `PosesAgree`, `LockedContentIsStable`, `RevisionOrdersChanges` |
| `session_forest` | one editor; four objects, two in the baseline; depth 2; three edits; the baseline is flat with equal indexes, a chain, or a cycle (refused) | `HierarchyIsForest` and the refinement `ImplementsOrderedForest` |
| `project_activation` | two processes; three baselines, two of them of one revision; any number of cancellations, failures and crashes | `TypeOK`, `OneActivator`, `CurrentIsSound`, `ActiveWasCurrent`, `PublishedMovesForward`, `CurrentNeverReturns`, and, under fairness, `LocksAreReleased` |
| `process_lifecycle` | two starts of any kind and two stops, one with force; two access codes | `NoChildIsLost`, `KeysAreOwned`, `SharersAreServed`, `StopWins` |
| `swarm_download` | two workers; a dependable peer and a flaky one; three chunks, some of them in the store; two attempts; adaptive, hedged, rarest first; one change of the store by another process | `NothingOutlivesTheCall`, `OutcomeIsJustified`, and, under fairness, `DownloadEnds` |
| `seed_publication` | an Owner's and a mate's machine; two contents; two revisions; five commands; one crash, break, restart or checkout | `OnlyApproved`, `StoppedIsSilent`, `RanksAgree`, and, under fairness, `SeedComesBack` |
| `host_flow` | two contents, two revisions; Start Collaboration twice; one edit; two timeouts, deaths or failing calls | `PublishedWasReviewed`, `ReadyIsCurrent`, and, under fairness, `StaleReadyIsRevoked` |
| `guest_receive` | two baselines of two publishers; two receives, one pause, one failing call or death of the bridge | `OnlySuccessHandsOff`, `TrustWasAnswered`, and, under fairness, `InterruptionsAreServed` |
| `transform_sync` | two editors; two edits; three gestures; one pending operation; two messages on a wire; one lapse or broken connection | `MirrorFollows`, `HolderIsAlone`, `NothingOutdatedShows` |
| `editor_connection` | two Editors of one user; two presses of Connect and one other gesture; one fault; four connections at a time; a queue of two callbacks | `OneTransport`, and, under fairness, `Settles` |
| `tombstone_cap` | one editor, two objects, one tombstone | a violation, see section 6 |

Why the bounds are enough. Two users and a second connection of one of them give
all relations a request can have to a lock: its own, its own of an earlier
connection, somebody else's. Limits are as small as lets them be reached and
exceeded. Three revisions let an object be created, moved or locked, and deleted,
in every order, and four objects give an edit siblings on both sides, a parent and
a child. Operation ids are interchangeable, as are the two editors, so that the runs
use symmetry, but not those that check liveness. In `project_activation` nothing has
to be bounded: the sets of baselines and of files are finite, and both a newer
baseline and a rival of the same revision are there to overtake a receive.

Fairness: `WF(Tick)`, time passes, and `WF(ExpireLocks)`, the interval timer that
`teamforge-server.mjs` starts when it listens (line 832). Clients owe nothing:
`IdleLocksAreFreed` says a lock is freed unless somebody asks for it again and
again. In `ProjectActivation`, `WF(FileStep(p))`: a file operation of a running
process completes or fails, after which its promise goes on. A download, the
user's answer and the start of a receive owe nothing.
In the others, weak fairness of the program's own steps: the event loop and the
workers of a download, whose requests have timeouts; each machine's event loop in
`SeedPublication`, and a Coordinator that is started again after it stopped;
Unity's update loop and the bridge in `HostFlow`; the bridge in `GuestReceive`;
`Update`, the network threads and the server's event loop in `EditorConnection`.
Users, faults, edits and other processes owe nothing. `ProcessLifecycle` and
`TransformSync` are checked for safety only.

Deadlock is checked where the program always has a step to take or a module says
when it has ended (`Ended`, `Over`); the cfg of the runs in which the users' and
faults' bounds may leave nothing to do says `CHECK_DEADLOCK FALSE`. Each property has a mutant in `PROJECT.json`, a
plausible slip in the code next to the definition it replaces (marked
`(mutant)`), with which the same run finds the property violated.

## 5. Proofs

Each `Proofs` module proves every safety property its runs check, for every value
of the constants that satisfies the module's assumptions and without its fairness.

`SessionAuthorityProofs`, from `HierarchyAssumption` and `AuthorityAssumption`:

* First, what the operators of `HierarchyModel` return, from `Put` and `Drop`
  through `Position` (a natural number because siblings are a finite set) to
  `NextObjects`: `Follows` says which records there are afterwards and what of them
  is unchanged, `GraphKept` and `GraphsMerge` when a parent graph stays valid,
  `OperationOrders` and `SeedOrders` that indexes stay 0 .. n-1, `SubtreeIsDescendants`
  that the walk up finds exactly the subtree (a shortest way up meets no object
  twice, by pigeonhole, and so fits the bound of the walk).
* `SessionTypeOK`: `TypeOK` is inductive by itself; the work is the Hierarchy. No
  run checks it: the other theorems rest on it.
* `LockOwnersArePresent` (`LockOwnersAreMembers`), inductive relative to `TypeOK`.
  Its two halves need each other: that a lock's owner is active comes to nothing if
  a member's connection could be closed, and the close of a connection is told apart
  by whether it is the active one of its user.
* `SessionStaysForest` (`HierarchyIsForest`), the order and the graph together:
  `prepareHierarchyOperation` checks the graph, but the order follows only from the
  order before.
* `SnapshotsAgree`, `DeletedObjectsStayDead`, `LogOrdersEverything`, each inductive
  relative to `TypeOK`; the second also needs that objects and tombstones lie in
  seeded Scenes, or a Transform of an object of an unseeded Scene could stay behind.
  `RevisionLog` is proved as `LogInOrder` and `StampsReached`.
* The action properties `LeasesAreRespected`, `LockedContentIsRespected`,
  `RevisionsOrderChanges` and `MovesNeedLeases` (`EditsNeedLeases`). The second needs that an edit which re-indexes the
  children of a parent names that parent in `GuardedParents`, and that a delete takes
  no subtree with a locked member. The last needs that every pose a structural edit
  writes comes with the revision of that edit (`PlacedIsStamped`).
* `RollbackRestores`: what `TransformTooLarge` puts back is what was there, so the
  action changes expired locks only, and each of the theorems above has it as a case.
* `RefinesOrderedForest`: `Spec => ImplementsOrderedForest`. `RowsKept` says that
  among some objects nothing passes another; `InsertAtKeepsRows` and
  `ReindexKeepsRows` show it of the two ways indexes are written, one lemma per kind
  of operation of `NextObjects` puts them together, and `EditMaps`, `SeedMaps`,
  `EmptyMaps` and `StutterMaps` map the steps. That the next state is again a forest
  in rows comes from `HierarchyIsForest'`: equal indexes of siblings would leave
  `RowOf` partial, and an invalid graph would not be `Acyclic`.

`ProjectActivationProofs` proves, for any processes and baselines that satisfy
`ActivationAssumption`, the type invariant and all the safety properties of the
run: `ActivationTypeOK`, `ActivationsExcludeEachOther`, `CurrentStaysSound`,
`NoHalfActivation`, `ApprovalMovesForward`, `CurrentIsNew`. The inductive invariant
`Inv` says what each stage has established: the sections exclude each other and
their lock files exist (`Exclusion`); what was read under `published.lock` is still
there at the write, and the job of everybody past it is covered by the approved
pointer (`ApprovalInv`); the job of everybody past the user's answer is trusted
(`TrustInv`); a directory that was just moved never was current (`DirectoryInv`).
`Exclusion` is what the other parts need from the lock files: without it a second
writer could get between a read and a write, or between a move and its pointer.

`EditorConnectionProofs` proves `OneSocket`: `Spec => []OneTransport`, for any
Editors, connections and queue sizes that satisfy `BoundsAssumption`. `OneTransport`
is not inductive by itself: a new attempt replaces `current` without looking at what
was there, so the invariant `Inv` adds `Rests`. An Editor in a state from which an
attempt may begin (disconnected, reconnecting, faulted) or that is disconnecting has
no current connection, and neither has one whose disconnect is still to be
announced; otherwise the `finished` callback, which makes the state disconnected,
could hide a living transport from the next Connect. `Inv` also carries `TypeOK`,
because `OnFinished` needs that a queued callback names a connection, never 0. There
is one lemma per way of changing an Editor (`QuietStep`, `LossStep`, `BeginStep`,
`NetworkStep`, `ServerStep`), all but the last resting on `OneEditorStep`, and one
per action on top of them. The proof
uses no fairness and does not need the bounds on faults, gestures and connects to be
small.

`HostProofs` proves, about `ProcessLifecycle`, the four properties of its run for any starts,
stops and access codes that satisfy `LifecycleAssumption`: `OwnedUntilExit`,
`KeysLeadHome`, `SharersJoinBusyStops` and the action property `StoppedStaysStopped`.
They are proved together, from an invariant that follows a start through its life.
Before it forks nothing knows it (`Births`), and it stops nothing (`Idlers`). Once
it has forked it is pending and, unless it was cancelled, in the table (`Stages`):
that is why a start that finds its flag unset at the end may publish its key, which
`KeysAreOwned` needs, as two starts may publish the same one. What a start found
under a key is no longer pending (`Finds`), so that what it retires, when that child
has exited, is nobody's start under way; a record that is stopped while it is pending
is cancelled (`Stopping`), and one whose handle was returned is neither (`Results`).
A promise is a stop that is busy with that record (`Promises`), which two overlapping
stops of one record, a failing start's own cleanup and a shared stop have to keep.
`StopWins` then has one lemma for each thing a cancelled start must not do
(`PendingStays`, `ResultStays`, `NoNewConfirm`).

`SeedPublicationProofs` proves `NothingUnapproved`, `StoppedSeedIsSilent` and
`RanksStayRight` for any machines, texts, inventories and bounds that satisfy
`RegistryParameters` and `PublicationParameters`, with any number of crashes,
broken connections and restarts. The invariant is `Sound`, about one machine: which
steps of a command are only reached with an approved baseline (`Vetted`), and that a
request that waits at the Coordinator with its connection still open is the one the
command waits for, so that the answer is about the command's own baseline. The
request of a connection that is gone may be handled late; that it then reaches nobody
is `link # "open"`. The files (`DisksOK`) take their baselines from commands at vetted
steps, and the registry (`RegistryOK`) from publishes, which approve them, and from
announcements, which come from vetted steps too. `RanksAgree` needs in addition that
an empty registry has no peers: the announcement that rebuilds it sets a baseline
without ranking anybody again.

`SwarmDownloadProofs` proves `CallsLeaveNothing` and `OutcomesAreTrue` for any
workers, peers, chunks and attempts. Of the invariant, `Holding` says what a worker
has in its hands at each station, `Staffed` that `active` counts the workers with a
job, `Queued` that a pacing queue has whoever waits in it, once; `Counted`, that
`inFlight` of a peer is the number of requests out at it, then follows a request
through admission, race, hedge and failure. `Stopping` gives the reasons for which
workers stop, `GivingUp` why nobody dependable is given up without reason, and
`Balanced` that every chunk is counted, unclaimed or in somebody's hands: it is what
makes the last `completed === chunkCount` come true. The steps of a worker are first
reduced to thirteen moves (`Moves`: `Picking`, `Asking`, `Blaming`, ...), which keep
the other workers' state (`OthersKept`), and each part of the invariant is proved of
the moves rather than of the actions.

`HostProofs` proves, about `HostFlow`, `OnlyReviewedIsPublished` and `HostReadyIsCurrent` for any
contents, revisions, starts, edits and faults. `Committing`: a commit under way is
the request at the head of the bridge's queue. `Reviews`: every plan that is on its
way to a publication, in Unity, in the queue or in the commit, was confirmed.
`Waiting`: Unity's workflow waits for the answer to its last request only, so that
while it shows Host Ready the queue has health checks and nothing that changes what
they report; requests Unity gave up on are what makes this part necessary.

`GuestReceiveProofs` proves `SuccessAloneHandsOff` and `PublishersAreAgreedTo` for
any baselines and publishers and any receives, pauses and failures. `Turns`: one
receive at a time, in the Launcher, on the line to the bridge, in the orchestrator or
on the way back. `Numbers`: its number is its own, reported or cancelled but not
both. `Deliveries`: a handoff that can still be named is of a reported receive, or of
the run that will remove or report it. `Agreements` and `Challenges`: a step past the
trust question is only reached for an agreed publisher, and an answer on the line is
about the challenge whose number it carries, so that a late one reaches no other.

`TransformSyncProofs` proves `MirrorsFollow`, `HoldersAreAlone` and `NothingOutdated`
for any editors, any limit of pending operations and any bounds that satisfy
`TransformAssumption`: any number of edits, gestures, lapses, broken connections and
messages on a wire. None of the three properties is inductive, as each speaks of an
editor that has read what was sent to it, or is about to. `IInv` (`TransformInvariant`;
TLC checked it within the run's bounds before) says of every editor and its two wires,
`EditorsFine`:

* `Sound`, of the editor's record alone. A pose that is shown without a conflict is the
  last value told, an edit that waits for its answer or an edit of its own that was not
  taken, and the value to go back to is one as well; no update that waits is newer than
  what is shown. One lemma per operator of the editor keeps it (`BeginSound`,
  `TrySendSound`, `LossSound`, `OwnAppliedSound`, ...).
* `Sent`, of the updates under way: in order, not yet taken, and waited for.
* `Wire`, of the wire to the editor: the snapshots come first; a denial names whom the
  mirror will name when it is read, and an answer to an own update is read by one that
  knows itself the owner; answers come in the order of the updates; revisions grow.
* `Live`, if the server can reach the editor: what the wire comes to is the session's
  owner (`MirrorFollows`) and the session's value, and no update stays unanswered.
* `Hold`, for the owner: behind every value of another editor on its wire there is a
  `lock_granted`, which makes `MayBeLate` true. `HolderIsAlone` follows.

The server's steps append to the wires of all editors it reaches (`Telling`,
`ReleasedFine`, `ExpiredFine`), `Receive` takes the first message off (`HeardWire`), and
the rest concerns one editor. What an editor's mirror will say is defined by a recursive
function along the wire (`Reads`); `ReadsAppend` and `ReadsTail`, by induction on its
length, are all the proof needs of it.

Only model-checked: liveness under fairness (`IdleLocksAreFreed`, `LocksAreReleased`,
`DownloadEnds`, `SeedComesBack`, `StaleReadyIsRevoked`, `InterruptionsAreServed`,
`Settles`), which is out of the prover's reach.

## 6. Finding

`docs/phases/phase-4.md` line 51 says "Tombstones prevent a deleted logical ID from
being recreated later in the same Session." The authority keeps at most
`maxHierarchyTombstones` tombstones and forgets the oldest
(`hierarchy-model.mjs` 643-645), after which the id is accepted again. Run
`tombstone_cap` shows it with room for one tombstone: create and delete one
object, create and delete another, create the first again.
`TombstonesStayDead`, which holds, is about the tombstones that are retained.

## 7. Not modelled

* Direct transfer as a server: request counting, rate windows, bandwidth, start and
  stop. `SwarmDownload` and `SeedPublication` have its answers only.
* The project identity lock (one lock file around the creation of a key).
* Signed documents and policies, unified preflight, the component experiments:
  pure functions on data, without state or concurrency worth a model checker.
* Local Hierarchy operations of an editor, Unity Presence, several objects in
  Transform Sync; windows, diagnostics, firewall and LAN checks.
* Of the server shell: HTTP, the upgrade, message validation, rate counting, stop.
* Of the Host: the bridge's end by a signal or by the end of its input, the
  editor's shutdown, endpoint policy and the preflight's checks.
* Of the Launcher: finding and verifying Unity editors, execution aliases, the
  single-instance gate.
* Scripts, the web site, builds and agent evaluations: not part of the running
  product.
