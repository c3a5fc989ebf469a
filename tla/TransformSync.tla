----------------------------- MODULE TransformSync -----------------------------
(***************************************************************************)
(* The Transform of one saved object, between the editors that have it     *)
(* open (TeamForgeTransformSyncService.cs) and the session that keeps its  *)
(* authoritative value and its lock (session-authority.mjs): leases that   *)
(* lapse, updates in flight, denials, conflicts, connections that break    *)
(* and snapshots on the way back.  The Scene is already in the session,    *)
(* which some other member keeps alive.                                    *)
(***************************************************************************)
EXTENDS Naturals, Sequences, FiniteSets

CONSTANTS
    Editors, NoEditor,
    MaxPending,     \* MaximumPendingLocalOperations
    MaxEdits,       \* bounds on: edits by the users,
    MaxGestures,    \*   selections, saves, buttons and renewals of a lease,
    MaxFaults,      \*   leases that lapse and connections that break,
    MaxWire         \*   messages on one wire when somebody adds to it

ASSUME TransformAssumption ==
    /\ NoEditor \notin Editors
    /\ MaxPending \in Nat \ {0}
    /\ {MaxEdits, MaxGestures, MaxFaults, MaxWire} \subseteq Nat

VARIABLES
    lock, auth,     \* the session: the lock of the object and its Transform
    sock,           \* the server's end of each editor's connection
    up, down,       \* messages under way to the server, to each editor
    ed,             \* each editor
    accepted,       \* (history) the poses the session took
    edits, gestures, faults     \* bounds

sessionVars == <<lock, auth, accepted>>
wireVars == <<sock, up, down>>
boundVars == <<edits, gestures, faults>>
vars == <<sessionVars, wireVars, ed, boundVars>>

\* A pose is who made it and which edit that was; the id of the operation that
\* sends it is the pose, because a pose is sent once.
Base == <<NoEditor, 0>>
NoPose == << >>
NoLock == [owner |-> NoEditor, lapsed |-> FALSE]

\* What an editor keeps.  "known" is its mirror of the lock, "ops" the updates it
\* has not been answered, "touched" that the Scene was dirty or edited when the
\* snapshot was awaited.  As history, "last" is the value of the session it was told
\* of last, and "unseen" that it neither showed nor kept that value: see MarkNonRecoverable
\* and OnApplied.
Idle == [stage |-> "ready", pose |-> Base, dirty |-> FALSE, touched |-> FALSE,
         selected |-> FALSE, tracked |-> FALSE, observed |-> NoPose, confirmed |-> NoPose,
         granted |-> FALSE, pending |-> FALSE, blocked |-> FALSE,
         protected |-> FALSE, recoverable |-> FALSE, deferred |-> NoPose,
         seen |-> 0, known |-> NoEditor, ops |-> {}, last |-> Base, unseen |-> FALSE,
         out |-> << >>]

Init ==
  /\ lock = NoLock /\ auth = [pose |-> Base, revision |-> 0] /\ accepted = {Base}
  /\ sock = [e \in Editors |-> "open"]
  /\ up = [e \in Editors |-> << >>] /\ down = [e \in Editors |-> << >>]
  /\ ed = [e \in Editors |-> Idle]
  /\ edits = 0 /\ gestures = 0 /\ faults = 0

-----------------------------------------------------------------------------
(* The editor.  Each operator takes the editor's record c and gives it back *)
(* with what it sends appended to "out".                                    *)

Send(c, m) == [c EXCEPT !.out = Append(@, m)]
LockRequest == [type |-> "lock_request"]
LockRelease == [type |-> "lock_release"]
Update(p) == [type |-> "transform_update", pose |-> p]

Foreign(c, e) == c.known \notin {NoEditor, e}
Changed(c) == c.observed # c.pose

ApplyRemote(c, p) == [c EXCEPT !.pose = p, !.dirty = c.dirty \/ c.pose # p]

\* The tracked object takes an authoritative value with its confirmed one.
Show(c, p) ==
  IF c.tracked THEN [ApplyRemote(c, p) EXCEPT !.observed = p, !.confirmed = p]
  ELSE ApplyRemote(c, p)

NoHold(c) == [c EXCEPT !.granted = FALSE, !.pending = FALSE]

ResetTracking(c) ==
  [NoHold(c) EXCEPT !.tracked = FALSE, !.blocked = FALSE,
                    !.observed = NoPose, !.confirmed = NoPose]

\* A conflict keeps the object as it is: until the editor reconnects or, when the
\* lock was seen to be another's, until it can be recovered.  The value deferred by
\* an earlier conflict is forgotten.
MarkNonRecoverable(c) ==
  [c EXCEPT !.protected = TRUE, !.recoverable = FALSE, !.deferred = NoPose,
            !.unseen = @ \/ c.deferred # NoPose]
MarkLockRequired(c) == [c EXCEPT !.protected = TRUE, !.recoverable = TRUE]
Unmark(c) == [c EXCEPT !.protected = FALSE, !.recoverable = FALSE, !.deferred = NoPose]

SendLockRequest(c, e) ==
  IF c.tracked /\ ~c.blocked /\ ~Foreign(c, e)
  THEN Send([c EXCEPT !.pending = TRUE], LockRequest) ELSE c

CanTrack(c) == c.selected /\ c.stage \in {"hierarchy", "ready"}

BeginTracking(c, e, ask) ==
  LET r == ResetTracking(c) IN
  IF ~CanTrack(c) THEN r
  ELSE IF c.protected THEN [r EXCEPT !.blocked = TRUE]
  ELSE LET t == [r EXCEPT !.tracked = TRUE, !.observed = c.pose, !.confirmed = c.pose]
       IN  IF ask THEN SendLockRequest(t, e) ELSE t

\* The lease's deadline passed on the editor's clock.
BlockAfterDeadline(c) ==
  Send([MarkNonRecoverable(NoHold(c)) EXCEPT !.blocked = TRUE], LockRelease)

TrySend(c, late) ==
  IF ~c.granted \/ c.blocked THEN c
  ELSE IF late THEN BlockAfterDeadline(c)
  ELSE IF ~Changed(c) \/ Cardinality(c.ops) >= MaxPending THEN c
  ELSE Send([c EXCEPT !.ops = @ \cup {c.pose}, !.observed = c.pose], Update(c.pose))

FinishTracking(c, e, late) ==
  LET reverts == c.tracked /\ ~c.granted /\ Foreign(c, e) /\ c.confirmed # c.pose
      r == IF reverts THEN ApplyRemote(c, c.confirmed) ELSE c
  IN  ResetTracking(IF r.granted THEN Send(TrySend(r, late), LockRelease) ELSE r)

\* The latest value deferred, or else the last one confirmed, replaces a local
\* value the session refused; not during a drag and not with updates unanswered.
TryRecover(c, hot) ==
  IF c.tracked /\ c.protected /\ c.recoverable /\ ~hot /\ c.ops = {}
  THEN [NoHold(Unmark(Show(c, IF c.deferred # NoPose THEN c.deferred ELSE c.confirmed)))
          EXCEPT !.blocked = FALSE]
  ELSE c

LockLoss(c, e, hot) ==
  IF c.confirmed = c.pose THEN [NoHold(c) EXCEPT !.observed = c.pose]
  ELSE LET k == [NoHold(c) EXCEPT !.blocked = TRUE, !.observed = c.pose]
       IN  IF Foreign(c, e) THEN TryRecover(MarkLockRequired(k), hot) ELSE MarkNonRecoverable(k)

RefreshLock(c, e, hot) ==
  IF c.tracked /\ c.blocked /\ c.protected
  THEN NoHold(IF c.known = e THEN Send(c, LockRelease) ELSE c)
  ELSE IF ~c.tracked \/ c.known = NoEditor THEN [c EXCEPT !.granted = FALSE]
  ELSE IF c.known = e THEN [c EXCEPT !.granted = TRUE]
  ELSE LockLoss(c, e, hot)

OnGranted(c, e) ==
  LET k == [c EXCEPT !.known = e] IN
  IF c.blocked THEN Send(NoHold(k), LockRelease)
  ELSE IF ~c.tracked THEN Send(k, LockRelease)
  ELSE [k EXCEPT !.granted = TRUE, !.pending = FALSE]

OnChanged(c, e, m, hot) == RefreshLock([c EXCEPT !.known = m.owner], e, hot)

OnDenied(c, m) ==
  LET k == [c EXCEPT !.known = m.owner] IN
  IF c.tracked THEN [NoHold(ApplyRemote(k, c.confirmed)) EXCEPT
                       !.observed = IF c.confirmed = c.pose THEN @ ELSE c.confirmed]
  ELSE k

\* Only the release of the owner it knows of frees the lock.
OnReleased(c, e, m, hot) ==
  IF m.owner = NoEditor \/ c.known # m.owner THEN c
  ELSE LET k == [c EXCEPT !.known = NoEditor]
       IN  IF c.tracked THEN LockLoss(k, e, hot) ELSE k

\* What the session told the editor of m.
Told(c, m) == [c EXCEPT !.last = m.pose, !.unseen = FALSE]

\* The answer to an update of its own that it made before it showed, or deferred,
\* the value of another editor: the session has the update, the editor does not show it.
Overtaken(c, m) == c.deferred # NoPose \/ c.pose[1] # m.pose[1]

(* (mutant) Does not keep the value that arrives while a conflict is open.   *)
OnApplied_NoDeferral(c, m, hot) ==
  LET d == [Told(c, m) EXCEPT !.seen = m.revision, !.ops = @ \ {m.pose}] IN
  IF m.revision <= c.seen THEN [c EXCEPT !.ops = @ \ {m.pose}]
  ELSE IF m.pose \in c.ops
  THEN [d EXCEPT !.confirmed = IF c.tracked THEN m.pose ELSE @, !.unseen = Overtaken(c, m)]
  ELSE IF ~c.protected THEN Show(d, m.pose)
  ELSE IF c.recoverable THEN TryRecover(d, hot)
  ELSE [d EXCEPT !.unseen = TRUE]

OnApplied(c, m, hot) ==
  LET d == [Told(c, m) EXCEPT !.seen = m.revision, !.ops = @ \ {m.pose}] IN
  IF m.revision <= c.seen THEN [c EXCEPT !.ops = @ \ {m.pose}]
  ELSE IF m.pose \in c.ops
  THEN [d EXCEPT !.confirmed = IF c.tracked THEN m.pose ELSE @, !.unseen = Overtaken(c, m)]
  ELSE IF ~c.protected THEN Show(d, m.pose)
  ELSE IF c.recoverable THEN TryRecover([d EXCEPT !.deferred = m.pose], hot)
  ELSE [d EXCEPT !.unseen = TRUE]

\* lock_required: the update came without a lease.
OnRefused(c, m, hot) ==
  LET k == [MarkLockRequired(c) EXCEPT !.ops = @ \ {m.pose}, !.blocked = @ \/ c.tracked]
      r == IF c.granted THEN Send([k EXCEPT !.granted = FALSE], LockRelease) ELSE k
  IN  IF m.pose \in c.ops THEN TryRecover(r, hot) ELSE c

DirtySceneDiffers(c, p) == c.dirty /\ c.pose # p
ApplyObject(c, p) == ApplyRemote(c, p)
ResumeTracking(c, e) == IF c.tracked THEN c ELSE BeginTracking(c, e, TRUE)

\* The first Hierarchy snapshot: a dirty Scene that differs is left alone, and the
\* editor hears nothing more until it reconnects.
OnHierarchySnapshot(c, e, m) ==
  IF DirtySceneDiffers(c, m.pose) THEN [c EXCEPT !.stage = "refused"]
  ELSE ResumeTracking([ApplyObject(Told(c, m), m.pose) EXCEPT !.stage = "hierarchy"], e)

\* The Transform snapshot holds the object once somebody has moved it.
OnSnapshot(c, e, m, hot) ==
  LET k == [Unmark(Told(c, m)) EXCEPT !.stage = "ready", !.known = m.owner,
                                      !.touched = FALSE, !.seen = m.revision]
      shown == IF m.revision = 0 THEN k
               ELSE IF c.touched /\ c.pose # m.pose
                    THEN [k EXCEPT !.protected = TRUE, !.blocked = @ \/ c.tracked]
               ELSE Show(k, m.pose)
  IN  RefreshLock(shown, e, hot)

\* What the editor does with message m.
Handles(c, e, m, hot) ==
  IF c.stage = "refused" THEN c
  ELSE CASE m.type = "hierarchy_snapshot" -> OnHierarchySnapshot(c, e, m)
         [] m.type = "transform_snapshot" -> OnSnapshot(c, e, m, hot)
         [] m.type = "transform_applied" -> OnApplied(c, m, hot)
         [] m.type = "lock_granted" -> OnGranted(c, e)
         [] m.type = "lock_state_changed" -> OnChanged(c, e, m, hot)
         [] m.type = "lock_denied" -> OnDenied(c, m)
         [] m.type = "lock_released" -> OnReleased(c, e, m, hot)
         [] m.type = "lock_required" -> OnRefused(c, m, hot)

\* An editor update with the object selected.
Frames(c, e, late, hot) ==
  IF c.blocked THEN TryRecover(c, hot)
  ELSE IF c.granted
  THEN TrySend(c, late)
  ELSE IF ~Changed(c) THEN c
  ELSE IF Foreign(c, e) THEN ApplyRemote(c, c.observed)
  ELSE IF c.pending THEN c ELSE SendLockRequest(c, e)

-----------------------------------------------------------------------------
(* The steps of an editor: its user, its frames, its messages.              *)

\* What an editor sends reaches a server that still reads its socket.
Becomes(e, c) ==
  /\ ed' = [ed EXCEPT ![e] = [c EXCEPT !.out = << >>]]
  /\ up' = [up EXCEPT ![e] = IF sock[e] = "open" THEN @ \o c.out ELSE << >>]

\* The editor's deadline is the lease's end as the session told it: when it
\* passes, that lease is over, unless a renewal is under way.
MayBeLate(e) ==
  \/ lock.owner # e \/ lock.lapsed
  \/ \E i \in DOMAIN down[e] : down[e][i].type = "lock_granted"
Lateness(e) == IF MayBeLate(e) THEN BOOLEAN ELSE {FALSE}

Acts(e) == Len(up[e]) < MaxWire
Gesture(e) ==
  /\ Acts(e) /\ gestures < MaxGestures /\ gestures' = gestures + 1
  /\ UNCHANGED <<sessionVars, sock, down, edits, faults>>
Fault == faults < MaxFaults /\ faults' = faults + 1

Select(e) ==
  /\ Gesture(e) /\ ~ed[e].selected
  /\ \E ask \in BOOLEAN : Becomes(e, BeginTracking([ed[e] EXCEPT !.selected = TRUE], e, ask))

Deselect(e) ==
  /\ Gesture(e) /\ ed[e].selected
  /\ \E late \in Lateness(e) :
       Becomes(e, [FinishTracking(ed[e], e, late) EXCEPT !.selected = FALSE])

\* A saved Scene finishes the tracking and begins it anew.
Save(e) ==
  /\ Gesture(e) /\ ed[e].dirty
  /\ \E late \in Lateness(e) :
       Becomes(e, BeginTracking([FinishTracking(ed[e], e, late) EXCEPT !.dirty = FALSE], e, TRUE))

\* A user moves the selected object; a Scene that gets dirty while the first
\* snapshot is awaited is remembered.
Edit(e) ==
  /\ ed[e].selected /\ edits < MaxEdits /\ edits' = edits + 1
  /\ ed' = [ed EXCEPT ![e].pose = <<e, edits'>>, ![e].dirty = TRUE,
                      ![e].touched = @ \/ (ed[e].stage \in {"hello", "hierarchy"} /\ ~ed[e].dirty)]
  /\ UNCHANGED <<sessionVars, wireVars, gestures, faults>>

\* The window's buttons.
RequestLock(e) ==
  /\ Gesture(e) /\ ed[e].tracked /\ ed[e].stage # "off"
  /\ Becomes(e, SendLockRequest(ed[e], e))

ReleaseLock(e) ==
  /\ Gesture(e) /\ ed[e].tracked /\ ed[e].stage # "off"
  /\ \E late \in Lateness(e) : Becomes(e, NoHold(Send(TrySend(ed[e], late), LockRelease)))

Frame(e) ==
  /\ Acts(e) /\ ed[e].tracked
  /\ \E late \in Lateness(e), hot \in BOOLEAN : Becomes(e, Frames(ed[e], e, late, hot))
  /\ UNCHANGED <<sessionVars, sock, down, boundVars>>

\* A frame that renews the lease as well.
RenewingFrame(e) ==
  /\ Gesture(e) /\ ed[e].granted /\ ~ed[e].blocked /\ ~ed[e].pending
  /\ Becomes(e, TrySend(SendLockRequest(ed[e], e), FALSE))

Receive(e) ==
  /\ ed[e].stage # "off" /\ down[e] # << >> /\ Acts(e)
  /\ \E hot \in BOOLEAN : Becomes(e, Handles(ed[e], e, Head(down[e]), hot))
  /\ down' = [down EXCEPT ![e] = Tail(@)]
  /\ UNCHANGED <<sessionVars, sock, boundVars>>

\* The connection is gone for the editor: the mirror and everything about the
\* session is forgotten, the Scene stays as it is.
Gone(c) ==
  [ResetTracking(Unmark(c)) EXCEPT !.stage = "off", !.known = NoEditor, !.ops = {}, !.seen = 0,
     !.touched = FALSE, !.last = Base, !.unseen = FALSE]

Lose(e) ==
  /\ ed[e].stage # "off" /\ Fault
  /\ Becomes(e, Gone(ed[e]))
  /\ down' = [down EXCEPT ![e] = << >>]
  /\ UNCHANGED <<sessionVars, sock, edits, gestures>>

\* The user disconnects: the tracking is finished first.
Leave(e) ==
  /\ ed[e].stage # "off" /\ Acts(e) /\ Fault
  /\ \E late \in Lateness(e) : Becomes(e, Gone(FinishTracking(ed[e], e, late)))
  /\ down' = [down EXCEPT ![e] = << >>]
  /\ UNCHANGED <<sessionVars, sock, edits, gestures>>

-----------------------------------------------------------------------------
(* The session and the server in front of it.                               *)

\* A broadcast reaches the members whose sockets are open.
Listening(e) == sock[e] = "open" /\ ed[e].stage # "off"
Tell(d, e, m) == [d EXCEPT ![e] = IF Listening(e) THEN Append(@, m) ELSE @]
TellAll(d, but, m) ==
  [e \in Editors |-> IF Listening(e) /\ e \notin but THEN Append(d[e], m) ELSE d[e]]

LockMessage(type, owner) == [type |-> type, owner |-> owner]
Released(d, owner) == TellAll(d, {}, LockMessage("lock_released", owner))

(* (mutant) Expires the leases without telling the members.              *)
Expired_Silently(d) == d

\* Every command expires the leases that lapsed before it looks at the lock.
Expired(d) == IF lock.lapsed THEN Released(d, lock.owner) ELSE d
Held == IF lock.lapsed THEN NoLock ELSE lock

Processes(e, m) ==
  /\ sock[e] = "open" /\ up[e] # << >> /\ Head(up[e]).type = m
  /\ \A x \in Editors : Len(down[x]) < MaxWire
  /\ up' = [up EXCEPT ![e] = Tail(@)]
  /\ UNCHANGED <<sock, ed, boundVars>>

HandleLockRequest(e) ==
  /\ Processes(e, "lock_request")
  /\ IF Held.owner \notin {NoEditor, e}
     THEN /\ lock' = Held
          /\ down' = Tell(Expired(down), e, LockMessage("lock_denied", Held.owner))
     ELSE /\ lock' = [owner |-> e, lapsed |-> FALSE]
          /\ down' = TellAll(Tell(Expired(down), e, LockMessage("lock_granted", e)), {e},
                             LockMessage("lock_state_changed", e))
  /\ UNCHANGED <<auth, accepted>>

\* Releasing a free lock is answered with no former owner; the refusal to release
\* another's is of no consequence to the editor.
HandleLockRelease(e) ==
  /\ Processes(e, "lock_release")
  /\ lock' = IF Held.owner = e THEN NoLock ELSE Held
  /\ down' = IF Held.owner = e THEN Released(Expired(down), e)
             ELSE IF Held.owner = NoEditor
             THEN Tell(Expired(down), e, LockMessage("lock_released", NoEditor))
             ELSE Expired(down)
  /\ UNCHANGED <<auth, accepted>>

(* (mutant) Takes an update of anybody while somebody holds the lock.        *)
HandleTransformUpdate_AnyHolder(e) ==
  /\ Processes(e, "transform_update")
  /\ lock' = Held
  /\ LET p == Head(up[e]).pose IN
     IF Held.owner = NoEditor
     THEN /\ down' = Tell(Expired(down), e, [type |-> "lock_required", pose |-> p])
          /\ UNCHANGED <<auth, accepted>>
     ELSE /\ auth' = [pose |-> p, revision |-> auth.revision + 1]
          /\ accepted' = accepted \cup {p}
          /\ down' = TellAll(Expired(down), {},
                             [type |-> "transform_applied", pose |-> p, revision |-> auth'.revision])

HandleTransformUpdate(e) ==
  /\ Processes(e, "transform_update")
  /\ lock' = Held
  /\ LET p == Head(up[e]).pose IN
     IF Held.owner # e
     THEN /\ down' = Tell(Expired(down), e, [type |-> "lock_required", pose |-> p])
          /\ UNCHANGED <<auth, accepted>>
     ELSE /\ auth' = [pose |-> p, revision |-> auth.revision + 1]
          /\ accepted' = accepted \cup {p}
          /\ down' = TellAll(Expired(down), {},
                             [type |-> "transform_applied", pose |-> p, revision |-> auth'.revision])

Lapse ==
  /\ lock.owner # NoEditor /\ ~lock.lapsed /\ Fault
  /\ lock' = [lock EXCEPT !.lapsed = TRUE]
  /\ UNCHANGED <<auth, accepted, wireVars, ed, edits, gestures>>

\* The sweep of the leases.
Sweep ==
  /\ lock.lapsed
  /\ lock' = NoLock /\ down' = Expired(down)
  /\ UNCHANGED <<auth, accepted, sock, up, ed, boundVars>>

\* A socket that is too slow or silent is cut, perhaps in the middle of a broadcast:
\* nothing more is read from it or written to it.
Terminate(e) ==
  /\ sock[e] = "open" /\ ed[e].stage # "off" /\ Fault
  /\ sock' = [sock EXCEPT ![e] = "cut"]
  /\ up' = [up EXCEPT ![e] = << >>]
  /\ UNCHANGED <<sessionVars, down, ed, edits, gestures>>

\* The close event removes the member with its locks.
ReleasesOf(d, e) == IF lock.owner = e THEN Released(d, e) ELSE d

ServerClose(e) ==
  /\ sock[e] = "cut" \/ (sock[e] = "open" /\ ed[e].stage = "off")
  /\ sock' = [sock EXCEPT ![e] = "closed"]
  /\ up' = [up EXCEPT ![e] = << >>]
  /\ lock' = IF lock.owner = e THEN NoLock ELSE lock
  /\ down' = ReleasesOf(down, e)
  /\ UNCHANGED <<auth, accepted, ed, boundVars>>

\* The editor connects again, and takes the place of a connection the server has
\* not missed yet.
Rejoin(e) ==
  /\ ed[e].stage = "off"
  /\ LET owner == IF lock.owner = e \/ lock.lapsed THEN NoEditor ELSE lock.owner
         told == IF lock.owner = e THEN ReleasesOf(down, e) ELSE Expired(down)
     IN  /\ lock' = IF owner = NoEditor THEN NoLock ELSE lock
         /\ down' = [told EXCEPT ![e] =
                       <<[type |-> "hierarchy_snapshot", pose |-> auth.pose],
                         [type |-> "transform_snapshot", pose |-> auth.pose,
                          revision |-> auth.revision, owner |-> owner]>>]
  /\ sock' = [sock EXCEPT ![e] = "open"]
  /\ up' = [up EXCEPT ![e] = << >>]
  /\ ed' = [ed EXCEPT ![e].stage = "hello", ![e].touched = ed[e].dirty]
  /\ UNCHANGED <<auth, accepted, boundVars>>

Next ==
  \/ Lapse \/ Sweep
  \/ \E e \in Editors :
       \/ Select(e) \/ Deselect(e) \/ Save(e) \/ Edit(e)
       \/ RequestLock(e) \/ ReleaseLock(e) \/ Frame(e) \/ RenewingFrame(e) \/ Receive(e)
       \/ Lose(e) \/ Leave(e) \/ Rejoin(e)
       \/ HandleLockRequest(e) \/ HandleLockRelease(e) \/ HandleTransformUpdate(e)
       \/ Terminate(e) \/ ServerClose(e)

Spec == Init /\ [][Next]_vars

-----------------------------------------------------------------------------
(* Properties.                                                              *)

\* What an editor's mirror of the lock says when it said o and message m is read;
\* and after each message of its wire s.
Mirrored(o, m) ==
  CASE m.type \in {"transform_snapshot", "lock_granted", "lock_state_changed", "lock_denied"}
         -> m.owner
    [] m.type = "lock_released" -> IF m.owner = o THEN NoEditor ELSE o
    [] OTHER -> o

Reads(o, s) ==
  LET f[i \in 0 .. Len(s)] == IF i = 0 THEN o ELSE Mirrored(f[i - 1], s[i]) IN f

\* Whatever leases lapsed, were released, refused or lost with a connection, an
\* editor that has read everything the server sent it knows who holds the lock
\* (TeamForgeLockRegistry, #expireSessionLocks before every command).
MirrorFollows ==
  \A e \in Editors :
    Listening(e) /\ ed[e].stage # "refused" =>
      Reads(ed[e].known, down[e])[Len(down[e])] = lock.owner

\* While an editor may send under its lease, no value of another editor is on its
\* way: nothing can overwrite what the holder is doing.
HolderIsAlone ==
  \A e \in Editors :
    ed[e].granted /\ ~MayBeLate(e) =>
      \A i \in DOMAIN down[e] :
        down[e][i].type = "transform_applied" => down[e][i].pose[1] = e

Quiet(e) == Listening(e) /\ ed[e].stage = "ready" /\ up[e] = << >> /\ down[e] = << >>

\* With nothing under way, an editor that reports no conflict shows the session's
\* value or an edit of its own the session never took; it never goes on showing a
\* value that another has replaced, unless the last one it was told of was left out
\* by a conflict or overtaken by its own update.
NothingOutdatedShows ==
  \A e \in Editors :
    Quiet(e) /\ ~ed[e].protected /\ ~ed[e].unseen =>
      \/ ed[e].pose = auth.pose
      \/ ed[e].pose[1] = e /\ ed[e].pose \notin accepted
=============================================================================
