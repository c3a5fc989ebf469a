-------------------------- MODULE SessionAuthority --------------------------
(***************************************************************************)
(* One collaboration session of the realtime server:                       *)
(* server/src/session-authority.mjs.  The authority is a single JavaScript *)
(* object whose dispatch runs each command to its end, so that a command   *)
(* is one action; what is concurrent is the order in which commands of     *)
(* different connections, socket closes, the lock sweep and time arrive.   *)
(*                                                                         *)
(* A request that is refused changes nothing but the locks that had        *)
(* already expired: it is a step of ExpireLocks, or a stutter.  One that   *)
(* is refused after it was applied is an action, TransformTooLarge.        *)
(*                                                                         *)
(* A connection id is a fresh UUID in the code.  Here the id of a closed   *)
(* connection may be used again, which is sound as long as nothing names a *)
(* closed connection (LockOwnersAreMembers).  Time is the remaining lease  *)
(* of each lock, ttl; a lock with ttl = 0 is one with expiresAtUnixMs <=   *)
(* now.                                                                    *)
(***************************************************************************)
EXTENDS HierarchyModel, Sequences

CONSTANTS
  Users, Conns, NoConn, NoObject,
  UserOf,                 \* [Conns -> Users], settled by the Hello
  TransformConns,         \* connections that negotiated supportsTransformSync
  HierarchyConns,         \* ... and supportsHierarchySync
  OpIds,                  \* operation ids
  Seeds,                  \* [scene, nodes] records a client may send as a seed
  Selectable,             \* objects a presence update may select
  Lease,                  \* config.lockLeaseMilliseconds, in ticks
  MaxLocksPerSession, MaxLocksPerConnection,
  MaxRetainedTransforms,
  MaxSnapshotRecords,     \* config.maxSnapshotBytes, in records
  MaxRecentOperations,
  MaxRevision             \* bound of the model, not of the code

ASSUME AuthorityAssumption ==
  /\ IsFiniteSet(Conns)
  /\ NoConn \notin Conns
  /\ NoObject \notin Objects
  /\ UserOf \in [Conns -> Users]
  /\ HierarchyConns \subseteq TransformConns
  /\ TransformConns \subseteq Conns
  /\ Selectable \subseteq Objects
  /\ \A s \in Seeds :
       /\ s.scene \in Scenes
       /\ IsMap(s.nodes, Objects, [parent: Parents, index: Nat, pose: {0}])
  /\ Lease \in Nat \ {0}
  /\ MaxLocksPerSession \in Nat
  /\ MaxLocksPerConnection \in Nat
  /\ MaxRetainedTransforms \in Nat
  /\ MaxSnapshotRecords \in Nat
  /\ MaxRecentOperations \in Nat \ {0}
  /\ MaxRevision \in Nat

VARIABLES
  open,        \* connections whose socket is open and whose Hello registered
  members,     \* session.members, the connection of each present user
  selected,    \* the object each member's presence selects
  locks,       \* session.locks
  transforms,  \* session.transforms
  objects,     \* session.hierarchyObjects
  tombstones,  \* session.hierarchyTombstones
  scenes,      \* session.hierarchySceneIds
  operations,  \* session.operations, oldest first
  revision     \* session.revision

hierarchy == <<objects, tombstones, scenes>>
log == <<operations, revision>>
vars == <<open, members, selected, locks, transforms, hierarchy, log>>

LockState == [owner: Conns, ttl: 0..Lease]
Applied == [id: OpIds, user: Users, revision: Nat]

\* Requests: the fields an operation kind does not read have one value.
HierarchyRequests ==
  {m \in [kind: Kinds, object: Objects, parent: Parents,
          index: 0..Cardinality(Objects), base: 0..MaxRevision] :
     /\ m.kind \in {"delete_object", "rename_object", "reorder_sibling"} => m.parent = Root
     /\ m.kind \in {"delete_object", "rename_object"} => m.index = 0
     /\ OperationWellFormed(m)}

NoMembers == [u \in Users |-> NoConn]

Init ==
  /\ open = {}
  /\ members = NoMembers
  /\ selected = [u \in Users |-> NoObject]
  /\ locks = EmptyMap
  /\ transforms = EmptyMap
  /\ objects = EmptyMap
  /\ tombstones = EmptyMap
  /\ scenes = {}
  /\ operations = <<>>
  /\ revision = 0

\* activeSession: c is the current connection of its user.
Active(c) == members[UserOf[c]] = c

OwnedBy(c) == {k \in DOMAIN locks : locks[k].owner = c}
Expired == {k \in DOMAIN locks : locks[k].ttl = 0}
LiveLocks == Drop(locks, Expired)
LiveForeign(c) == {k \in DOMAIN LiveLocks : locks[k].owner # c}

\* (mutant) Only a sweep ends a lease.
HoldsLease_UntilSwept(c, k) == k \in DOMAIN locks /\ locks[k].owner = c

\* Expired locks are removed before the owner is looked up.
HoldsLease(c, k) == k \in DOMAIN LiveLocks /\ locks[k].owner = c

\* hierarchyTargetCompatibilityError returns null.
Compatible(c, k) ==
  SceneOf[k] \in scenes =>
    c \in HierarchyConns /\ k \in DOMAIN objects \ DOMAIN tombstones

\* (mutant) No duplicate is recognised.
Retained_Never(id) == FALSE

\* The operation was applied before, as far as the session remembers: it is
\* answered from the cache, or refused if its content differs.
Retained(id) == \E i \in 1..Len(operations) : operations[i].id = id

\* registerRecentOperation.
Remember(c, id) ==
  LET entry == [id |-> id, user |-> UserOf[c], revision |-> revision + 1]
      longer == Append(operations, entry)
  IN  operations' = IF Len(longer) > MaxRecentOperations THEN Tail(longer) ELSE longer

-----------------------------------------------------------------------------
(* Joining and leaving. *)

\* A newer connection of a user replaces the older one and takes its locks away.
RegisterPresence(c) ==
  LET kept == Drop(locks, OwnedBy(members[UserOf[c]]))
  IN  /\ c \notin open
      /\ open' = open \cup {c}
      /\ members' = [members EXCEPT ![UserOf[c]] = c]
      /\ selected' = [selected EXCEPT ![UserOf[c]] = NoObject]
      /\ locks' = IF c \in TransformConns THEN Drop(kept, Expired) ELSE kept
      /\ UNCHANGED <<transforms, hierarchy, log>>

\* (mutant) A late close removes the user, whoever is present for it now.
CloseSuperseded_Unseats(c) ==
  /\ c \in open
  /\ ~Active(c)
  /\ open' = open \ {c}
  /\ members' = [members EXCEPT ![UserOf[c]] = NoConn]
  /\ UNCHANGED <<selected, locks, transforms, hierarchy, log>>

\* The socket of a connection that was superseded closes: nothing to remove.
CloseSuperseded(c) ==
  /\ c \in open
  /\ ~Active(c)
  /\ open' = open \ {c}
  /\ UNCHANGED <<members, selected, locks, transforms, hierarchy, log>>

RemovePresence(c) ==
  /\ c \in open
  /\ Active(c)
  /\ open' = open \ {c}
  /\ members' = [members EXCEPT ![UserOf[c]] = NoConn]
  /\ members' # NoMembers
  /\ selected' = [selected EXCEPT ![UserOf[c]] = NoObject]
  /\ locks' = Drop(locks, OwnedBy(c))
  /\ UNCHANGED <<transforms, hierarchy, log>>

\* The session object is dropped; the next Hello creates a fresh one.
ForgetSession ==
  /\ members' = NoMembers
  /\ selected' = [u \in Users |-> NoObject]
  /\ locks' = EmptyMap
  /\ transforms' = EmptyMap
  /\ objects' = EmptyMap
  /\ tombstones' = EmptyMap
  /\ scenes' = {}
  /\ operations' = <<>>
  /\ revision' = 0

\* The last member leaves: deleteSessionIfUnused.
RemoveLastPresence(c) ==
  /\ c \in open
  /\ Active(c)
  /\ open' = open \ {c}
  /\ [members EXCEPT ![UserOf[c]] = NoConn] = NoMembers
  /\ ForgetSession

UpdatePresence(c, selection) ==
  /\ c \in open
  /\ Active(c)
  /\ selected' = [selected EXCEPT ![UserOf[c]] = selection]
  /\ UNCHANGED <<open, members, locks, transforms, hierarchy, log>>

-----------------------------------------------------------------------------
(* Locks. *)

\* session_lock_limit and connection_lock_limit; expired locks are gone by now.
RoomForLock(c) ==
  /\ Cardinality(DOMAIN LiveLocks) < MaxLocksPerSession
  /\ Cardinality(OwnedBy(c) \ Expired) < MaxLocksPerConnection

LockRequest(c, k) ==
  /\ c \in open \cap TransformConns
  /\ Active(c)
  /\ Compatible(c, k)
  /\ k \notin LiveForeign(c)
  /\ k \in DOMAIN LiveLocks \/ RoomForLock(c)
  /\ locks' = Put(LiveLocks, k, [owner |-> c, ttl |-> Lease])
  /\ UNCHANGED <<open, members, selected, transforms, hierarchy, log>>

\* (mutant) Anybody may release.
LockRelease_AnyOwner(c, k) ==
  /\ c \in open \cap TransformConns
  /\ Active(c)
  /\ k \in DOMAIN LiveLocks
  /\ locks' = Drop(LiveLocks, {k})
  /\ UNCHANGED <<open, members, selected, transforms, hierarchy, log>>

LockRelease(c, k) ==
  /\ c \in open \cap TransformConns
  /\ Active(c)
  /\ HoldsLease(c, k)
  /\ locks' = Drop(LiveLocks, {k})
  /\ UNCHANGED <<open, members, selected, transforms, hierarchy, log>>

\* (mutant) The sweep frees only what absent owners left behind.
ExpireLocks_OrphansOnly ==
  LET orphans == {k \in Expired : ~Active(locks[k].owner)}
  IN  /\ orphans # {}
      /\ locks' = Drop(locks, orphans)
      /\ UNCHANGED <<open, members, selected, transforms, hierarchy, log>>

\* The lock sweep of the server, and what every refused request does.
ExpireLocks ==
  /\ Expired # {}
  /\ locks' = LiveLocks
  /\ UNCHANGED <<open, members, selected, transforms, hierarchy, log>>

Tick ==
  /\ LiveLocks # EmptyMap
  /\ locks' = [k \in DOMAIN locks |->
                 IF locks[k].ttl > 0 THEN [locks[k] EXCEPT !.ttl = @ - 1] ELSE locks[k]]
  /\ UNCHANGED <<open, members, selected, transforms, hierarchy, log>>

-----------------------------------------------------------------------------
(* Edits. *)

\* The checks of transform_update that come before it changes anything.
MayTransform(c, k, id, base) ==
  /\ c \in open \cap TransformConns
  /\ Active(c)
  /\ Compatible(c, k)
  /\ ~Retained(id)
  /\ HoldsLease(c, k)
  /\ base <= revision
  /\ k \in DOMAIN transforms \/ Cardinality(DOMAIN transforms) < MaxRetainedTransforms

\* The retained Transforms and records once the update is applied to them.
MovedTransforms(k) == Put(transforms, k, [pose |-> revision + 1, revision |-> revision + 1])
MovedObjects(k) ==
  IF k \in DOMAIN objects THEN [objects EXCEPT ![k].pose = revision + 1] ELSE objects

\* snapshotByteLength of the session with the update applied, in records.
SnapshotFits(k) ==
  Cardinality(DOMAIN MovedTransforms(k)) + Cardinality(DOMAIN LiveLocks) <= MaxSnapshotRecords

TransformUpdate(c, k, id, base) ==
  /\ revision < MaxRevision
  /\ MayTransform(c, k, id, base)
  /\ SnapshotFits(k)
  /\ transforms' = MovedTransforms(k)
  /\ objects' = MovedObjects(k)
  /\ locks' = LiveLocks
  /\ revision' = revision + 1
  /\ Remember(c, id)
  /\ UNCHANGED <<open, members, selected, tombstones, scenes>>

\* What the roll-back of an update makes of the applied Transforms and records.
RestoredTransforms(k) ==
  IF k \in DOMAIN transforms
  THEN Put(MovedTransforms(k), k, transforms[k])
  ELSE Drop(MovedTransforms(k), {k})

\* (mutant) The roll-back forgets the record's copy of the pose.
RestoredObjects_Forgotten(k) == MovedObjects(k)

RestoredObjects(k) ==
  IF k \in DOMAIN objects
  THEN [MovedObjects(k) EXCEPT ![k].pose = objects[k].pose]
  ELSE MovedObjects(k)

\* The update is applied, the snapshot is found too large, and it is undone.
TransformTooLarge(c, k, id, base) ==
  /\ MayTransform(c, k, id, base)
  /\ ~SnapshotFits(k)
  /\ transforms' = RestoredTransforms(k)
  /\ objects' = RestoredObjects(k)
  /\ locks' = LiveLocks
  /\ UNCHANGED <<open, members, selected, tombstones, scenes, log>>

\* A client sends its saved Scene as the baseline.  A Scene that has one
\* already is not touched (the idempotent answer).
HierarchySeed(c, s, base) ==
  /\ c \in open \cap HierarchyConns
  /\ Active(c)
  /\ SeedInstalls(objects, tombstones, scenes, revision, s.scene, s.nodes, base)
  /\ objects' = Merge(objects, SeedObjects(s.scene, s.nodes, base))
  /\ scenes' = scenes \cup {s.scene}
  /\ UNCHANGED <<open, members, selected, locks, transforms, tombstones, log>>

\* Create and reparent bring a pose: a retained Transform of the object follows.
RetainedTransforms(m) ==
  IF m.kind \in {"create_object", "reparent_object"} /\ m.object \in DOMAIN transforms
  THEN Put(transforms, m.object, [pose |-> revision + 1, revision |-> revision + 1])
  ELSE Drop(transforms, DeletedObjects(objects, m))

HierarchyOperation(c, m, id) ==
  LET deleted == DeletedObjects(objects, m)
  IN  /\ revision < MaxRevision
      /\ c \in open \cap HierarchyConns
      /\ Active(c)
      /\ ~Retained(id)
      /\ OperationAccepted(objects, tombstones, scenes, revision, m, m.object \in LiveForeign(c))
      /\ GuardedParents(objects, m) \cap LiveForeign(c) = {}
      /\ deleted \cap LiveForeign(c) = {}
      /\ objects' = NextObjects(objects, m, revision + 1)
      /\ LET next == NextTombstones(objects, tombstones, m, revision + 1)
         IN  \E evicted \in Evictions(next) : tombstones' = Drop(next, evicted)
      /\ Cardinality(DOMAIN objects') + Cardinality(DOMAIN tombstones') <= MaxHierarchyRecords
      /\ locks' = Drop(LiveLocks, deleted)
      /\ transforms' = RetainedTransforms(m)
      /\ selected' = [u \in Users |-> IF selected[u] \in deleted THEN NoObject ELSE selected[u]]
      /\ revision' = revision + 1
      /\ Remember(c, id)
      /\ UNCHANGED <<open, members, scenes>>

-----------------------------------------------------------------------------
Next ==
  \/ \E c \in Conns :
       \/ RegisterPresence(c)
       \/ CloseSuperseded(c)
       \/ RemovePresence(c)
       \/ RemoveLastPresence(c)
       \/ \E o \in Selectable \cup {NoObject} : UpdatePresence(c, o)
       \/ \E k \in Objects : LockRequest(c, k)
       \/ \E k \in Objects : LockRelease(c, k)
       \/ \E k \in Objects, id \in OpIds, base \in 0..MaxRevision :
            TransformUpdate(c, k, id, base) \/ TransformTooLarge(c, k, id, base)
       \/ \E s \in Seeds, base \in 0..MaxRevision : HierarchySeed(c, s, base)
       \/ \E m \in HierarchyRequests, id \in OpIds : HierarchyOperation(c, m, id)
  \/ ExpireLocks
  \/ Tick

\* Time passes and the sweep timer of the server fires; no client is obliged
\* to do anything.
Fairness == WF_vars(Tick) /\ WF_vars(ExpireLocks)

Spec == Init /\ [][Next]_vars /\ Fairness

-----------------------------------------------------------------------------
(* Invariants. *)

\* Every variable has its type; retained maps have records of their kind.
TypeOK ==
  /\ open \in SUBSET Conns
  /\ members \in [Users -> Conns \cup {NoConn}]
  /\ selected \in [Users -> Objects \cup {NoObject}]
  /\ IsMap(locks, Objects, LockState)
  /\ IsMap(transforms, Objects, [pose: Nat, revision: Nat])
  /\ IsMap(objects, Objects, HierarchyRecord)
  /\ IsMap(tombstones, Objects, Nat)
  /\ scenes \in SUBSET Scenes
  /\ operations \in Seq(Applied)
  /\ revision \in Nat

\* Whoever owns a lock is the present connection of its user: a member that
\* left, or was superseded, leaves no lock behind (#releaseLocksForConnection),
\* and a late close of the superseded socket does not unseat its successor.
LockOwnersAreMembers ==
  /\ \A k \in DOMAIN locks : Active(locks[k].owner)
  /\ \A u \in Users : members[u] # NoConn => members[u] \in open /\ UserOf[members[u]] = u

\* The retained Hierarchy of every Scene is a forest in canonical sibling
\* order, and only seeded Scenes have objects or tombstones.
HierarchyIsForest ==
  /\ GraphValid(objects)
  /\ CanonicalOrder(objects)
  /\ \A k \in DOMAIN objects \cup DOMAIN tombstones : SceneOf[k] \in scenes

\* A tombstoned object is gone everywhere: no record, no lock, no retained
\* Transform that a late joiner's snapshots would bring back.
TombstonesStayDead ==
  DOMAIN tombstones \cap (DOMAIN objects \cup DOMAIN locks \cup DOMAIN transforms) = {}

\* The Transform snapshot and the Hierarchy snapshot a late joiner receives
\* never show two edited poses of one object; pose 0 is the seeding client's.
PosesAgree ==
  \A k \in DOMAIN objects \cap DOMAIN transforms :
    objects[k].pose \in {transforms[k].pose, 0}

\* The recent operations are the last ones that were applied, in revision
\* order and without a gap, each id once, and nothing retained carries a
\* revision the session has not reached.
RevisionLog ==
  /\ revision > 0 => operations # <<>>
  /\ operations # <<>> => operations[Len(operations)].revision = revision
  /\ \A i \in 1..Len(operations) :
       /\ operations[i].revision = revision - (Len(operations) - i)
       /\ \A j \in 1..Len(operations) : operations[i].id = operations[j].id => i = j
  /\ \A k \in DOMAIN objects : objects[k].revision <= revision /\ objects[k].pose <= revision
  /\ \A k \in DOMAIN tombstones : tombstones[k] <= revision
  /\ \A k \in DOMAIN transforms : transforms[k].revision <= revision

-----------------------------------------------------------------------------
(* What a step may never do. *)

SessionEnds == members # NoMembers /\ members' = NoMembers

LastUser == operations[Len(operations)].user

\* While a lease runs, only its owner can end or change it: no lock request or
\* release of another connection does, and the lock goes only when its owner
\* releases it, leaves or is superseded, or deletes the object itself.
LeasesSurvive ==
  \A k \in DOMAIN LiveLocks :
    LET owner == locks[k].owner
    IN  /\ \A c \in Conns \ {owner} :
             (\E o \in Objects : LockRequest(c, o) \/ LockRelease(c, o))
               => k \in DOMAIN locks' /\ locks'[k] = locks[k]
        /\ k \in DOMAIN locks' => locks'[k].owner = owner
        /\ k \notin DOMAIN locks' =>
             \/ members'[UserOf[owner]] # owner
             \/ revision' > revision /\ LastUser' = UserOf[owner]
             \/ LockRelease(owner, k)

ForeignLeasesSurvive == [][LeasesSurvive]_vars

\* A step gives k a new pose, in its retained Transform or in its record.
NewPose(k) ==
  \/ k \in DOMAIN transforms' /\ (k \in DOMAIN transforms => transforms'[k] # transforms[k])
  \/ k \in DOMAIN objects \cap DOMAIN objects' /\ objects'[k].pose # objects[k].pose

\* Nobody moves an object but the user whose lease on it still runs, and the
\* move leaves that lease as it was; a former owner, whether its lease expired
\* or its connection was superseded, does not.  The other source of a pose is
\* the create or reparent that stamps the object's record in the same step.
MovesAreLeased ==
  \A k \in Objects :
    NewPose(k) =>
      \/ /\ k \in DOMAIN LiveLocks
         /\ LastUser' = UserOf[locks[k].owner]
         /\ k \in DOMAIN locks' /\ locks'[k] = locks[k]
      \/ k \in DOMAIN objects' /\ objects'[k].revision = revision'

EditsNeedLeases == [][MovesAreLeased]_vars

\* What an edit of object k would touch: its record and the order of its
\* children.  An index of k among its own siblings belongs to its parent.
Content(k) ==
  <<objects[k].parent, objects[k].name, objects[k].pose,
    [c \in ChildrenOf(objects, SceneOf[k], k) |-> objects[c].index]>>

\* A locked object is edited, given children, robbed of them, or deleted by
\* nobody but the user whose lease it is.
LockedContentKept ==
  \A k \in DOMAIN LiveLocks :
    k \in DOMAIN objects /\ (k \notin DOMAIN objects' \/ Content(k)' # Content(k))
      => SessionEnds \/ LastUser' = UserOf[locks[k].owner]

LockedContentIsStable == [][LockedContentKept]_vars

\* Every change of what late joiners are sent takes the next revision, except
\* that a baseline seed adds a whole Scene, and the end of the session drops
\* everything.  Nothing of another Scene, and no earlier revision, is touched.
ChangesInOrder ==
  \/ UNCHANGED <<objects, tombstones, transforms, scenes, log>>
  \/ revision' = revision + 1 /\ scenes' = scenes
  \/ /\ scenes \subseteq scenes'
     /\ UNCHANGED <<tombstones, transforms, log>>
     /\ \A k \in DOMAIN objects : k \in DOMAIN objects' /\ objects'[k] = objects[k]
     /\ \A k \in DOMAIN objects' \ DOMAIN objects : SceneOf[k] \in scenes' \ scenes
  \/ SessionEnds /\ revision' = 0 /\ objects' = EmptyMap /\ transforms' = EmptyMap

RevisionOrdersChanges == [][ChangesInOrder]_vars

-----------------------------------------------------------------------------
(* What must happen. *)

\* A lock is freed unless its owner, or the next one, asks for it again and
\* again: an editor that crashed or froze blocks nobody for ever.
IdleLocksAreFreed ==
  \A k \in Objects :
    []<>(k \notin DOMAIN locks) \/ []<><<\E c \in Conns : LockRequest(c, k)>>_vars

=============================================================================
