------------------------ MODULE TransformSyncProofs ------------------------
(***************************************************************************)
(* The three safety properties of TransformSync, for any editors, any      *)
(* number of edits, gestures, faults and messages on a wire, and any limit *)
(* of pending operations.  The inductive invariant says of each editor     *)
(* what its record is on its own (Sound), how the updates it waits for lie *)
(* on the two wires (Sent, Wire), what the wire will make of its mirror    *)
(* and of its last value (Live), and what the holder of the lease may      *)
(* still hear (Hold).                                                      *)
(***************************************************************************)
EXTENDS TransformSync, TLAPS, NaturalsInduction, WellFoundedInduction

Users == Editors \cup {NoEditor}
Poses(n) == Users \X (0 .. n)

UpMessages(n) ==
  [type : {"lock_request", "lock_release"}] \cup [type : {"transform_update"}, pose : Poses(n)]

LockTypes == {"lock_granted", "lock_state_changed", "lock_denied", "lock_released"}

DownMessages(n) ==
  [type : {"hierarchy_snapshot", "lock_required"}, pose : Poses(n)]
    \cup [type : {"transform_snapshot"}, pose : Poses(n), revision : Nat, owner : Users]
    \cup [type : {"transform_applied"}, pose : Poses(n), revision : Nat]
    \cup [type : LockTypes, owner : Users]

\* An editor, when n edits were made.
Recs(n) ==
  [stage : {"off", "hello", "hierarchy", "ready", "refused"}, pose : Poses(n),
   dirty : BOOLEAN, touched : BOOLEAN, selected : BOOLEAN, tracked : BOOLEAN,
   observed : Poses(n) \cup {NoPose}, confirmed : Poses(n) \cup {NoPose},
   granted : BOOLEAN, pending : BOOLEAN, blocked : BOOLEAN,
   protected : BOOLEAN, recoverable : BOOLEAN, deferred : Poses(n) \cup {NoPose},
   seen : Nat, known : Users, ops : SUBSET Poses(n), last : Poses(n), unseen : BOOLEAN,
   out : Seq(UpMessages(n))]

\* A pose is a pair, never the mark of none.
LEMMA PosesArePoses ==
  ASSUME NEW n \in Nat, NEW p \in Poses(n)
  PROVE  p # NoPose /\ p[1] \in Users /\ p[2] \in 0 .. n /\ p = <<p[1], p[2]>>
<1>1. p[1] \in Users /\ p[2] \in 0 .. n /\ p = <<p[1], p[2]>>
  BY DEF Poses
<1>2. p # NoPose
  <2>1. Len(<<p[1], p[2]>>) = 2 /\ Len(<< >>) = 0
    OBVIOUS
  <2> QED
    BY <1>1, <2>1 DEF NoPose
<1> QED
  BY <1>1, <1>2

\* An edit adds poses, messages and records; it takes none away.
LEMMA PosesGrow ==
  ASSUME NEW n \in Nat
  PROVE  /\ Poses(n) \subseteq Poses(n + 1)
         /\ UpMessages(n) \subseteq UpMessages(n + 1)
         /\ DownMessages(n) \subseteq DownMessages(n + 1)
         /\ Recs(n) \subseteq Recs(n + 1)
<1>1. Poses(n) \subseteq Poses(n + 1)
  BY DEF Poses
<1>2. UpMessages(n) \subseteq UpMessages(n + 1)
  BY <1>1 DEF UpMessages
<1>3. DownMessages(n) \subseteq DownMessages(n + 1)
  BY <1>1 DEF DownMessages
<1>4. Seq(UpMessages(n)) \subseteq Seq(UpMessages(n + 1))
  BY <1>2
<1>5. Recs(n) \subseteq Recs(n + 1)
  BY <1>1, <1>4 DEF Recs
<1> QED
  BY <1>1, <1>2, <1>3, <1>5
-----------------------------------------------------------------------------
(* What holds of an editor's record, whatever is on its wires.              *)

\* The last edit, later than everything sent or taken.
Fresh(x, e, c, A) == x[1] = e /\ \A y \in A \cup c.ops : y[1] = e => y[2] < x[2]

\* A pose of its own that no update it waits for is newer than.
Newest(x, e, c) == x[1] = e => \A q \in c.ops : q[2] <= x[2]

\* The value it was told of last, or an edit of its own that was not taken or
\* whose answer is on its way.
Good(x, e, c, A) == x = c.last \/ x \in c.ops \/ (x[1] = e /\ x \notin A)

Shape(c) ==
  /\ c.tracked => /\ c.stage \in {"hierarchy", "ready"}
                  /\ c.confirmed # NoPose /\ c.observed # NoPose
                  /\ c.protected => c.blocked
  /\ c.stage # "ready" => /\ c.ops = {} /\ c.known = NoEditor /\ c.seen = 0
                          /\ ~c.protected /\ ~c.unseen /\ ~c.blocked
  /\ c.deferred # NoPose => c.protected /\ c.recoverable

Asked(c, e, A) ==
  /\ \A q \in c.ops : q[1] = e
  /\ c.last \in A /\ c.last \notin c.ops
  /\ \A x \in A : x[1] = e => x \in c.ops \/ \A q \in c.ops : x[2] < q[2]

Shown(c, e, A) ==
  /\ c.tracked /\ ~c.blocked /\ c.pose # c.observed => Fresh(c.pose, e, c, A)
  /\ ~c.protected => Newest(c.pose, e, c)
  /\ c.stage \in {"hierarchy", "ready"} /\ ~c.unseen =>
       /\ ~c.protected => Good(c.pose, e, c, A)
       /\ c.tracked /\ c.deferred = NoPose => Good(c.confirmed, e, c, A)
       /\ c.deferred # NoPose => c.deferred = c.last

\* What it would go back to when another is known to hold the lock.
Spare(c, e, A) ==
  c.tracked /\ ~c.protected /\ c.known # e =>
    /\ Newest(c.confirmed, e, c) /\ Newest(c.observed, e, c)
    /\ ~c.unseen => Good(c.observed, e, c, A)

Core(c, e, A) == Shape(c) /\ Asked(c, e, A) /\ Shown(c, e, A)
Sound(c, e, A) == Core(c, e, A) /\ Spare(c, e, A) /\ (c.granted => c.tracked /\ c.known = e)

\* d stands where c stood in the session.
Stays(c, d) ==
  d.stage = c.stage /\ d.known = c.known /\ d.seen = c.seen /\ d.last = c.last

Updates(s) == {i \in DOMAIN s : s[i].type = "transform_update"}
Mute(s) == Updates(s) = {}
Spoke(s, x) == \E i \in DOMAIN s : Updates(s) = {i} /\ s[i].pose = x

-----------------------------------------------------------------------------
(* The operators of the editor, one by one.                                  *)

\* Sending adds to the record's own queue only, and one update speaks for its pose.
LEMMA SendEffect ==
  ASSUME NEW n \in Nat, NEW c \in Recs(n), NEW m \in UpMessages(n)
  PROVE  /\ Send(c, m) \in Recs(n)
         /\ Send(c, m) = [c EXCEPT !.out = Send(c, m).out]
         /\ m.type # "transform_update" =>
              /\ Mute(c.out) => Mute(Send(c, m).out)
              /\ \A x : Spoke(c.out, x) => Spoke(Send(c, m).out, x)
         /\ m.type = "transform_update" /\ Mute(c.out) => Spoke(Send(c, m).out, m.pose)
<1> DEFINE s == c.out
           t == Append(s, m)
<1>1. s \in Seq(UpMessages(n)) /\ t \in Seq(UpMessages(n))
  BY DEF Recs
<1>2. Send(c, m) = [c EXCEPT !.out = t] /\ Send(c, m).out = t
  BY DEF Send, Recs
<1>3. Send(c, m) \in Recs(n)
  BY <1>1, <1>2 DEF Recs
<1>4. /\ DOMAIN t = DOMAIN s \cup {Len(s) + 1} /\ Len(s) + 1 \notin DOMAIN s
      /\ t[Len(s) + 1] = m /\ \A i \in DOMAIN s : t[i] = s[i]
  BY <1>1
<1> HIDE DEF t
<1>5. m.type # "transform_update" => Updates(t) = Updates(s)
  BY <1>4 DEF Updates
<1>6. m.type = "transform_update" => Updates(t) = Updates(s) \cup {Len(s) + 1}
  BY <1>4 DEF Updates
<1>7. m.type # "transform_update" => \A x : Spoke(s, x) => Spoke(t, x)
  BY <1>4, <1>5 DEF Spoke
<1>8. m.type = "transform_update" /\ Mute(s) => Spoke(t, m.pose)
  <2> SUFFICES ASSUME m.type = "transform_update", Mute(s) PROVE Spoke(t, m.pose)
    OBVIOUS
  <2>1. Updates(t) = {Len(s) + 1} /\ t[Len(s) + 1].pose = m.pose /\ Len(s) + 1 \in DOMAIN t
    BY <1>4, <1>6 DEF Mute
  <2> QED
    BY <2>1 DEF Spoke
<1> QED
  BY <1>2, <1>3, <1>5, <1>7, <1>8 DEF Mute

\* What is said of a record does not depend on what it has queued.
LEMMA ApartFromWords ==
  ASSUME NEW n \in Nat, NEW e, NEW A, NEW c \in Recs(n), NEW d \in Recs(n),
         d = [c EXCEPT !.out = d.out]
  PROVE  /\ Core(d, e, A) <=> Core(c, e, A)
         /\ Spare(d, e, A) <=> Spare(c, e, A)
         /\ Sound(d, e, A) <=> Sound(c, e, A)
         /\ Stays(c, d) /\ d.ops = c.ops /\ d.pose = c.pose /\ d.granted = c.granted
<1>1. \A f \in DOMAIN c \ {"out"} : d[f] = c[f]
  BY DEF Recs
<1>2. /\ d.stage = c.stage /\ d.known = c.known /\ d.seen = c.seen /\ d.last = c.last
      /\ d.ops = c.ops /\ d.pose = c.pose /\ d.granted = c.granted /\ d.tracked = c.tracked
      /\ d.observed = c.observed /\ d.confirmed = c.confirmed /\ d.blocked = c.blocked
      /\ d.protected = c.protected /\ d.recoverable = c.recoverable
      /\ d.deferred = c.deferred /\ d.unseen = c.unseen
  BY <1>1 DEF Recs
<1> QED
  BY <1>2 DEF Core, Sound, Spare, Shape, Asked, Shown, Stays, Fresh, Newest, Good

\* Giving the lease up leaves a sound record sound, and needs no claim on the lock.
LEMMA NoHoldSound ==
  ASSUME NEW n \in Nat, NEW e, NEW A, NEW c \in Recs(n), Core(c, e, A), Spare(c, e, A)
  PROVE  /\ NoHold(c) \in Recs(n) /\ Sound(NoHold(c), e, A)
         /\ Stays(c, NoHold(c)) /\ NoHold(c).ops = c.ops /\ NoHold(c).out = c.out
<1> DEFINE d == NoHold(c)
<1>1. d \in Recs(n)
  BY DEF NoHold, Recs
<1>2. /\ d.stage = c.stage /\ d.known = c.known /\ d.seen = c.seen /\ d.last = c.last
      /\ d.ops = c.ops /\ d.pose = c.pose /\ d.tracked = c.tracked
      /\ d.observed = c.observed /\ d.confirmed = c.confirmed /\ d.blocked = c.blocked
      /\ d.protected = c.protected /\ d.recoverable = c.recoverable
      /\ d.deferred = c.deferred /\ d.unseen = c.unseen /\ d.out = c.out
      /\ ~d.granted
  BY DEF NoHold, Recs
<1> HIDE DEF d
<1>3. Sound(d, e, A) /\ Stays(c, d)
  BY <1>2 DEF Core, Sound, Spare, Shape, Asked, Shown, Stays, Fresh, Newest, Good
<1> QED
  BY <1>1, <1>2, <1>3 DEF d

\* Tracking that ends leaves nothing that has to be true of it (ResetTracking).
LEMMA ResetSound ==
  ASSUME NEW n \in Nat, NEW e, NEW A, NEW c \in Recs(n), Sound(c, e, A)
  PROVE  /\ ResetTracking(c) \in Recs(n) /\ Sound(ResetTracking(c), e, A)
         /\ Stays(c, ResetTracking(c)) /\ ResetTracking(c).ops = c.ops
         /\ ResetTracking(c).out = c.out
<1> DEFINE d == ResetTracking(c)
<1>1. d \in Recs(n)
  BY DEF ResetTracking, NoHold, Recs
<1>2. /\ d.stage = c.stage /\ d.known = c.known /\ d.seen = c.seen /\ d.last = c.last
      /\ d.ops = c.ops /\ d.pose = c.pose /\ d.out = c.out
      /\ d.protected = c.protected /\ d.recoverable = c.recoverable
      /\ d.deferred = c.deferred /\ d.unseen = c.unseen
      /\ ~d.tracked /\ ~d.granted /\ ~d.blocked
  BY DEF ResetTracking, NoHold, Recs
<1> HIDE DEF d
<1>3. Sound(d, e, A) /\ Stays(c, d)
  BY <1>2 DEF Core, Sound, Spare, Shape, Asked, Shown, Stays, Fresh, Newest, Good
<1> QED
  BY <1>1, <1>2, <1>3 DEF d
\* The three kinds of words an editor sends are messages to the server.
LEMMA WordTypes ==
  ASSUME NEW n \in Nat
  PROVE  /\ LockRequest \in UpMessages(n) /\ LockRequest.type # "transform_update"
         /\ LockRelease \in UpMessages(n) /\ LockRelease.type # "transform_update"
         /\ \A p \in Poses(n) : /\ Update(p) \in UpMessages(n)
                                /\ Update(p).type = "transform_update" /\ Update(p).pose = p
BY DEF UpMessages, LockRequest, LockRelease, Update

\* A request or a release that is sent changes nothing else.
LEMMA WordSound ==
  ASSUME NEW n \in Nat, NEW e, NEW A, NEW c \in Recs(n), NEW m \in {LockRequest, LockRelease}
  PROVE  /\ Send(c, m) \in Recs(n)
         /\ Core(Send(c, m), e, A) <=> Core(c, e, A)
         /\ Spare(Send(c, m), e, A) <=> Spare(c, e, A)
         /\ Sound(Send(c, m), e, A) <=> Sound(c, e, A)
         /\ Stays(c, Send(c, m)) /\ Send(c, m).ops = c.ops /\ Send(c, m).pose = c.pose
         /\ Send(c, m).granted = c.granted
         /\ Mute(c.out) => Mute(Send(c, m).out)
         /\ \A x : Spoke(c.out, x) => Spoke(Send(c, m).out, x)
<1>1. m \in UpMessages(n) /\ m.type # "transform_update"
  BY WordTypes
<1>2. /\ Send(c, m) \in Recs(n)
      /\ Send(c, m) = [c EXCEPT !.out = Send(c, m).out]
      /\ Mute(c.out) => Mute(Send(c, m).out)
      /\ \A x : Spoke(c.out, x) => Spoke(Send(c, m).out, x)
  BY <1>1, SendEffect
<1> QED
  BY <1>2, ApartFromWords

\* Asking for the lock changes what is pending only (SendLockRequest).
LEMMA RequestSound ==
  ASSUME NEW n \in Nat, NEW e, NEW A, NEW c \in Recs(n), Sound(c, e, A)
  PROVE  LET d == SendLockRequest(c, e) IN
         /\ d \in Recs(n) /\ Sound(d, e, A)
         /\ Stays(c, d) /\ d.ops = c.ops /\ (Mute(c.out) => Mute(d.out))
<1> DEFINE k == [c EXCEPT !.pending = TRUE]
<1>1. k \in Recs(n)
  BY DEF Recs
<1>2. /\ k.stage = c.stage /\ k.known = c.known /\ k.seen = c.seen /\ k.last = c.last
      /\ k.ops = c.ops /\ k.pose = c.pose /\ k.tracked = c.tracked /\ k.granted = c.granted
      /\ k.observed = c.observed /\ k.confirmed = c.confirmed /\ k.blocked = c.blocked
      /\ k.protected = c.protected /\ k.recoverable = c.recoverable
      /\ k.deferred = c.deferred /\ k.unseen = c.unseen /\ k.out = c.out
  BY DEF Recs
<1>3. SendLockRequest(c, e) = Send(k, LockRequest) \/ SendLockRequest(c, e) = c
  BY DEF SendLockRequest
<1> HIDE DEF k
<1>4. Sound(k, e, A) /\ Stays(c, k)
  BY <1>2 DEF Core, Sound, Spare, Shape, Asked, Shown, Stays, Fresh, Newest, Good
<1>5. LET d == Send(k, LockRequest) IN
      /\ d \in Recs(n) /\ Sound(d, e, A)
      /\ Stays(c, d) /\ d.ops = c.ops /\ (Mute(c.out) => Mute(d.out))
  BY <1>1, <1>2, <1>4, WordSound DEF Stays
<1> QED
  BY <1>3, <1>5 DEF Stays

\* Tracking begins with the pose the object has (BeginTracking).
LEMMA BeginSound ==
  ASSUME NEW n \in Nat, NEW e, NEW A, NEW c \in Recs(n), Sound(c, e, A), NEW ask
  PROVE  LET d == BeginTracking(c, e, ask) IN
         /\ d \in Recs(n) /\ Sound(d, e, A)
         /\ Stays(c, d) /\ d.ops = c.ops /\ (Mute(c.out) => Mute(d.out))
<1> DEFINE r == ResetTracking(c)
           b == [r EXCEPT !.blocked = TRUE]
           t == [r EXCEPT !.tracked = TRUE, !.observed = c.pose, !.confirmed = c.pose]
<1>1. r \in Recs(n) /\ Sound(r, e, A) /\ Stays(c, r) /\ r.ops = c.ops /\ r.out = c.out
  BY ResetSound
<1>2. /\ r.pose = c.pose /\ r.protected = c.protected /\ r.deferred = c.deferred
      /\ r.recoverable = c.recoverable /\ r.unseen = c.unseen
      /\ ~r.granted /\ ~r.tracked /\ ~r.blocked
  BY DEF ResetTracking, NoHold, Recs
<1> HIDE DEF r
<1>3. b \in Recs(n) /\ t \in Recs(n)
  BY <1>1 DEF Recs
<1>4. /\ b.stage = r.stage /\ b.known = r.known /\ b.seen = r.seen /\ b.last = r.last
      /\ b.ops = r.ops /\ b.pose = r.pose /\ b.out = r.out /\ b.tracked = r.tracked
      /\ b.granted = r.granted /\ b.protected = r.protected /\ b.deferred = r.deferred
      /\ b.recoverable = r.recoverable /\ b.unseen = r.unseen
  BY <1>1 DEF Recs
<1>5. /\ t.stage = r.stage /\ t.known = r.known /\ t.seen = r.seen /\ t.last = r.last
      /\ t.ops = r.ops /\ t.pose = r.pose /\ t.out = r.out /\ t.tracked
      /\ t.observed = c.pose /\ t.confirmed = c.pose /\ t.blocked = r.blocked
      /\ t.granted = r.granted /\ t.protected = r.protected /\ t.deferred = r.deferred
      /\ t.recoverable = r.recoverable /\ t.unseen = r.unseen
  BY <1>1 DEF Recs
<1>6. c.pose # NoPose
  BY PosesArePoses DEF Recs
<1> HIDE DEF b, t
<1>7. CASE ~CanTrack(c)
  BY <1>1, <1>7 DEF BeginTracking, r
<1>8. CASE CanTrack(c) /\ c.protected
  <2>1. BeginTracking(c, e, ask) = b
    BY <1>8 DEF BeginTracking, r, b
  <2>2. Sound(b, e, A) /\ Stays(c, b)
    BY <1>1, <1>2, <1>4, <1>8
       DEF Core, Sound, Spare, Shape, Asked, Shown, Stays, Fresh, Newest, Good
  <2> QED
    BY <1>1, <1>3, <1>4, <2>1, <2>2
<1>9. CASE CanTrack(c) /\ ~c.protected
  <2>1. BeginTracking(c, e, ask) = (IF ask THEN SendLockRequest(t, e) ELSE t)
    BY <1>9 DEF BeginTracking, r, t
  <2>2. Shape(t) /\ Asked(t, e, A)
    BY <1>1, <1>2, <1>5, <1>6, <1>9 DEF CanTrack, Core, Sound, Shape, Asked, Stays
  <2>3. Shown(t, e, A) /\ Spare(t, e, A) /\ ~t.granted
    BY <1>1, <1>2, <1>5, <1>9
       DEF CanTrack, Core, Sound, Shape, Shown, Spare, Stays, Newest, Good
  <2>4. Sound(t, e, A) /\ Stays(c, t)
    BY <1>1, <1>5, <2>2, <2>3 DEF Core, Sound, Stays
  <2>5. LET d == SendLockRequest(t, e) IN
        /\ d \in Recs(n) /\ Sound(d, e, A)
        /\ Stays(t, d) /\ d.ops = t.ops /\ (Mute(t.out) => Mute(d.out))
    BY <1>3, <2>4, RequestSound
  <2> QED
    BY <1>1, <1>3, <1>5, <2>1, <2>4, <2>5 DEF Stays
<1> QED
  BY <1>7, <1>8, <1>9

\* Beginning to track takes back nothing that was said.
LEMMA BeginSpoke ==
  ASSUME NEW n \in Nat, NEW e, NEW c \in Recs(n), NEW ask, NEW x, Spoke(c.out, x)
  PROVE  Spoke(BeginTracking(c, e, ask).out, x)
<1> DEFINE r == ResetTracking(c)
           b == [r EXCEPT !.blocked = TRUE]
           t == [r EXCEPT !.tracked = TRUE, !.observed = c.pose, !.confirmed = c.pose]
           k == [t EXCEPT !.pending = TRUE]
           w == Send(k, LockRequest)
<1>1. r \in Recs(n) /\ r.out = c.out
  BY DEF ResetTracking, NoHold, Recs
<1>2. BeginTracking(c, e, ask) \in {r, b, t, w}
  BY DEF BeginTracking, SendLockRequest
<1>3. c.pose \in Poses(n)
  BY DEF Recs
<1> HIDE DEF r
<1>4. b.out = c.out /\ t.out = c.out /\ t \in Recs(n)
  BY <1>1, <1>3 DEF Recs
<1> HIDE DEF b, t
<1>5. k \in Recs(n) /\ k.out = c.out
  BY <1>4 DEF Recs
<1> HIDE DEF k
<1>6. Spoke(w.out, x)
  BY <1>5, WordSound
<1> HIDE DEF w
<1> QED
  BY <1>1, <1>2, <1>4, <1>6

\* What c says on the way to d: nothing of an edit, or one that is new.
Says(c, d, e, A) ==
  \/ d.ops = c.ops /\ Mute(d.out)
  \/ \E x : Fresh(x, e, c, A) /\ d.ops = c.ops \cup {x} /\ Spoke(d.out, x)

\* A record with an open conflict is a record.
LEMMA MarkRecs ==
  ASSUME NEW n \in Nat, NEW c \in Recs(n)
  PROVE  MarkNonRecoverable(c) \in Recs(n)
<1> DEFINE u == c.unseen \/ c.deferred # NoPose
<1>1. u \in BOOLEAN /\ NoPose \in Poses(n) \cup {NoPose}
  OBVIOUS
<1>2. MarkNonRecoverable(c) =
        [c EXCEPT !.protected = TRUE, !.recoverable = FALSE, !.deferred = NoPose, !.unseen = u]
  BY DEF MarkNonRecoverable
<1> HIDE DEF u
<1> QED
  BY <1>1, <1>2 DEF Recs

\* A deadline that passed blocks the object and forgets the deferred value.
LEMMA BlockSound ==
  ASSUME NEW n \in Nat, NEW e \in Editors, NEW A, NEW c \in Recs(n), Sound(c, e, A),
         c.known = e, Mute(c.out)
  PROVE  LET d == BlockAfterDeadline(c) IN
         d \in Recs(n) /\ Sound(d, e, A) /\ Stays(c, d) /\ d.ops = c.ops /\ Mute(d.out)
<1> DEFINE k == [MarkNonRecoverable(NoHold(c)) EXCEPT !.blocked = TRUE]
<1>1. k \in Recs(n)
  <2>1. NoHold(c) \in Recs(n)
    BY DEF NoHold, Recs
  <2>2. MarkNonRecoverable(NoHold(c)) \in Recs(n)
    BY <2>1, MarkRecs
  <2> QED
    BY <2>2 DEF Recs
<1>2. /\ k.stage = c.stage /\ k.known = c.known /\ k.seen = c.seen /\ k.last = c.last
      /\ k.ops = c.ops /\ k.pose = c.pose /\ k.tracked = c.tracked /\ k.out = c.out
      /\ k.observed = c.observed /\ k.confirmed = c.confirmed
      /\ k.blocked /\ k.protected /\ ~k.granted /\ k.deferred = NoPose
      /\ k.unseen = (c.unseen \/ c.deferred # NoPose)
  BY DEF MarkNonRecoverable, NoHold, Recs
<1>3. BlockAfterDeadline(c) = Send(k, LockRelease)
  BY DEF BlockAfterDeadline
<1> HIDE DEF k
<1>4. c.stage = "ready"
  BY TransformAssumption DEF Sound, Core, Shape
<1>5. Sound(k, e, A) /\ Stays(c, k)
  BY <1>2, <1>4 DEF Core, Sound, Spare, Shape, Asked, Shown, Stays, Fresh, Newest, Good
<1>6. /\ Send(k, LockRelease) \in Recs(n) /\ Sound(Send(k, LockRelease), e, A)
      /\ Stays(k, Send(k, LockRelease)) /\ Send(k, LockRelease).ops = k.ops
      /\ Mute(Send(k, LockRelease).out)
  BY <1>1, <1>2, <1>5, WordSound
<1> QED
  BY <1>2, <1>3, <1>5, <1>6 DEF Stays

\* An update is the newest edit of its editor and is waited for (TrySend).
LEMMA TrySendSound ==
  ASSUME NEW n \in Nat, NEW e \in Editors, NEW A \in SUBSET Poses(n), NEW c \in Recs(n),
         Sound(c, e, A), Mute(c.out), NEW late
  PROVE  LET d == TrySend(c, late) IN
         d \in Recs(n) /\ Sound(d, e, A) /\ Stays(c, d) /\ Says(c, d, e, A)
<1>1. CASE ~c.granted \/ c.blocked
  BY <1>1 DEF TrySend, Stays, Says
<1>2. CASE c.granted /\ ~c.blocked /\ late
  <2>1. TrySend(c, late) = BlockAfterDeadline(c) /\ c.known = e
    BY <1>2 DEF TrySend, Sound
  <2> QED
    BY <2>1, BlockSound DEF Says
<1>3. CASE c.granted /\ ~c.blocked /\ ~late
  <2> DEFINE k == [c EXCEPT !.ops = @ \cup {c.pose}, !.observed = c.pose]
             d == Send(k, Update(c.pose))
  <2>1. CASE TrySend(c, late) = c
    BY <2>1 DEF Stays, Says
  <2>2. CASE TrySend(c, late) # c
    <3>1. TrySend(c, late) = d /\ c.pose # c.observed
      BY <1>3, <2>2 DEF TrySend, Changed
    <3>2. /\ k \in Recs(n) /\ c.pose \in Poses(n) /\ c.ops \subseteq Poses(n)
          /\ k.stage = c.stage /\ k.known = c.known /\ k.seen = c.seen /\ k.last = c.last
          /\ k.pose = c.pose /\ k.tracked = c.tracked /\ k.out = c.out
          /\ k.observed = c.pose /\ k.confirmed = c.confirmed
          /\ k.blocked = c.blocked /\ k.protected = c.protected /\ k.granted = c.granted
          /\ k.deferred = c.deferred /\ k.recoverable = c.recoverable
          /\ k.unseen = c.unseen /\ k.ops = c.ops \cup {c.pose}
      BY DEF Recs
    <3> HIDE DEF k
    <3>3. /\ c.tracked /\ c.known = e /\ c.stage = "ready" /\ ~c.protected
          /\ Fresh(c.pose, e, c, A)
      BY <1>3, <3>1, TransformAssumption DEF Sound, Core, Shape, Shown
    <3>4. c.pose[1] = e /\ c.pose[2] \in Nat /\ \A y \in A \cup c.ops : y[1] = e => y[2] < c.pose[2]
      BY <3>2, <3>3, PosesArePoses DEF Fresh
    <3>5. \A y \in A \cup c.ops : y[2] \in Nat
      BY <3>2, PosesArePoses
    <3>6. Asked(k, e, A)
      <4>1. c.last \in A /\ c.last \notin c.ops /\ c.last # c.pose
        BY <3>4 DEF Sound, Core, Asked
      <4>2. \A q \in k.ops : q[1] = e
        BY <3>2, <3>4 DEF Sound, Core, Asked
      <4>3. \A x \in A : x[1] = e => x \in k.ops \/ \A q \in k.ops : x[2] < q[2]
        BY <3>2, <3>4, <3>5 DEF Sound, Core, Asked
      <4> QED
        BY <3>2, <4>1, <4>2, <4>3 DEF Asked
    <3>7. Newest(c.pose, e, k)
      <4>1. \A q \in c.ops : q[2] <= c.pose[2]
        BY <3>4, <3>5 DEF Sound, Core, Asked
      <4> QED
        BY <3>2, <3>4, <4>1 DEF Newest
    <3>8. Sound(k, e, A)
      <4>1. Shape(k)
        BY <3>2, <3>3, PosesArePoses DEF Sound, Core, Shape
      <4>2. Good(c.pose, e, k, A) /\ \A x : Good(x, e, c, A) => Good(x, e, k, A)
        BY <3>2 DEF Good
      <4>3. Shown(k, e, A)
        BY <3>2, <3>3, <3>7, <4>2 DEF Sound, Core, Shape, Shown
      <4> QED
        BY <3>2, <3>3, <3>6, <4>1, <4>3 DEF Sound, Core, Spare
    <3>9. Update(c.pose) \in UpMessages(n) /\ Update(c.pose).type = "transform_update"
          /\ Update(c.pose).pose = c.pose
      BY <3>2, WordTypes
    <3>10. /\ d \in Recs(n) /\ d = [k EXCEPT !.out = d.out] /\ Spoke(d.out, c.pose)
      BY <3>2, <3>9, SendEffect
    <3> HIDE DEF d
    <3>11. Sound(d, e, A) /\ Stays(k, d) /\ d.ops = k.ops
      BY <3>2, <3>8, <3>10, ApartFromWords
    <3> QED
      BY <3>1, <3>2, <3>3, <3>10, <3>11 DEF Says, Stays
  <2> QED
    BY <2>1, <2>2
<1> QED
  BY <1>1, <1>2, <1>3

\* The end of tracking sends what was not sent, or goes back to the confirmed
\* value (FinishTracking).
LEMMA FinishSound ==
  ASSUME NEW n \in Nat, NEW e \in Editors, NEW A \in SUBSET Poses(n), NEW c \in Recs(n),
         Sound(c, e, A), Mute(c.out), NEW late
  PROVE  LET d == FinishTracking(c, e, late) IN
         d \in Recs(n) /\ Sound(d, e, A) /\ Stays(c, d) /\ Says(c, d, e, A)
<1> DEFINE reverts == c.tracked /\ ~c.granted /\ Foreign(c, e) /\ c.confirmed # c.pose
<1>1. CASE reverts
  <2> DEFINE d == ResetTracking(ApplyRemote(c, c.confirmed))
  <2>1. FinishTracking(c, e, late) = d
    BY <1>1 DEF FinishTracking, ApplyRemote, Recs
  <2>2. c.confirmed \in Poses(n) /\ c.known # e
    BY <1>1 DEF Sound, Core, Shape, Recs, Foreign
  <2>3. d \in Recs(n)
    BY <2>2 DEF ResetTracking, NoHold, ApplyRemote, Recs
  <2>4. /\ d.stage = c.stage /\ d.known = c.known /\ d.seen = c.seen /\ d.last = c.last
        /\ d.ops = c.ops /\ d.pose = c.confirmed /\ d.out = c.out
        /\ d.protected = c.protected /\ d.recoverable = c.recoverable
        /\ d.deferred = c.deferred /\ d.unseen = c.unseen
        /\ ~d.tracked /\ ~d.granted /\ ~d.blocked
    BY DEF ResetTracking, NoHold, ApplyRemote, Recs
  <2> HIDE DEF d
  <2>5. Sound(d, e, A) /\ Stays(c, d)
    BY <1>1, <2>2, <2>4 DEF Core, Sound, Spare, Shape, Asked, Shown, Stays, Fresh, Newest, Good
  <2> QED
    BY <2>1, <2>3, <2>4, <2>5 DEF Says
<1>2. CASE ~reverts /\ ~c.granted
  <2>1. FinishTracking(c, e, late) = ResetTracking(c)
    BY <1>2 DEF FinishTracking
  <2> QED
    BY <2>1, ResetSound DEF Says
<1>3. CASE ~reverts /\ c.granted
  <2> DEFINE s == TrySend(c, late)
             w == Send(s, LockRelease)
  <2>1. FinishTracking(c, e, late) = ResetTracking(w)
    BY <1>3 DEF FinishTracking
  <2>2. s \in Recs(n) /\ Sound(s, e, A) /\ Stays(c, s) /\ Says(c, s, e, A)
    BY TrySendSound
  <2> HIDE DEF s
  <2>3. /\ w \in Recs(n) /\ Sound(w, e, A) /\ Stays(s, w) /\ w.ops = s.ops
        /\ Mute(s.out) => Mute(w.out)
        /\ \A x : Spoke(s.out, x) => Spoke(w.out, x)
    BY <2>2, WordSound
  <2> HIDE DEF w
  <2>4. /\ ResetTracking(w) \in Recs(n) /\ Sound(ResetTracking(w), e, A)
        /\ Stays(w, ResetTracking(w)) /\ ResetTracking(w).ops = w.ops
        /\ ResetTracking(w).out = w.out
    BY <2>3, ResetSound
  <2>5. Says(c, ResetTracking(w), e, A)
    BY <2>2, <2>3, <2>4 DEF Says
  <2> QED
    BY <2>1, <2>2, <2>3, <2>4, <2>5 DEF Stays
<1> QED
  BY <1>1, <1>2, <1>3
\* A recovery ends with a value that the session has (TryRecover).
LEMMA RecoverSound ==
  ASSUME NEW n \in Nat, NEW e \in Editors, NEW A, NEW c \in Recs(n), Sound(c, e, A), NEW hot
  PROVE  LET d == TryRecover(c, hot) IN
         d \in Recs(n) /\ Sound(d, e, A) /\ Stays(c, d) /\ d.ops = c.ops /\ d.out = c.out
<1> DEFINE recovers == c.tracked /\ c.protected /\ c.recoverable /\ ~hot /\ c.ops = {}
           v == IF c.deferred # NoPose THEN c.deferred ELSE c.confirmed
           d == [NoHold(Unmark(Show(c, v))) EXCEPT !.blocked = FALSE]
<1>1. CASE ~recovers
  BY <1>1 DEF TryRecover, Stays
<1>2. CASE recovers
  <2>1. TryRecover(c, hot) = d
    BY <1>2 DEF TryRecover
  <2>2. v \in Poses(n)
    BY <1>2 DEF Sound, Core, Shape, Recs
  <2>3. (c.dirty \/ c.pose # v) \in BOOLEAN
    OBVIOUS
  <2>4. ~c.unseen => Good(v, e, c, A)
    BY <1>2 DEF Sound, Core, Shape, Shown, Good
  <2> HIDE DEF v
  <2>5. Show(c, v) \in Recs(n) /\ Show(c, v).tracked
    BY <1>2, <2>2, <2>3 DEF Show, ApplyRemote, Recs
  <2>6. d \in Recs(n)
    BY <2>5 DEF NoHold, Unmark, Recs
  <2>7. /\ d.stage = c.stage /\ d.known = c.known /\ d.seen = c.seen /\ d.last = c.last
        /\ d.ops = c.ops /\ d.pose = v /\ d.tracked = c.tracked /\ d.out = c.out
        /\ d.observed = v /\ d.confirmed = v /\ d.unseen = c.unseen
        /\ ~d.blocked /\ ~d.protected /\ ~d.granted /\ d.deferred = NoPose
    BY <1>2, <2>2 DEF NoHold, Unmark, Show, ApplyRemote, Recs
  <2>8. v # NoPose
    BY <2>2, PosesArePoses
  <2> HIDE DEF d
  <2>9. Sound(d, e, A) /\ Stays(c, d)
    BY <1>2, <2>4, <2>7, <2>8
       DEF Core, Sound, Spare, Shape, Asked, Shown, Stays, Fresh, Newest, Good
  <2> QED
    BY <2>1, <2>6, <2>7, <2>9
<1> QED
  BY <1>1, <1>2

\* A lock that is lost with a local value opens a conflict (LockLoss).
LEMMA LossSound ==
  ASSUME NEW n \in Nat, NEW e \in Editors, NEW A, NEW c \in Recs(n), Core(c, e, A),
         c.tracked, c.known # e, c.stage = "ready", NEW hot
  PROVE  LET d == LockLoss(c, e, hot) IN
         d \in Recs(n) /\ Sound(d, e, A) /\ Stays(c, d) /\ d.ops = c.ops /\ d.out = c.out
<1>1. c.pose \in Poses(n) /\ c.pose # NoPose
  BY PosesArePoses DEF Recs
<1>2. CASE c.confirmed = c.pose
  <2> DEFINE d == [NoHold(c) EXCEPT !.observed = c.pose]
  <2>1. d \in Recs(n) /\ LockLoss(c, e, hot) = d
    BY <1>1, <1>2 DEF NoHold, Recs, LockLoss
  <2>2. /\ d.stage = c.stage /\ d.known = c.known /\ d.seen = c.seen /\ d.last = c.last
        /\ d.ops = c.ops /\ d.pose = c.pose /\ d.tracked = c.tracked /\ d.out = c.out
        /\ d.observed = c.pose /\ d.confirmed = c.pose /\ d.unseen = c.unseen
        /\ d.blocked = c.blocked /\ d.protected = c.protected /\ ~d.granted
        /\ d.deferred = c.deferred /\ d.recoverable = c.recoverable
    BY <1>2 DEF NoHold, Recs
  <2> HIDE DEF d
  <2>3. Sound(d, e, A) /\ Stays(c, d)
    BY <1>1, <1>2, <2>2 DEF Core, Sound, Spare, Shape, Asked, Shown, Stays, Fresh, Newest, Good
  <2> QED
    BY <2>1, <2>2, <2>3
<1>3. CASE c.confirmed # c.pose
  <2> DEFINE k == [NoHold(c) EXCEPT !.blocked = TRUE, !.observed = c.pose]
             a == MarkLockRequired(k)
             b == MarkNonRecoverable(k)
  <2>1. LockLoss(c, e, hot) = IF Foreign(c, e) THEN TryRecover(a, hot) ELSE b
    BY <1>3 DEF LockLoss
  <2>2. k \in Recs(n)
    BY <1>1 DEF NoHold, Recs
  <2>3. /\ k.stage = c.stage /\ k.known = c.known /\ k.seen = c.seen /\ k.last = c.last
        /\ k.ops = c.ops /\ k.pose = c.pose /\ k.tracked = c.tracked /\ k.out = c.out
        /\ k.observed = c.pose /\ k.confirmed = c.confirmed /\ k.unseen = c.unseen
        /\ k.blocked /\ ~k.granted /\ k.deferred = c.deferred
    BY DEF NoHold, Recs
  <2> HIDE DEF k
  <2>4. a \in Recs(n) /\ b \in Recs(n)
    BY <2>2, MarkRecs DEF MarkLockRequired, Recs
  <2>5. /\ a.stage = k.stage /\ a.known = k.known /\ a.seen = k.seen /\ a.last = k.last
        /\ a.ops = k.ops /\ a.pose = k.pose /\ a.tracked = k.tracked /\ a.out = k.out
        /\ a.observed = k.observed /\ a.confirmed = k.confirmed /\ a.unseen = k.unseen
        /\ a.blocked = k.blocked /\ a.granted = k.granted /\ a.deferred = k.deferred
        /\ a.protected /\ a.recoverable
    BY <2>2 DEF MarkLockRequired, Recs
  <2>6. /\ b.stage = k.stage /\ b.known = k.known /\ b.seen = k.seen /\ b.last = k.last
        /\ b.ops = k.ops /\ b.pose = k.pose /\ b.tracked = k.tracked /\ b.out = k.out
        /\ b.observed = k.observed /\ b.confirmed = k.confirmed
        /\ b.unseen = (k.unseen \/ k.deferred # NoPose)
        /\ b.blocked = k.blocked /\ b.granted = k.granted /\ b.deferred = NoPose
        /\ b.protected
    BY <2>2 DEF MarkNonRecoverable, Recs
  <2> HIDE DEF a, b
  <2>7. Sound(a, e, A) /\ Stays(c, a)
    BY <1>1, <2>3, <2>5 DEF Core, Sound, Spare, Shape, Asked, Shown, Stays, Fresh, Newest, Good
  <2>8. Sound(b, e, A) /\ Stays(c, b)
    BY <1>1, <2>3, <2>6 DEF Core, Sound, Spare, Shape, Asked, Shown, Stays, Fresh, Newest, Good
  <2>9. LET d == TryRecover(a, hot) IN
        d \in Recs(n) /\ Sound(d, e, A) /\ Stays(a, d) /\ d.ops = a.ops /\ d.out = a.out
    BY <2>4, <2>7, RecoverSound
  <2> QED
    BY <2>1, <2>3, <2>4, <2>5, <2>6, <2>7, <2>8, <2>9 DEF Stays
<1> QED
  BY <1>2, <1>3

\* The lease is taken or given up as the mirror of the lock says (RefreshLock).
LEMMA RefreshSound ==
  ASSUME NEW n \in Nat, NEW e \in Editors, NEW A, NEW c \in Recs(n), Core(c, e, A),
         c.known = NoEditor => Spare(c, e, A), c.stage = "ready", Mute(c.out), NEW hot
  PROVE  LET d == RefreshLock(c, e, hot) IN
         d \in Recs(n) /\ Sound(d, e, A) /\ Stays(c, d) /\ d.ops = c.ops /\ Mute(d.out)
<1>1. CASE c.tracked /\ c.blocked /\ c.protected
  <2> DEFINE k == IF c.known = e THEN Send(c, LockRelease) ELSE c
  <2>1. RefreshLock(c, e, hot) = NoHold(k)
    BY <1>1 DEF RefreshLock
  <2>2. Spare(c, e, A)
    BY <1>1 DEF Spare
  <2>3. /\ k \in Recs(n) /\ Core(k, e, A) /\ Spare(k, e, A) /\ Stays(c, k) /\ k.ops = c.ops
        /\ Mute(k.out)
    BY <2>2, WordSound DEF Stays
  <2> HIDE DEF k
  <2>4. /\ NoHold(k) \in Recs(n) /\ Sound(NoHold(k), e, A)
        /\ Stays(k, NoHold(k)) /\ NoHold(k).ops = k.ops /\ NoHold(k).out = k.out
    BY <2>3, NoHoldSound
  <2> QED
    BY <2>1, <2>3, <2>4 DEF Stays
<1>2. CASE ~(c.tracked /\ c.blocked /\ c.protected) /\ (~c.tracked \/ c.known \in {NoEditor, e})
  <2> DEFINE g == c.tracked /\ c.known = e
             d == [c EXCEPT !.granted = g]
  <2>1. RefreshLock(c, e, hot) = d
    BY <1>2, TransformAssumption DEF RefreshLock
  <2>2. g \in BOOLEAN
    OBVIOUS
  <2>3. d \in Recs(n)
    BY <2>2 DEF Recs
  <2>4. /\ d.stage = c.stage /\ d.known = c.known /\ d.seen = c.seen /\ d.last = c.last
        /\ d.ops = c.ops /\ d.pose = c.pose /\ d.tracked = c.tracked /\ d.out = c.out
        /\ d.observed = c.observed /\ d.confirmed = c.confirmed /\ d.unseen = c.unseen
        /\ d.blocked = c.blocked /\ d.protected = c.protected /\ d.granted = g
        /\ d.deferred = c.deferred /\ d.recoverable = c.recoverable
    BY DEF Recs
  <2>5. Spare(c, e, A)
    BY <1>2 DEF Spare
  <2> HIDE DEF d
  <2>6. Core(d, e, A) /\ Spare(d, e, A) /\ Stays(c, d)
    BY <2>4, <2>5 DEF Core, Spare, Shape, Asked, Shown, Stays, Fresh, Newest, Good
  <2> QED
    BY <2>1, <2>3, <2>4, <2>6 DEF Sound
<1>3. CASE c.tracked /\ c.known \notin {NoEditor, e} /\ ~(c.blocked /\ c.protected)
  <2>1. RefreshLock(c, e, hot) = LockLoss(c, e, hot)
    BY <1>3 DEF RefreshLock
  <2> QED
    BY <1>3, <2>1, LossSound
<1> QED
  BY <1>1, <1>2, <1>3
-----------------------------------------------------------------------------
(* What an editor does with a message.                                       *)

\* A message about the lock changes nothing of its values.
Kept(c, d) ==
  d.stage = c.stage /\ d.seen = c.seen /\ d.last = c.last /\ d.ops = c.ops /\ Mute(d.out)

\* The mirror is set; the editor has to make up for it.
LEMMA MirrorSet ==
  ASSUME NEW n \in Nat, NEW e, NEW A, NEW c \in Recs(n), Sound(c, e, A), NEW o \in Users,
         c.stage = "ready"
  PROVE  LET k == [c EXCEPT !.known = o] IN
         /\ k \in Recs(n) /\ Core(k, e, A) /\ k.known = o /\ (o = e => Spare(k, e, A))
         /\ o = NoEditor /\ ~c.tracked => Sound(k, e, A)
         /\ k.stage = c.stage /\ k.seen = c.seen /\ k.last = c.last /\ k.ops = c.ops
         /\ k.out = c.out /\ k.tracked = c.tracked /\ k.pose = c.pose /\ k.blocked = c.blocked
         /\ k.granted = c.granted
<1> DEFINE k == [c EXCEPT !.known = o]
<1>1. k \in Recs(n)
  BY DEF Recs
<1>2. /\ k.stage = c.stage /\ k.known = o /\ k.seen = c.seen /\ k.last = c.last
      /\ k.ops = c.ops /\ k.pose = c.pose /\ k.tracked = c.tracked /\ k.granted = c.granted
      /\ k.observed = c.observed /\ k.confirmed = c.confirmed /\ k.blocked = c.blocked
      /\ k.protected = c.protected /\ k.recoverable = c.recoverable
      /\ k.deferred = c.deferred /\ k.unseen = c.unseen /\ k.out = c.out
  BY DEF Recs
<1> HIDE DEF k
<1>3. Core(k, e, A) /\ (o = e => Spare(k, e, A))
  BY <1>2 DEF Core, Sound, Spare, Shape, Asked, Shown, Fresh, Newest, Good
<1>4. o = NoEditor /\ ~c.tracked => Sound(k, e, A)
  BY <1>2, <1>3 DEF Sound, Spare
<1> QED
  BY <1>1, <1>2, <1>3, <1>4 DEF k

\* A grant makes the editor the owner it knows of, and takes effect only while it
\* tracks the object unblocked.
LEMMA GrantedSound ==
  ASSUME NEW n \in Nat, NEW e \in Editors, NEW A, NEW c \in Recs(n), Sound(c, e, A),
         c.stage = "ready", Mute(c.out)
  PROVE  LET d == OnGranted(c, e) IN
         d \in Recs(n) /\ Sound(d, e, A) /\ Kept(c, d) /\ d.known = e
<1> DEFINE k == [c EXCEPT !.known = e]
<1>1. /\ k \in Recs(n) /\ Core(k, e, A) /\ k.known = e /\ Spare(k, e, A)
      /\ k.stage = c.stage /\ k.seen = c.seen /\ k.last = c.last /\ k.ops = c.ops
      /\ k.out = c.out /\ k.tracked = c.tracked /\ k.granted = c.granted
  BY MirrorSet DEF Users
<1>2. CASE c.blocked
  <2>1. OnGranted(c, e) = Send(NoHold(k), LockRelease)
    BY <1>2 DEF OnGranted
  <2> HIDE DEF k
  <2> DEFINE h == NoHold(k)
  <2>2. /\ h \in Recs(n) /\ Sound(h, e, A) /\ Stays(k, h) /\ h.ops = k.ops /\ h.out = k.out
    BY <1>1, NoHoldSound
  <2> HIDE DEF h
  <2>3. /\ Send(h, LockRelease) \in Recs(n) /\ Sound(Send(h, LockRelease), e, A)
        /\ Stays(h, Send(h, LockRelease)) /\ Send(h, LockRelease).ops = h.ops
        /\ Mute(Send(h, LockRelease).out)
    BY <1>1, <2>2, WordSound
  <2> QED
    BY <1>1, <2>1, <2>2, <2>3 DEF Kept, Stays, h
<1>3. CASE ~c.blocked /\ ~c.tracked
  <2>1. OnGranted(c, e) = Send(k, LockRelease)
    BY <1>3 DEF OnGranted
  <2>2. Sound(k, e, A)
    BY <1>1, <1>3 DEF Sound
  <2> HIDE DEF k
  <2>3. /\ Send(k, LockRelease) \in Recs(n) /\ Sound(Send(k, LockRelease), e, A)
        /\ Stays(k, Send(k, LockRelease)) /\ Send(k, LockRelease).ops = k.ops
        /\ Mute(Send(k, LockRelease).out)
    BY <1>1, <2>2, WordSound
  <2> QED
    BY <1>1, <2>1, <2>3 DEF Kept, Stays
<1>4. CASE ~c.blocked /\ c.tracked
  <2> DEFINE d == [k EXCEPT !.granted = TRUE, !.pending = FALSE]
  <2>1. OnGranted(c, e) = d
    BY <1>4 DEF OnGranted
  <2> HIDE DEF k
  <2>2. d \in Recs(n)
    BY <1>1 DEF Recs
  <2>3. /\ d.stage = k.stage /\ d.known = k.known /\ d.seen = k.seen /\ d.last = k.last
        /\ d.ops = k.ops /\ d.pose = k.pose /\ d.tracked = k.tracked /\ d.granted
        /\ d.observed = k.observed /\ d.confirmed = k.confirmed /\ d.blocked = k.blocked
        /\ d.protected = k.protected /\ d.recoverable = k.recoverable
        /\ d.deferred = k.deferred /\ d.unseen = k.unseen /\ d.out = k.out
    BY <1>1 DEF Recs
  <2> HIDE DEF d
  <2>4. Sound(d, e, A)
    BY <1>1, <1>4, <2>3 DEF Core, Sound, Spare, Shape, Asked, Shown, Fresh, Newest, Good
  <2> QED
    BY <1>1, <2>1, <2>2, <2>3, <2>4 DEF Kept
<1> QED
  BY <1>2, <1>3, <1>4

\* Another's lock ends the editor's own lease.
LEMMA ChangedSound ==
  ASSUME NEW n \in Nat, NEW e \in Editors, NEW A, NEW c \in Recs(n), Sound(c, e, A),
         c.stage = "ready", Mute(c.out), NEW hot,
         NEW m, m.owner \in Editors, m.owner # e
  PROVE  LET d == OnChanged(c, e, m, hot) IN
         d \in Recs(n) /\ Sound(d, e, A) /\ Kept(c, d) /\ d.known = m.owner
<1> DEFINE k == [c EXCEPT !.known = m.owner]
<1>1. /\ k \in Recs(n) /\ Core(k, e, A) /\ k.known = m.owner
      /\ k.stage = c.stage /\ k.seen = c.seen /\ k.last = c.last /\ k.ops = c.ops
      /\ k.out = c.out
  BY MirrorSet DEF Users
<1>2. OnChanged(c, e, m, hot) = RefreshLock(k, e, hot)
  BY DEF OnChanged
<1> HIDE DEF k
<1>3. LET d == RefreshLock(k, e, hot) IN
      d \in Recs(n) /\ Sound(d, e, A) /\ Stays(k, d) /\ d.ops = k.ops /\ Mute(d.out)
  <2>1. k.known # NoEditor
    BY <1>1, TransformAssumption
  <2> QED
    BY <1>1, <2>1, RefreshSound
<1> QED
  BY <1>1, <1>2, <1>3 DEF Kept, Stays

\* Only the release of the owner it knows of frees its mirror.
LEMMA ReleasedSound ==
  ASSUME NEW n \in Nat, NEW e \in Editors, NEW A, NEW c \in Recs(n), Sound(c, e, A),
         c.stage = "ready", Mute(c.out), NEW hot, NEW m
  PROVE  LET d == OnReleased(c, e, m, hot) IN
         /\ d \in Recs(n) /\ Sound(d, e, A) /\ Kept(c, d)
         /\ d.known = IF m.owner = c.known THEN NoEditor ELSE c.known
<1> DEFINE k == [c EXCEPT !.known = NoEditor]
<1>1. CASE m.owner = NoEditor \/ c.known # m.owner
  BY <1>1 DEF OnReleased, Kept
<1>2. CASE m.owner # NoEditor /\ c.known = m.owner
  <2>1. OnReleased(c, e, m, hot) = IF c.tracked THEN LockLoss(k, e, hot) ELSE k
    BY <1>2 DEF OnReleased
  <2>2. /\ k \in Recs(n) /\ Core(k, e, A) /\ k.known = NoEditor
        /\ ~c.tracked => Sound(k, e, A)
        /\ k.stage = c.stage /\ k.seen = c.seen /\ k.last = c.last /\ k.ops = c.ops
        /\ k.out = c.out /\ k.tracked = c.tracked
    BY MirrorSet DEF Users
  <2> HIDE DEF k
  <2>3. c.tracked => LET d == LockLoss(k, e, hot) IN
          d \in Recs(n) /\ Sound(d, e, A) /\ Stays(k, d) /\ d.ops = k.ops /\ d.out = k.out
    <3>1. k.known # e /\ k.stage = "ready"
      BY <2>2, TransformAssumption
    <3> QED
      BY <2>2, <3>1, LossSound
  <2>4. CASE c.tracked
    BY <1>2, <2>1, <2>2, <2>3, <2>4 DEF Kept, Stays
  <2>5. CASE ~c.tracked
    BY <1>2, <2>1, <2>2, <2>5 DEF Kept
  <2> QED
    BY <2>4, <2>5
<1> QED
  BY <1>1, <1>2

\* A denial goes back to the confirmed value.
LEMMA DeniedSound ==
  ASSUME NEW n \in Nat, NEW e \in Editors, NEW A, NEW c \in Recs(n), Sound(c, e, A),
         Mute(c.out), NEW m, m.owner = c.known, m.owner # e
  PROVE  LET d == OnDenied(c, m) IN
         d \in Recs(n) /\ Sound(d, e, A) /\ Kept(c, d) /\ d.known = m.owner
<1>1. [c EXCEPT !.known = m.owner] = c
  BY DEF Recs
<1>2. CASE ~c.tracked
  BY <1>1, <1>2 DEF OnDenied, Kept
<1>3. CASE c.tracked
  <2> DEFINE o == IF c.confirmed = c.pose THEN c.observed ELSE c.confirmed
             w == c.dirty \/ c.pose # c.confirmed
             d == [NoHold([c EXCEPT !.pose = c.confirmed, !.dirty = w]) EXCEPT !.observed = o]
  <2>1. OnDenied(c, m) = d
    BY <1>1, <1>3 DEF OnDenied, ApplyRemote, NoHold, Recs
  <2>2. /\ c.confirmed \in Poses(n) /\ o \in Poses(n) /\ o # NoPose /\ w \in BOOLEAN
        /\ o = c.observed \/ o = c.confirmed
        /\ o = c.confirmed \/ (c.confirmed = c.pose /\ o = c.observed)
    <3>1. /\ c.confirmed \in Poses(n) /\ c.observed \in Poses(n)
          /\ c.confirmed # NoPose /\ c.observed # NoPose
      BY <1>3 DEF Sound, Core, Shape, Recs
    <3>2. w \in BOOLEAN
      OBVIOUS
    <3>3. o = (IF c.confirmed = c.pose THEN c.observed ELSE c.confirmed)
      OBVIOUS
    <3> HIDE DEF w, o
    <3>4. c.confirmed = c.pose => o = c.observed
      BY <3>3
    <3>5. c.confirmed # c.pose => o = c.confirmed
      BY <3>3
    <3> QED
      BY <3>1, <3>2, <3>4, <3>5
  <2> HIDE DEF o, w
  <2>3. d \in Recs(n)
    BY <2>2 DEF NoHold, Recs
  <2>4. /\ d.stage = c.stage /\ d.known = c.known /\ d.seen = c.seen /\ d.last = c.last
        /\ d.ops = c.ops /\ d.pose = c.confirmed /\ d.tracked = c.tracked /\ d.out = c.out
        /\ d.observed = o /\ d.confirmed = c.confirmed /\ d.unseen = c.unseen
        /\ d.blocked = c.blocked /\ d.protected = c.protected /\ ~d.granted
        /\ d.deferred = c.deferred /\ d.recoverable = c.recoverable
    BY DEF NoHold, Recs
  <2> HIDE DEF d
  <2>5. Shape(d) /\ Asked(d, e, A)
    BY <1>3, <2>2, <2>4 DEF Core, Sound, Shape, Asked
  <2>6. Spare(d, e, A)
    BY <1>3, <2>2, <2>4 DEF Core, Sound, Spare, Shape, Shown, Newest, Good
  <2>7. Shown(d, e, A)
    BY <1>3, <2>2, <2>4 DEF Core, Sound, Spare, Shape, Shown, Fresh, Newest, Good
  <2> QED
    BY <2>1, <2>3, <2>4, <2>5, <2>6, <2>7 DEF Sound, Core, Kept
<1> QED
  BY <1>2, <1>3
\* Its own update, answered before every later one.
LEMMA OwnAppliedSound ==
  ASSUME NEW n \in Nat, NEW e \in Editors, NEW A, NEW c \in Recs(n),
         A \subseteq Poses(n), Sound(c, e, A), NEW m, NEW hot, m.revision \in Nat, m.revision > c.seen,
         c.known = e, m.pose \in c.ops, m.pose \in A,
         \A q \in c.ops : q = m.pose \/ m.pose[2] < q[2]
  PROVE  LET d == OnApplied(c, m, hot) IN
         /\ d \in Recs(n) /\ Sound(d, e, A)
         /\ d.stage = c.stage /\ d.known = c.known /\ d.seen = m.revision /\ d.last = m.pose
         /\ d.ops = c.ops \ {m.pose} /\ d.out = c.out
<1> DEFINE f == IF c.tracked THEN m.pose ELSE c.confirmed
           o == Overtaken(c, m)
           d == [Told(c, m) EXCEPT !.seen = m.revision, !.ops = @ \ {m.pose},
                                   !.confirmed = f, !.unseen = o]
<1>1. c.seen \in Nat /\ c.ops \subseteq Poses(n) /\ m.pose \in Poses(n) /\ c.pose \in Poses(n)
  BY DEF Recs
<1>2. OnApplied(c, m, hot) = d
  <2>1. ~(m.revision <= c.seen)
    BY <1>1
  <2> QED
    BY <2>1 DEF OnApplied, Told, Recs
<1>3. f \in Poses(n) \cup {NoPose}
  BY <1>1 DEF Recs
<1>4. o \in BOOLEAN /\ (~o => c.deferred = NoPose /\ c.pose[1] = m.pose[1])
  BY DEF Overtaken
<1>5. c.tracked => f = m.pose
  OBVIOUS
<1> HIDE DEF f, o
<1>6. d \in Recs(n)
  BY <1>1, <1>3, <1>4 DEF Told, Recs
<1>7. /\ d.stage = c.stage /\ d.known = c.known /\ d.seen = m.revision /\ d.last = m.pose
      /\ d.ops = c.ops \ {m.pose} /\ d.pose = c.pose /\ d.tracked = c.tracked /\ d.out = c.out
      /\ d.observed = c.observed /\ d.confirmed = f /\ d.unseen = o
      /\ d.blocked = c.blocked /\ d.protected = c.protected /\ d.granted = c.granted
      /\ d.deferred = c.deferred /\ d.recoverable = c.recoverable
  BY DEF Told, Recs
<1> HIDE DEF d
<1>8. m.pose[1] = e /\ \A q \in A \cup c.ops : q[2] \in Nat
  BY <1>1, PosesArePoses DEF Sound, Core, Asked
<1>9. c.stage = "ready"
  BY TransformAssumption DEF Sound, Core, Shape
<1>10. Asked(d, e, A)
  <2>1. \A x \in A : x[1] = e => x \in d.ops \/ \A q \in d.ops : x[2] < q[2]
    BY <1>7, <1>8 DEF Sound, Core, Asked
  <2> QED
    BY <1>7, <2>1 DEF Sound, Core, Asked
<1>11. Shape(d)
  BY <1>1, <1>5, <1>7, <1>9, PosesArePoses DEF Sound, Core, Shape
<1>12. ~d.unseen /\ ~d.protected => Good(d.pose, e, d, A)
  <2> SUFFICES ASSUME ~d.unseen, ~d.protected PROVE Good(d.pose, e, d, A)
    OBVIOUS
  <2>1. c.pose[1] = e /\ Newest(c.pose, e, c)
    BY <1>4, <1>7, <1>8 DEF Sound, Core, Shown
  <2>2. m.pose[2] <= c.pose[2]
    BY <2>1 DEF Newest
  <2>3. c.pose \in A => c.pose \in c.ops \/ c.pose[2] < m.pose[2]
    BY <2>1 DEF Sound, Core, Asked
  <2>4. c.pose \in A => c.pose \in c.ops
    BY <1>1, <1>8, <2>2, <2>3
  <2> QED
    BY <1>7, <2>1, <2>4 DEF Good
<1>13. Shown(d, e, A)
  BY <1>4, <1>5, <1>7, <1>12 DEF Sound, Core, Shown, Fresh, Newest, Good
<1>14. Sound(d, e, A)
  BY <1>7, <1>10, <1>11, <1>13 DEF Sound, Core, Spare
<1> QED
  BY <1>2, <1>6, <1>7, <1>14

\* The tracked object takes the value with its confirmed and its observed one.
LEMMA ShowEffect ==
  ASSUME NEW n \in Nat, NEW c \in Recs(n), NEW p \in Poses(n)
  PROVE  LET d == Show(c, p) IN
         /\ d \in Recs(n)
         /\ d.stage = c.stage /\ d.known = c.known /\ d.seen = c.seen /\ d.last = c.last
         /\ d.ops = c.ops /\ d.pose = p /\ d.tracked = c.tracked /\ d.out = c.out
         /\ c.tracked => d.observed = p /\ d.confirmed = p
         /\ d.unseen = c.unseen /\ d.touched = c.touched
         /\ d.blocked = c.blocked /\ d.protected = c.protected /\ d.granted = c.granted
         /\ d.deferred = c.deferred /\ d.recoverable = c.recoverable
<1> DEFINE w == c.dirty \/ c.pose # p
           a == [c EXCEPT !.pose = p, !.dirty = w]
           b == [a EXCEPT !.observed = p, !.confirmed = p]
<1>1. w \in BOOLEAN
  OBVIOUS
<1>2. Show(c, p) = IF c.tracked THEN b ELSE a
  BY DEF Show, ApplyRemote
<1> HIDE DEF w
<1>3. a \in Recs(n) /\ b \in Recs(n)
  BY <1>1 DEF Recs
<1>4. /\ a.stage = c.stage /\ a.known = c.known /\ a.seen = c.seen /\ a.last = c.last
      /\ a.ops = c.ops /\ a.pose = p /\ a.tracked = c.tracked /\ a.out = c.out
      /\ a.unseen = c.unseen /\ a.touched = c.touched
      /\ a.blocked = c.blocked /\ a.protected = c.protected /\ a.granted = c.granted
      /\ a.deferred = c.deferred /\ a.recoverable = c.recoverable
  BY DEF Recs
<1>5. /\ b.stage = c.stage /\ b.known = c.known /\ b.seen = c.seen /\ b.last = c.last
      /\ b.ops = c.ops /\ b.pose = p /\ b.tracked = c.tracked /\ b.out = c.out
      /\ b.unseen = c.unseen /\ b.touched = c.touched
      /\ b.observed = p /\ b.confirmed = p
      /\ b.blocked = c.blocked /\ b.protected = c.protected /\ b.granted = c.granted
      /\ b.deferred = c.deferred /\ b.recoverable = c.recoverable
  BY DEF Recs
<1> HIDE DEF a, b
<1> QED
  BY <1>2, <1>3, <1>4, <1>5

\* The update of another editor.
LEMMA ForeignAppliedSound ==
  ASSUME NEW n \in Nat, NEW e \in Editors, NEW A \in SUBSET Poses(n), NEW c \in Recs(n),
         Sound(c, e, A), NEW m, NEW hot, m.revision \in Nat, m.revision > c.seen,
         c.stage = "ready", m.pose \in A, m.pose[1] # e
  PROVE  LET d == OnApplied(c, m, hot) IN
         /\ d \in Recs(n) /\ Sound(d, e, A)
         /\ d.stage = c.stage /\ d.known = c.known /\ d.seen = m.revision /\ d.last = m.pose
         /\ d.ops = c.ops /\ d.out = c.out
<1> DEFINE t == [Told(c, m) EXCEPT !.seen = m.revision, !.ops = @ \ {m.pose}]
           f == [t EXCEPT !.deferred = m.pose]
           u == [t EXCEPT !.unseen = TRUE]
<1>1. c.seen \in Nat /\ m.pose \notin c.ops /\ m.pose \in Poses(n) /\ m.pose # NoPose
  BY PosesArePoses DEF Recs, Sound, Core, Asked
<1>2. OnApplied(c, m, hot) = IF ~c.protected THEN Show(t, m.pose)
                             ELSE IF c.recoverable THEN TryRecover(f, hot) ELSE u
  <2>1. ~(m.revision <= c.seen)
    BY <1>1
  <2> QED
    BY <1>1, <2>1 DEF OnApplied
<1>3. t \in Recs(n)
  BY <1>1 DEF Told, Recs
<1>4. /\ t.stage = c.stage /\ t.known = c.known /\ t.seen = m.revision /\ t.last = m.pose
      /\ t.ops = c.ops /\ t.pose = c.pose /\ t.tracked = c.tracked /\ t.out = c.out
      /\ t.observed = c.observed /\ t.confirmed = c.confirmed /\ ~t.unseen
      /\ t.blocked = c.blocked /\ t.protected = c.protected /\ t.granted = c.granted
      /\ t.deferred = c.deferred /\ t.recoverable = c.recoverable
  BY <1>1 DEF Told, Recs
<1> HIDE DEF t
<1>5. Asked(t, e, A)
  BY <1>1, <1>4 DEF Sound, Core, Asked
<1>6. CASE ~c.protected
  <2> DEFINE d == Show(t, m.pose)
  <2>1. /\ d \in Recs(n)
        /\ d.stage = t.stage /\ d.known = t.known /\ d.seen = t.seen /\ d.last = t.last
        /\ d.ops = t.ops /\ d.pose = m.pose /\ d.tracked = t.tracked /\ d.out = t.out
        /\ t.tracked => d.observed = m.pose /\ d.confirmed = m.pose
        /\ d.unseen = t.unseen
        /\ d.blocked = t.blocked /\ d.protected = t.protected /\ d.granted = t.granted
        /\ d.deferred = t.deferred /\ d.recoverable = t.recoverable
    BY <1>1, <1>3, ShowEffect
  <2> HIDE DEF d
  <2>2. Asked(d, e, A)
    BY <1>5, <2>1 DEF Asked
  <2>3. Sound(d, e, A)
    BY <1>1, <1>4, <1>6, <2>1, <2>2 DEF Sound, Core, Shape, Shown, Spare, Fresh, Newest, Good
  <2> QED
    BY <1>2, <1>4, <1>6, <2>1, <2>3 DEF d
<1>7. CASE c.protected /\ c.recoverable
  <2>1. f \in Recs(n)
    BY <1>1, <1>3 DEF Recs
  <2>2. /\ f.stage = t.stage /\ f.known = t.known /\ f.seen = t.seen /\ f.last = t.last
        /\ f.ops = t.ops /\ f.pose = t.pose /\ f.tracked = t.tracked /\ f.out = t.out
        /\ f.observed = t.observed /\ f.confirmed = t.confirmed /\ f.unseen = t.unseen
        /\ f.blocked = t.blocked /\ f.protected = t.protected /\ f.granted = t.granted
        /\ f.deferred = m.pose /\ f.recoverable = t.recoverable
    BY <1>3 DEF Recs
  <2> HIDE DEF f
  <2>3. Asked(f, e, A)
    BY <1>5, <2>2 DEF Asked
  <2>4. Sound(f, e, A)
    BY <1>1, <1>4, <1>7, <2>2, <2>3 DEF Sound, Core, Shape, Shown, Spare, Fresh, Newest, Good
  <2>5. LET d == TryRecover(f, hot) IN
        d \in Recs(n) /\ Sound(d, e, A) /\ Stays(f, d) /\ d.ops = f.ops /\ d.out = f.out
    BY <2>1, <2>4, RecoverSound
  <2> QED
    BY <1>2, <1>4, <1>7, <2>2, <2>5 DEF Stays
<1>8. CASE c.protected /\ ~c.recoverable
  <2>1. u \in Recs(n)
    BY <1>1, <1>3 DEF Recs
  <2>2. /\ u.stage = t.stage /\ u.known = t.known /\ u.seen = t.seen /\ u.last = t.last
        /\ u.ops = t.ops /\ u.pose = t.pose /\ u.tracked = t.tracked /\ u.out = t.out
        /\ u.observed = t.observed /\ u.confirmed = t.confirmed /\ u.unseen
        /\ u.blocked = t.blocked /\ u.protected = t.protected /\ u.granted = t.granted
        /\ u.deferred = t.deferred /\ u.recoverable = t.recoverable
    BY <1>3 DEF Recs
  <2> HIDE DEF u
  <2>3. Asked(u, e, A)
    BY <1>5, <2>2 DEF Asked
  <2>4. Sound(u, e, A)
    BY <1>1, <1>4, <1>8, <2>2, <2>3 DEF Sound, Core, Shape, Shown, Spare, Fresh, Newest, Good
  <2> QED
    BY <1>2, <1>4, <1>8, <2>1, <2>2, <2>4
<1> QED
  BY <1>6, <1>7, <1>8
\* An update the session refused.
LEMMA RefusedSound ==
  ASSUME NEW n \in Nat, NEW e \in Editors, NEW A, NEW c \in Recs(n), Sound(c, e, A),
         c.stage = "ready", Mute(c.out), NEW m, NEW hot, m.pose \in c.ops, m.pose \notin A
  PROVE  LET d == OnRefused(c, m, hot) IN
         /\ d \in Recs(n) /\ Sound(d, e, A) /\ Mute(d.out)
         /\ d.stage = c.stage /\ d.known = c.known /\ d.seen = c.seen /\ d.last = c.last
         /\ d.ops = c.ops \ {m.pose}
<1> DEFINE b == c.blocked \/ c.tracked
           k == [MarkLockRequired(c) EXCEPT !.ops = @ \ {m.pose}, !.blocked = b]
           g == [k EXCEPT !.granted = FALSE]
           r == IF c.granted THEN Send(g, LockRelease) ELSE k
<1>1. OnRefused(c, m, hot) = TryRecover(r, hot)
  BY DEF OnRefused, MarkLockRequired, Recs
<1>2. b \in BOOLEAN /\ (c.tracked => b)
  OBVIOUS
<1> HIDE DEF b
<1>3. k \in Recs(n)
  BY <1>2 DEF MarkLockRequired, Recs
<1>4. /\ k.stage = c.stage /\ k.known = c.known /\ k.seen = c.seen /\ k.last = c.last
      /\ k.ops = c.ops \ {m.pose} /\ k.pose = c.pose /\ k.tracked = c.tracked /\ k.out = c.out
      /\ k.observed = c.observed /\ k.confirmed = c.confirmed /\ k.unseen = c.unseen
      /\ k.blocked = b /\ k.protected /\ k.recoverable /\ k.granted = c.granted
      /\ k.deferred = c.deferred
  BY DEF MarkLockRequired, Recs
<1> HIDE DEF k
<1>5. g \in Recs(n)
  BY <1>3 DEF Recs
<1>6. /\ g.stage = k.stage /\ g.known = k.known /\ g.seen = k.seen /\ g.last = k.last
      /\ g.ops = k.ops /\ g.pose = k.pose /\ g.tracked = k.tracked /\ g.out = k.out
      /\ g.observed = k.observed /\ g.confirmed = k.confirmed /\ g.unseen = k.unseen
      /\ g.blocked = k.blocked /\ g.protected = k.protected /\ ~g.granted
      /\ g.recoverable = k.recoverable /\ g.deferred = k.deferred
  BY <1>3 DEF Recs
<1> HIDE DEF g
<1>7. Asked(k, e, A)
  BY <1>4 DEF Sound, Core, Asked
<1>8. Core(k, e, A) /\ Spare(k, e, A)
  <2>1. Shape(k)
    BY <1>2, <1>4 DEF Sound, Core, Shape
  <2>2. m.pose[1] = e
    BY DEF Sound, Core, Asked
  <2>3. \A x : Good(x, e, c, A) => Good(x, e, k, A)
    BY <1>4, <2>2 DEF Good
  <2>4. Shown(k, e, A)
    BY <1>2, <1>4, <2>3 DEF Sound, Core, Shown
  <2> QED
    BY <1>4, <1>7, <2>1, <2>4 DEF Core, Spare
<1>9. Sound(g, e, A)
  BY <1>6, <1>8 DEF Core, Sound, Spare, Shape, Asked, Shown, Fresh, Newest, Good
<1>10. r \in Recs(n) /\ Sound(r, e, A) /\ Stays(c, r) /\ r.ops = k.ops /\ Mute(r.out)
  <2>1. CASE c.granted
    BY <1>4, <1>5, <1>6, <1>9, <2>1, WordSound DEF Stays
  <2>2. CASE ~c.granted
    BY <1>3, <1>4, <1>8, <2>2 DEF Stays, Sound
  <2> QED
    BY <2>1, <2>2
<1> HIDE DEF r
<1>11. LET d == TryRecover(r, hot) IN
       d \in Recs(n) /\ Sound(d, e, A) /\ Stays(r, d) /\ d.ops = r.ops /\ d.out = r.out
  BY <1>10, RecoverSound
<1> QED
  BY <1>1, <1>4, <1>10, <1>11 DEF Stays

\* The first snapshot, which gives the object its value or is left alone.
LEMMA HierarchySnapshotSound ==
  ASSUME NEW n \in Nat, NEW e \in Editors, NEW A, NEW c \in Recs(n), Sound(c, e, A),
         c.stage = "hello", Mute(c.out), NEW m, m.pose \in Poses(n), m.pose \in A
  PROVE  LET d == OnHierarchySnapshot(c, e, m) IN
         /\ d \in Recs(n) /\ Sound(d, e, A) /\ Mute(d.out) /\ d.ops = {}
         /\ d.known = NoEditor /\ d.seen = 0
         /\ \/ d.stage = "refused"
            \/ d.stage = "hierarchy" /\ d.last = m.pose
<1>1. ~c.tracked /\ c.ops = {} /\ c.known = NoEditor /\ c.seen = 0 /\ ~c.granted
  BY DEF Sound, Core, Shape
<1>2. CASE DirtySceneDiffers(c, m.pose)
  <2> DEFINE d == [c EXCEPT !.stage = "refused"]
  <2>1. OnHierarchySnapshot(c, e, m) = d
    BY <1>2 DEF OnHierarchySnapshot
  <2>2. d \in Recs(n)
    BY DEF Recs
  <2>3. /\ d.stage = "refused" /\ d.known = c.known /\ d.seen = c.seen /\ d.last = c.last
        /\ d.ops = c.ops /\ d.pose = c.pose /\ d.tracked = c.tracked /\ d.out = c.out
        /\ d.observed = c.observed /\ d.confirmed = c.confirmed /\ d.unseen = c.unseen
        /\ d.blocked = c.blocked /\ d.protected = c.protected /\ d.granted = c.granted
        /\ d.recoverable = c.recoverable /\ d.deferred = c.deferred
    BY DEF Recs
  <2> HIDE DEF d
  <2>4. Sound(d, e, A)
    BY <1>1, <2>3 DEF Core, Sound, Spare, Shape, Asked, Shown, Fresh, Newest, Good
  <2> QED
    BY <1>1, <2>1, <2>2, <2>3, <2>4
<1>3. CASE ~DirtySceneDiffers(c, m.pose)
  <2> DEFINE w == c.dirty \/ c.pose # m.pose
             d == [c EXCEPT !.last = m.pose, !.unseen = FALSE, !.pose = m.pose, !.dirty = w,
                            !.stage = "hierarchy"]
  <2>1. OnHierarchySnapshot(c, e, m) = BeginTracking(d, e, TRUE)
    BY <1>1, <1>3
       DEF OnHierarchySnapshot, ResumeTracking, ApplyObject, ApplyRemote, Told, Recs
  <2>2. w \in BOOLEAN
    OBVIOUS
  <2> HIDE DEF w
  <2>3. d \in Recs(n)
    BY <2>2 DEF Recs
  <2>4. /\ d.stage = "hierarchy" /\ d.known = c.known /\ d.seen = c.seen /\ d.last = m.pose
        /\ d.ops = c.ops /\ d.pose = m.pose /\ d.tracked = c.tracked /\ d.out = c.out
        /\ d.observed = c.observed /\ d.confirmed = c.confirmed /\ ~d.unseen
        /\ d.blocked = c.blocked /\ d.protected = c.protected /\ d.granted = c.granted
        /\ d.recoverable = c.recoverable /\ d.deferred = c.deferred
    BY DEF Recs
  <2> HIDE DEF d
  <2>5. Sound(d, e, A)
    BY <1>1, <2>4 DEF Core, Sound, Spare, Shape, Asked, Shown, Fresh, Newest, Good
  <2>6. LET b == BeginTracking(d, e, TRUE) IN
        /\ b \in Recs(n) /\ Sound(b, e, A)
        /\ Stays(d, b) /\ b.ops = d.ops /\ (Mute(d.out) => Mute(b.out))
    BY <2>3, <2>5, BeginSound
  <2> QED
    BY <1>1, <2>1, <2>4, <2>6 DEF Stays
<1> QED
  BY <1>2, <1>3

\* The second snapshot, with the lock as it was then.
LEMMA SnapshotSound ==
  ASSUME NEW n \in Nat, NEW e \in Editors, NEW A, NEW c \in Recs(n),
         Sound(c, e, A), c.stage = "hierarchy", Mute(c.out), NEW m, NEW hot,
         m.pose = c.last, m.revision \in Nat, m.owner \in Users, m.owner # e
  PROVE  LET d == OnSnapshot(c, e, m, hot) IN
         /\ d \in Recs(n) /\ Sound(d, e, A) /\ Mute(d.out) /\ d.ops = c.ops
         /\ d.stage = "ready" /\ d.known = m.owner /\ d.seen = m.revision /\ d.last = m.pose
<1> DEFINE k == [Unmark(Told(c, m)) EXCEPT !.stage = "ready", !.known = m.owner,
                                           !.touched = FALSE, !.seen = m.revision]
           b == c.blocked \/ c.tracked
           p == [k EXCEPT !.protected = TRUE, !.blocked = b]
           s == IF m.revision = 0 THEN k
                ELSE IF c.touched /\ c.pose # m.pose THEN p
                ELSE Show(k, m.pose)
<1>1. m.pose \in A /\ m.pose \in Poses(n) /\ m.pose # NoPose
  BY PosesArePoses DEF Sound, Core, Asked, Recs
<1>2. k \in Recs(n)
  BY <1>1 DEF Unmark, Told, Recs
<1>3. /\ k.stage = "ready" /\ k.known = m.owner /\ k.seen = m.revision /\ k.last = m.pose
      /\ k.ops = c.ops /\ k.pose = c.pose /\ k.tracked = c.tracked /\ k.out = c.out
      /\ k.observed = c.observed /\ k.confirmed = c.confirmed /\ ~k.unseen
      /\ k.blocked = c.blocked /\ ~k.protected /\ k.granted = c.granted
      /\ k.deferred = NoPose
  BY DEF Unmark, Told, Recs
<1>4. b \in BOOLEAN /\ (c.tracked => b)
  OBVIOUS
<1>5. OnSnapshot(c, e, m, hot) = RefreshLock(s, e, hot)
  <2>1. k.blocked = c.blocked /\ k.tracked = c.tracked
    BY <1>3
  <2>2. p = [k EXCEPT !.protected = TRUE, !.blocked = @ \/ c.tracked]
    BY <1>2, <2>1 DEF Recs
  <2> QED
    BY <2>2 DEF OnSnapshot
<1> HIDE DEF k, b
<1>6. /\ c.ops = {} /\ c.known = NoEditor /\ ~c.protected /\ ~c.unseen /\ ~c.blocked
      /\ c.deferred = NoPose /\ c.known # e
  BY TransformAssumption DEF Sound, Core, Shape
<1>7. k.ops = {}
  BY <1>3, <1>6
<1>8. Core(k, e, A) /\ (k.known = NoEditor => Spare(k, e, A))
  BY <1>1, <1>3, <1>6 DEF Sound, Core, Spare, Shape, Asked, Shown, Fresh, Newest, Good
<1>9. /\ s \in Recs(n) /\ Core(s, e, A) /\ (s.known = NoEditor => Spare(s, e, A))
      /\ Stays(k, s) /\ s.ops = {} /\ s.out = c.out
  <2>1. CASE m.revision = 0
    BY <1>2, <1>3, <1>7, <1>8, <2>1 DEF Stays
  <2>2. CASE m.revision # 0 /\ c.touched /\ c.pose # m.pose
    <3>1. p \in Recs(n)
      BY <1>2, <1>4 DEF Recs
    <3>2. /\ p.stage = k.stage /\ p.known = k.known /\ p.seen = k.seen /\ p.last = k.last
          /\ p.ops = k.ops /\ p.pose = k.pose /\ p.tracked = k.tracked /\ p.out = k.out
          /\ p.observed = k.observed /\ p.confirmed = k.confirmed /\ p.unseen = k.unseen
          /\ p.blocked = b /\ p.protected /\ p.granted = k.granted
          /\ p.deferred = k.deferred
      BY <1>2 DEF Recs
    <3> HIDE DEF p
    <3>3. Core(p, e, A) /\ Spare(p, e, A) /\ Stays(k, p)
      BY <1>3, <1>4, <1>8, <3>2
         DEF Core, Spare, Shape, Asked, Shown, Stays, Fresh, Newest, Good
    <3>4. s = p
      BY <2>2
    <3> QED
      BY <1>3, <1>7, <3>1, <3>2, <3>3, <3>4
  <2>3. CASE m.revision # 0 /\ ~(c.touched /\ c.pose # m.pose)
    <3> DEFINE d == Show(k, m.pose)
    <3>1. /\ d \in Recs(n)
          /\ d.stage = k.stage /\ d.known = k.known /\ d.seen = k.seen /\ d.last = k.last
          /\ d.ops = k.ops /\ d.pose = m.pose /\ d.tracked = k.tracked /\ d.out = k.out
          /\ k.tracked => d.observed = m.pose /\ d.confirmed = m.pose
          /\ d.unseen = k.unseen
          /\ d.blocked = k.blocked /\ d.protected = k.protected /\ d.granted = k.granted
          /\ d.deferred = k.deferred
      BY <1>1, <1>2, ShowEffect
    <3>2. s = d
      BY <2>3
    <3> HIDE DEF d, s
    <3>3. Core(d, e, A) /\ Spare(d, e, A) /\ Stays(k, d)
      BY <1>1, <1>3, <1>7, <1>8, <3>1
         DEF Core, Spare, Shape, Asked, Shown, Stays, Fresh, Newest, Good
    <3> QED
      BY <1>3, <1>7, <3>1, <3>2, <3>3
  <2> QED
    BY <2>1, <2>2, <2>3
<1> HIDE DEF s
<1>10. s.stage = "ready" /\ Mute(s.out)
  BY <1>3, <1>9 DEF Stays
<1>11. LET d == RefreshLock(s, e, hot) IN
       d \in Recs(n) /\ Sound(d, e, A) /\ Stays(s, d) /\ d.ops = s.ops /\ Mute(d.out)
  BY <1>9, <1>10, RefreshSound
<1> QED
  BY <1>3, <1>5, <1>6, <1>9, <1>11 DEF Stays
-----------------------------------------------------------------------------
(* The rest of what an editor does, and what the session does to its record. *)

\* What the selection and the state of the Scene say is apart from all this.
Selected(c) == [c EXCEPT !.selected = TRUE]
Unselected(c) == [c EXCEPT !.selected = FALSE]
Saved(c) == [c EXCEPT !.dirty = FALSE]

\* What a user selects and whether the Scene is saved is not about the session.
LEMMA AsideSound ==
  ASSUME NEW n \in Nat, NEW e, NEW A, NEW c \in Recs(n), Sound(c, e, A),
         NEW d \in {Selected(c), Unselected(c), Saved(c)}
  PROVE  d \in Recs(n) /\ Sound(d, e, A) /\ Stays(c, d) /\ d.ops = c.ops /\ d.out = c.out
<1>1. d \in Recs(n)
  <2>1. /\ Selected(c) \in Recs(n) /\ Unselected(c) \in Recs(n) /\ Saved(c) \in Recs(n)
    BY DEF Selected, Unselected, Saved, Recs
  <2> QED
    BY <2>1
<1>2. /\ d.stage = c.stage /\ d.known = c.known /\ d.seen = c.seen /\ d.last = c.last
      /\ d.ops = c.ops /\ d.pose = c.pose /\ d.tracked = c.tracked /\ d.granted = c.granted
      /\ d.observed = c.observed /\ d.confirmed = c.confirmed /\ d.blocked = c.blocked
      /\ d.protected = c.protected /\ d.recoverable = c.recoverable
      /\ d.deferred = c.deferred /\ d.unseen = c.unseen /\ d.out = c.out
  BY DEF Selected, Unselected, Saved, Recs
<1>3. Sound(d, e, A) /\ Stays(c, d)
  BY <1>2 DEF Core, Sound, Spare, Shape, Asked, Shown, Stays, Fresh, Newest, Good
<1> QED
  BY <1>1, <1>2, <1>3

\* A frame of the selected object sends at most one update, of its newest edit.
LEMMA FrameSound ==
  ASSUME NEW n \in Nat, NEW e \in Editors, NEW A \in SUBSET Poses(n), NEW c \in Recs(n),
         Sound(c, e, A), Mute(c.out), c.tracked, NEW late, NEW hot
  PROVE  LET d == Frames(c, e, late, hot) IN
         d \in Recs(n) /\ Sound(d, e, A) /\ Stays(c, d) /\ Says(c, d, e, A)
<1>1. CASE c.blocked
  <2>1. Frames(c, e, late, hot) = TryRecover(c, hot)
    BY <1>1 DEF Frames
  <2> QED
    BY <2>1, RecoverSound DEF Says
<1>2. CASE ~c.blocked /\ c.granted
  <2>1. Frames(c, e, late, hot) = TrySend(c, late)
    BY <1>2 DEF Frames
  <2> QED
    BY <2>1, TrySendSound
<1>3. CASE ~c.blocked /\ ~c.granted /\ Changed(c) /\ Foreign(c, e)
  <2> DEFINE w == c.dirty \/ c.pose # c.observed
             d == [c EXCEPT !.pose = c.observed, !.dirty = w]
  <2>1. Frames(c, e, late, hot) = d
    BY <1>3 DEF Frames, ApplyRemote
  <2>2. w \in BOOLEAN
    OBVIOUS
  <2> HIDE DEF w
  <2>3. d \in Recs(n)
    BY <2>2 DEF Sound, Core, Shape, Recs
  <2>4. /\ d.stage = c.stage /\ d.known = c.known /\ d.seen = c.seen /\ d.last = c.last
        /\ d.ops = c.ops /\ d.pose = c.observed /\ d.tracked = c.tracked
        /\ d.granted = c.granted /\ d.out = c.out
        /\ d.observed = c.observed /\ d.confirmed = c.confirmed /\ d.blocked = c.blocked
        /\ d.protected = c.protected /\ d.recoverable = c.recoverable
        /\ d.deferred = c.deferred /\ d.unseen = c.unseen
    BY DEF Recs
  <2>5. c.known # e /\ ~c.protected
    BY <1>3 DEF Foreign, Sound, Core, Shape
  <2> HIDE DEF d
  <2>6. Sound(d, e, A) /\ Stays(c, d)
    BY <1>3, <2>4, <2>5
       DEF Core, Sound, Spare, Shape, Asked, Shown, Stays, Fresh, Newest, Good
  <2> QED
    BY <2>1, <2>3, <2>4, <2>6 DEF Says
<1>4. CASE ~c.blocked /\ ~c.granted /\ ~(Changed(c) /\ Foreign(c, e))
  <2>1. Frames(c, e, late, hot) = c \/ Frames(c, e, late, hot) = SendLockRequest(c, e)
    BY <1>4 DEF Frames
  <2> QED
    BY <2>1, RequestSound DEF Says, Stays
<1> QED
  BY <1>1, <1>2, <1>3, <1>4

Edited(c, p, t) == [c EXCEPT !.pose = p, !.dirty = TRUE, !.touched = t]

\* An edit is later than everything its editor made before.
LEMMA EditSound ==
  ASSUME NEW n \in Nat, NEW e \in Editors, NEW A \in SUBSET Poses(n), NEW c \in Recs(n),
         Sound(c, e, A), NEW t \in BOOLEAN
  PROVE  LET d == Edited(c, <<e, n + 1>>, t) IN
         d \in Recs(n + 1) /\ Sound(d, e, A) /\ Stays(c, d) /\ d.ops = c.ops /\ d.out = c.out
<1> DEFINE p == <<e, n + 1>>
           d == Edited(c, p, t)
<1>1. p \in Poses(n + 1) /\ p[1] = e /\ p[2] = n + 1
  BY DEF Poses, Users
<1> HIDE DEF p
<1>2. c \in Recs(n + 1)
  BY PosesGrow
<1>3. d \in Recs(n + 1)
  BY <1>1, <1>2 DEF Recs, Edited
<1>4. /\ d.stage = c.stage /\ d.known = c.known /\ d.seen = c.seen /\ d.last = c.last
      /\ d.ops = c.ops /\ d.pose = p /\ d.tracked = c.tracked /\ d.granted = c.granted
      /\ d.observed = c.observed /\ d.confirmed = c.confirmed /\ d.blocked = c.blocked
      /\ d.protected = c.protected /\ d.recoverable = c.recoverable
      /\ d.deferred = c.deferred /\ d.unseen = c.unseen /\ d.out = c.out
  BY DEF Recs, Edited
<1>5. \A y \in A \cup c.ops : y[2] \in 0 .. n
  BY PosesArePoses DEF Recs
<1>6. /\ \A y \in A \cup c.ops : y[2] < p[2]
      /\ \A y \in c.ops : y[2] <= p[2]
      /\ p \notin A
  BY <1>1, <1>5
<1> HIDE DEF d
<1>7. Sound(d, e, A) /\ Stays(c, d)
  BY <1>1, <1>4, <1>6 DEF Core, Sound, Spare, Shape, Asked, Shown, Stays, Fresh, Newest, Good
<1> QED
  BY <1>3, <1>4, <1>7 DEF p, d

\* A lost connection leaves the Scene and nothing of the session.
LEMMA GoneSound ==
  ASSUME NEW n \in Nat, NEW e \in Editors, NEW A, NEW c \in Recs(n), Base \in A
  PROVE  LET d == Gone(c) IN
         d \in Recs(n) /\ Sound(d, e, A) /\ d.ops = {} /\ d.stage = "off" /\ d.known = NoEditor
<1> DEFINE d == Gone(c)
<1>1. Base \in Poses(n) /\ NoEditor \in Users /\ 0 \in Nat
  BY DEF Base, Poses, Users
<1>2. d \in Recs(n)
  BY <1>1 DEF Gone, ResetTracking, NoHold, Unmark, Recs
<1>3. /\ d.stage = "off" /\ d.known = NoEditor /\ d.seen = 0 /\ d.last = Base
      /\ d.ops = {} /\ ~d.tracked /\ ~d.granted /\ ~d.blocked
      /\ ~d.protected /\ d.deferred = NoPose /\ ~d.unseen
  BY DEF Gone, ResetTracking, NoHold, Unmark, Recs
<1> HIDE DEF d
<1>4. Sound(d, e, A)
  BY <1>3 DEF Core, Sound, Spare, Shape, Asked, Shown, Newest
<1> QED
  BY <1>2, <1>3, <1>4 DEF d

\* The session takes a pose: its maker waits for the answer, or has gone.
LEMMA TakenSound ==
  ASSUME NEW n \in Nat, NEW e \in Editors, NEW A, NEW c \in Recs(n), Sound(c, e, A),
         NEW p, p[1] = e => p \in c.ops \/ c.stage = "off", p \notin c.ops \/ p[1] = e
  PROVE  Sound(c, e, A \cup {p})
<1>1. c.stage = "off" => ~c.tracked /\ c.ops = {}
  BY DEF Sound, Core, Shape
<1>2. CASE c.stage = "off"
  BY <1>1, <1>2 DEF Core, Sound, Spare, Shape, Asked, Shown, Fresh, Newest, Good
<1>3. CASE c.stage # "off"
  <2>1. \A x : Good(x, e, c, A) => Good(x, e, c, A \cup {p})
    BY <1>3 DEF Good
  <2>2. \A x : Fresh(x, e, c, A) => Fresh(x, e, c, A \cup {p})
    BY <1>3 DEF Fresh
  <2>3. Asked(c, e, A \cup {p})
    BY <1>3 DEF Asked, Sound, Core
  <2> QED
    BY <2>1, <2>2, <2>3 DEF Core, Sound, Spare, Shown
<1> QED
  BY <1>2, <1>3
-----------------------------------------------------------------------------
(* Sequences, one message longer or shorter.                                 *)

\* A sequence after Append, element by element.
LEMMA Appended ==
  ASSUME NEW S, NEW s \in Seq(S), NEW m \in S
  PROVE  LET t == Append(s, m) IN
         /\ t \in Seq(S) /\ Len(t) = Len(s) + 1 /\ t # << >>
         /\ DOMAIN t = DOMAIN s \cup {Len(s) + 1} /\ t[Len(s) + 1] = m
         /\ \A i \in DOMAIN s : t[i] = s[i] /\ i \in 1 .. Len(s) /\ i < Len(s) + 1
         /\ s = << >> => Len(s) = 0
         /\ s # << >> => t[1] = s[1] /\ Len(s) >= 1
         /\ Len(s) >= 2 => t[2] = s[2]
OBVIOUS

\* A sequence after Tail, element by element.
LEMMA Tailed ==
  ASSUME NEW S, NEW s \in Seq(S), s # << >>
  PROVE  LET t == Tail(s) IN
         /\ t \in Seq(S) /\ Len(t) = Len(s) - 1 /\ 1 \in DOMAIN s /\ Head(s) = s[1] /\ s[1] \in S
         /\ \A i \in DOMAIN t : /\ i \in Nat /\ i >= 1 /\ i + 1 \in DOMAIN s /\ t[i] = s[i + 1]
         /\ \A i \in DOMAIN s : i \in Nat /\ (i = 1 \/ (i > 1 /\ i - 1 \in DOMAIN t /\ t[i - 1] = s[i]))
         /\ Len(s) >= 2 => t[1] = s[2]
OBVIOUS

\* Two sequences joined, element by element.
LEMMA Joined ==
  ASSUME NEW S, NEW s \in Seq(S), NEW r \in Seq(S)
  PROVE  LET t == s \o r IN
         /\ t \in Seq(S)
         /\ \A i \in DOMAIN s : i \in DOMAIN t /\ t[i] = s[i] /\ i \in 1 .. Len(s)
         /\ \A i \in DOMAIN r : i \in Nat /\ i > 0 /\ Len(s) + i \in DOMAIN t /\ t[Len(s) + i] = r[i]
         /\ \A i \in DOMAIN t : /\ i \in Nat
                                /\ i \in DOMAIN s \/ (i > Len(s) /\ i - Len(s) \in DOMAIN r)
OBVIOUS

-----------------------------------------------------------------------------
(* Induction, as a statement about a set of numbers.                         *)

\* A set of naturals that is not empty has a least element.
LEMMA LeastNat ==
  ASSUME NEW T \in SUBSET Nat, T # {}
  PROVE  \E x \in T : \A y \in T : x <= y
<1>1. \E R : IsWellFoundedOn(R, Nat) /\ \A x, y \in Nat : x < y => <<x, y>> \in R
  <2> DEFINE less == OpToRel(<, Nat)
  <2>1. IsWellFoundedOn(less, Nat) /\ \A x, y \in Nat : x < y => <<x, y>> \in less
    BY NatLessThanWellFounded DEF OpToRel
  <2> HIDE DEF less
  <2> QED
    BY <2>1
<1>2. PICK R : IsWellFoundedOn(R, Nat) /\ \A x, y \in Nat : x < y => <<x, y>> \in R
  BY <1>1
<1>3. PICK x \in T : \A y \in T : ~ (<<y, x>> \in R)
  <2>1. IsWellFoundedOn(R, Nat) /\ T \subseteq Nat /\ T # {}
    BY <1>2
  <2> QED
    BY <2>1, WFMin
<1>4. \A y \in T : y \in Nat /\ ~(y < x)
  BY <1>2, <1>3
<1> QED
  BY <1>4

\* Induction over an interval, in the form of a set.
LEMMA UpTo ==
  ASSUME NEW n \in Nat, NEW T, 0 \in T, \A i \in 0 .. n : i < n /\ i \in T => i + 1 \in T
  PROVE  \A i \in 0 .. n : i \in T
<1> SUFFICES ASSUME (0 .. n) \ T # {}
             PROVE  FALSE
  OBVIOUS
<1>1. (0 .. n) \ T \in SUBSET Nat
  OBVIOUS
<1>2. PICK x \in (0 .. n) \ T : \A y \in (0 .. n) \ T : x <= y
  BY <1>1, LeastNat
<1>3. x # 0 /\ x - 1 \in 0 .. n /\ x - 1 < n
  BY <1>2
<1>4. x - 1 \in T
  BY <1>2, <1>3
<1> QED
  BY <1>2, <1>3, <1>4

-----------------------------------------------------------------------------
(* The mirror of the lock along a wire.                                      *)

IsReading(f, o, s, n) ==
  f = [i \in 0 .. n |-> IF i = 0 THEN o ELSE Mirrored(f[i - 1], s[i])]

\* The recursion that defines Reads has a solution at every length.
LEMMA ReadingExists ==
  ASSUME NEW o, NEW s, NEW n \in Nat
  PROVE  \E f : IsReading(f, o, s, n)
<1> DEFINE T == {m \in 0 .. n : \E f : IsReading(f, o, s, m)}
<1>1. 0 \in T
  <2>1. IsReading([i \in 0 .. 0 |-> o], o, s, 0)
    BY DEF IsReading
  <2> QED
    BY <2>1
<1>2. ASSUME NEW m \in 0 .. n, m < n, m \in T
      PROVE  m + 1 \in T
  <2>1. PICK f : IsReading(f, o, s, m)
    BY <1>2
  <2> DEFINE g == [i \in 0 .. (m + 1) |-> IF i = m + 1 THEN Mirrored(f[m], s[m + 1]) ELSE f[i]]
  <2>2. IsReading(g, o, s, m + 1)
    BY <2>1 DEF IsReading
  <2> QED
    BY <1>2, <2>2
<1> HIDE DEF T
<1>3. n \in T
  BY <1>1, <1>2, UpTo
<1> QED
  BY <1>3 DEF T

\* What is read starts as it was and changes with each message.
LEMMA ReadsDef ==
  ASSUME NEW o, NEW S, NEW s \in Seq(S)
  PROVE  /\ Reads(o, s)[0] = o
         /\ \A i \in 1 .. Len(s) : Reads(o, s)[i] = Mirrored(Reads(o, s)[i - 1], s[i])
<1>1. Reads(o, s) = CHOOSE f : IsReading(f, o, s, Len(s))
  BY DEF Reads, IsReading
<1>2. Len(s) \in Nat
  OBVIOUS
<1>3. IsReading(Reads(o, s), o, s, Len(s))
  BY <1>1, <1>2, ReadingExists
<1> HIDE DEF Reads
<1> QED
  BY <1>2, <1>3 DEF IsReading

\* A message at the end of a wire is read last.
LEMMA ReadsAppend ==
  ASSUME NEW o, NEW S, NEW s \in Seq(S), NEW m \in S
  PROVE  LET t == Append(s, m) IN
         /\ \A i \in 0 .. Len(s) : Reads(o, t)[i] = Reads(o, s)[i]
         /\ Reads(o, t)[Len(t)] = Mirrored(Reads(o, s)[Len(s)], m)
<1> DEFINE t == Append(s, m)
           T == {i \in 0 .. Len(s) : Reads(o, t)[i] = Reads(o, s)[i]}
<1>1. /\ t \in Seq(S) /\ Len(t) = Len(s) + 1 /\ t[Len(s) + 1] = m /\ Len(s) \in Nat
      /\ \A i \in 1 .. Len(s) : t[i] = s[i]
  OBVIOUS
<1> HIDE DEF t
<1>2. 0 \in T
  BY <1>1, ReadsDef
<1>3. ASSUME NEW i \in 0 .. Len(s), i < Len(s), i \in T
      PROVE  i + 1 \in T
  <2>1. i + 1 \in 1 .. Len(s) /\ i + 1 \in 1 .. Len(t) /\ (i + 1) - 1 = i
    BY <1>1, <1>3
  <2>2. Reads(o, s)[i + 1] = Mirrored(Reads(o, s)[i], s[i + 1])
    BY <2>1, ReadsDef
  <2>3. Reads(o, t)[i + 1] = Mirrored(Reads(o, t)[i], t[i + 1])
    BY <1>1, <2>1, ReadsDef
  <2> QED
    BY <1>1, <1>3, <2>1, <2>2, <2>3
<1> HIDE DEF T
<1>4. \A i \in 0 .. Len(s) : i \in T
  BY <1>1, <1>2, <1>3, UpTo
<1>5. \A i \in 0 .. Len(s) : Reads(o, t)[i] = Reads(o, s)[i]
  BY <1>4 DEF T
<1>6. Len(t) \in 1 .. Len(t) /\ Len(t) - 1 = Len(s) /\ Len(s) \in 0 .. Len(s)
  BY <1>1
<1>7. Reads(o, t)[Len(t)] = Mirrored(Reads(o, t)[Len(s)], t[Len(t)])
  BY <1>1, <1>6, ReadsDef
<1> QED
  BY <1>1, <1>5, <1>6, <1>7 DEF t

\* Reading a wire from its second message on, with what the first one said.
LEMMA ReadsTail ==
  ASSUME NEW o, NEW S, NEW s \in Seq(S), s # << >>
  PROVE  LET r == Mirrored(o, Head(s)) IN
         /\ \A i \in 0 .. Len(Tail(s)) : Reads(r, Tail(s))[i] = Reads(o, s)[i + 1]
         /\ Reads(r, Tail(s))[Len(Tail(s))] = Reads(o, s)[Len(s)]
<1> DEFINE t == Tail(s)
           r == Mirrored(o, Head(s))
           T == {i \in 0 .. Len(t) : Reads(r, t)[i] = Reads(o, s)[i + 1]}
<1>1. /\ t \in Seq(S) /\ Len(t) = Len(s) - 1 /\ Len(t) \in Nat /\ Head(s) = s[1]
      /\ \A i \in 1 .. Len(t) : t[i] = s[i + 1]
  OBVIOUS
<1> HIDE DEF t
<1>2. 0 \in T
  <2>1. Reads(r, t)[0] = r /\ Reads(o, s)[0] = o
    BY <1>1, ReadsDef
  <2>2. 1 \in 1 .. Len(s) /\ 1 - 1 = 0 /\ 0 \in 0 .. Len(t) /\ 0 + 1 = 1
    BY <1>1
  <2>3. Reads(o, s)[1] = Mirrored(Reads(o, s)[0], s[1])
    BY <2>2, ReadsDef
  <2> QED
    BY <1>1, <2>1, <2>2, <2>3
<1>3. ASSUME NEW i \in 0 .. Len(t), i < Len(t), i \in T
      PROVE  i + 1 \in T
  <2>1. /\ i + 1 \in 1 .. Len(t) /\ (i + 1) + 1 \in 1 .. Len(s)
        /\ (i + 1) - 1 = i /\ ((i + 1) + 1) - 1 = i + 1 /\ i + 1 \in 0 .. Len(t)
    BY <1>1, <1>3
  <2>2. Reads(r, t)[i + 1] = Mirrored(Reads(r, t)[i], t[i + 1])
    BY <1>1, <2>1, ReadsDef
  <2>3. Reads(o, s)[(i + 1) + 1] = Mirrored(Reads(o, s)[i + 1], s[(i + 1) + 1])
    BY <2>1, ReadsDef
  <2> QED
    BY <1>1, <1>3, <2>1, <2>2, <2>3
<1> HIDE DEF T
<1>4. \A i \in 0 .. Len(t) : i \in T
  BY <1>1, <1>2, <1>3, UpTo
<1>5. \A i \in 0 .. Len(t) : Reads(r, t)[i] = Reads(o, s)[i + 1]
  BY <1>4 DEF T
<1>6. Len(t) \in 0 .. Len(t) /\ Len(t) + 1 = Len(s)
  BY <1>1
<1> QED
  BY <1>5, <1>6 DEF t
-----------------------------------------------------------------------------
(* What is on the wires of an editor.                                        *)

Said(s, I) == {s[i].pose : i \in I}
InOrder(s, I) == \A i, j \in I : i < j => s[i].pose[2] < s[j].pose[2]

\* The messages that answer an update of e.
Own(m, e) == m.type = "lock_required" \/ (m.type = "transform_applied" /\ m.pose[1] = e)
Answers(s, e) == {i \in DOMAIN s : Own(s[i], e)}

Valued(m) == m.type \in {"hierarchy_snapshot", "transform_snapshot", "transform_applied"}
Revision(m) == m.type \in {"transform_snapshot", "transform_applied"}

\* An answer at the end of a wire is the last one.
LEMMA AnswersAppend ==
  ASSUME NEW S, NEW s \in Seq(S), NEW m \in S, NEW e
  PROVE  LET t == Append(s, m) IN
         /\ ~Own(m, e) => /\ Said(t, Answers(t, e)) = Said(s, Answers(s, e))
                          /\ InOrder(s, Answers(s, e)) => InOrder(t, Answers(t, e))
         /\ Own(m, e) =>
              /\ Said(t, Answers(t, e)) = Said(s, Answers(s, e)) \cup {m.pose}
              /\ InOrder(s, Answers(s, e)) /\ (\A x \in Said(s, Answers(s, e)) : x[2] < m.pose[2])
                   => InOrder(t, Answers(t, e))
<1> DEFINE t == Append(s, m)
           l == Len(s) + 1
<1>1. /\ DOMAIN t = DOMAIN s \cup {l} /\ t[l] = m
      /\ \A i \in DOMAIN s : t[i] = s[i] /\ i \in Nat /\ i < l
      /\ l \in Nat
  BY Appended
<1> HIDE DEF t, l
<1>2. CASE ~Own(m, e)
  <2>1. Answers(t, e) = Answers(s, e)
    BY <1>1, <1>2 DEF Answers
  <2>2. \A i \in Answers(s, e) : t[i] = s[i]
    BY <1>1 DEF Answers
  <2>3. Said(t, Answers(t, e)) = Said(s, Answers(s, e))
    BY <2>1, <2>2 DEF Said
  <2>4. InOrder(s, Answers(s, e)) => InOrder(t, Answers(t, e))
    BY <2>1, <2>2 DEF InOrder
  <2> QED
    BY <1>2, <2>3, <2>4 DEF t
<1>3. CASE Own(m, e)
  <2>1. Answers(t, e) = Answers(s, e) \cup {l}
    BY <1>1, <1>3 DEF Answers
  <2>2. \A i \in Answers(s, e) : t[i] = s[i] /\ i \in Nat /\ i < l
    BY <1>1 DEF Answers
  <2>3. Said(t, Answers(t, e)) = Said(s, Answers(s, e)) \cup {m.pose}
    BY <1>1, <2>1, <2>2 DEF Said
  <2>4. InOrder(s, Answers(s, e)) /\ (\A x \in Said(s, Answers(s, e)) : x[2] < m.pose[2])
          => InOrder(t, Answers(t, e))
    <3> SUFFICES ASSUME InOrder(s, Answers(s, e)),
                        \A x \in Said(s, Answers(s, e)) : x[2] < m.pose[2],
                        NEW i \in Answers(t, e), NEW j \in Answers(t, e), i < j
                 PROVE  t[i].pose[2] < t[j].pose[2]
      BY DEF InOrder
    <3>1. i \in Answers(s, e)
      BY <1>1, <2>1, <2>2
    <3>2. CASE j \in Answers(s, e)
      BY <2>2, <3>1, <3>2 DEF InOrder
    <3>3. CASE j = l
      <4>1. s[i].pose \in Said(s, Answers(s, e))
        BY <3>1 DEF Said
      <4> QED
        BY <1>1, <2>2, <3>1, <3>3, <4>1
    <3> QED
      BY <2>1, <3>2, <3>3
  <2> QED
    BY <1>3, <2>3, <2>4 DEF t
<1> QED
  BY <1>2, <1>3

\* Taking the first message leaves the other answers, in their order.
LEMMA AnswersTail ==
  ASSUME NEW S, NEW s \in Seq(S), s # << >>, NEW e, InOrder(s, Answers(s, e))
  PROVE  LET t == Tail(s) IN
         /\ InOrder(t, Answers(t, e))
         /\ ~Own(Head(s), e) => Said(s, Answers(s, e)) = Said(t, Answers(t, e))
         /\ Own(Head(s), e) =>
              /\ Said(s, Answers(s, e)) = Said(t, Answers(t, e)) \cup {Head(s).pose}
              /\ \A x \in Said(t, Answers(t, e)) : Head(s).pose[2] < x[2]
<1> DEFINE t == Tail(s)
<1>1. /\ 1 \in DOMAIN s /\ Head(s) = s[1]
      /\ \A i \in DOMAIN t : /\ i \in Nat /\ i >= 1 /\ i + 1 \in DOMAIN s /\ t[i] = s[i + 1]
      /\ \A i \in DOMAIN s : i \in Nat /\ (i = 1 \/ (i > 1 /\ i - 1 \in DOMAIN t /\ t[i - 1] = s[i]))
  BY Tailed
<1> HIDE DEF t
<1>2. \A i \in Answers(t, e) : i \in Nat /\ i >= 1 /\ i + 1 \in Answers(s, e) /\ t[i] = s[i + 1]
  BY <1>1 DEF Answers
<1>3. \A i \in Answers(s, e) : i = 1 \/ (i \in Nat /\ i - 1 \in Answers(t, e) /\ t[i - 1] = s[i])
  BY <1>1 DEF Answers
<1>4. InOrder(t, Answers(t, e))
  <2> SUFFICES ASSUME NEW i \in Answers(t, e), NEW j \in Answers(t, e), i < j
               PROVE  t[i].pose[2] < t[j].pose[2]
    BY DEF InOrder
  <2>1. i + 1 < j + 1 /\ i + 1 \in Answers(s, e) /\ j + 1 \in Answers(s, e)
    BY <1>2
  <2> QED
    BY <1>2, <2>1 DEF InOrder
<1>5. Said(t, Answers(t, e)) \subseteq Said(s, Answers(s, e))
  BY <1>2 DEF Said
<1>6. \A x \in Said(s, Answers(s, e)) : x \in Said(t, Answers(t, e)) \/ (Own(Head(s), e) /\ x = Head(s).pose)
  <2> SUFFICES ASSUME NEW i \in Answers(s, e)
               PROVE  s[i].pose \in Said(t, Answers(t, e)) \/ (Own(Head(s), e) /\ s[i].pose = Head(s).pose)
    BY DEF Said
  <2>1. CASE i = 1
    BY <1>1, <2>1 DEF Answers
  <2>2. CASE i # 1
    BY <1>3, <2>2 DEF Said
  <2> QED
    BY <2>1, <2>2
<1>7. ASSUME Own(Head(s), e)
      PROVE  /\ Head(s).pose \in Said(s, Answers(s, e))
             /\ \A x \in Said(t, Answers(t, e)) : Head(s).pose[2] < x[2]
  <2>1. 1 \in Answers(s, e)
    BY <1>1, <1>7 DEF Answers
  <2>2. \A i \in Answers(t, e) : s[1].pose[2] < t[i].pose[2]
    <3> TAKE i \in Answers(t, e)
    <3>1. 1 < i + 1 /\ i + 1 \in Answers(s, e)
      BY <1>2
    <3> QED
      BY <1>2, <2>1, <3>1 DEF InOrder
  <2> QED
    BY <1>1, <2>1, <2>2 DEF Said
<1> QED
  BY <1>4, <1>5, <1>6, <1>7 DEF t

\* Taking the first message leaves the other updates, in their order.
LEMMA UpdatesTail ==
  ASSUME NEW S, NEW s \in Seq(S), s # << >>, InOrder(s, Updates(s))
  PROVE  LET t == Tail(s) IN
         /\ InOrder(t, Updates(t))
         /\ Head(s).type # "transform_update" => Said(s, Updates(s)) = Said(t, Updates(t))
         /\ Head(s).type = "transform_update" =>
              /\ Said(s, Updates(s)) = Said(t, Updates(t)) \cup {Head(s).pose}
              /\ \A x \in Said(t, Updates(t)) : Head(s).pose[2] < x[2]
<1> DEFINE t == Tail(s)
<1>1. /\ 1 \in DOMAIN s /\ Head(s) = s[1]
      /\ \A i \in DOMAIN t : /\ i \in Nat /\ i >= 1 /\ i + 1 \in DOMAIN s /\ t[i] = s[i + 1]
      /\ \A i \in DOMAIN s : i \in Nat /\ (i = 1 \/ (i > 1 /\ i - 1 \in DOMAIN t /\ t[i - 1] = s[i]))
  BY Tailed
<1> HIDE DEF t
<1>2. \A i \in Updates(t) : i \in Nat /\ i >= 1 /\ i + 1 \in Updates(s) /\ t[i] = s[i + 1]
  BY <1>1 DEF Updates
<1>3. \A i \in Updates(s) : i = 1 \/ (i \in Nat /\ i - 1 \in Updates(t) /\ t[i - 1] = s[i])
  BY <1>1 DEF Updates
<1>4. InOrder(t, Updates(t))
  <2> SUFFICES ASSUME NEW i \in Updates(t), NEW j \in Updates(t), i < j
               PROVE  t[i].pose[2] < t[j].pose[2]
    BY DEF InOrder
  <2>1. i + 1 < j + 1 /\ i + 1 \in Updates(s) /\ j + 1 \in Updates(s)
    BY <1>2
  <2> QED
    BY <1>2, <2>1 DEF InOrder
<1>5. Said(t, Updates(t)) \subseteq Said(s, Updates(s))
  BY <1>2 DEF Said
<1>6. \A x \in Said(s, Updates(s)) :
        x \in Said(t, Updates(t)) \/ (Head(s).type = "transform_update" /\ x = Head(s).pose)
  <2> SUFFICES ASSUME NEW i \in Updates(s)
               PROVE  s[i].pose \in Said(t, Updates(t))
                        \/ (Head(s).type = "transform_update" /\ s[i].pose = Head(s).pose)
    BY DEF Said
  <2>1. CASE i = 1
    BY <1>1, <2>1 DEF Updates
  <2>2. CASE i # 1
    BY <1>3, <2>2 DEF Said
  <2> QED
    BY <2>1, <2>2
<1>7. ASSUME Head(s).type = "transform_update"
      PROVE  /\ Head(s).pose \in Said(s, Updates(s))
             /\ \A x \in Said(t, Updates(t)) : Head(s).pose[2] < x[2]
  <2>1. 1 \in Updates(s)
    BY <1>1, <1>7 DEF Updates
  <2>2. \A i \in Updates(t) : s[1].pose[2] < t[i].pose[2]
    <3> TAKE i \in Updates(t)
    <3>1. 1 < i + 1 /\ i + 1 \in Updates(s)
      BY <1>2
    <3> QED
      BY <1>2, <2>1, <3>1 DEF InOrder
  <2> QED
    BY <1>1, <2>1, <2>2 DEF Said
<1> QED
  BY <1>4, <1>5, <1>6, <1>7 DEF t

\* What an editor says in one step adds its one update at the end.
LEMMA UpdatesJoin ==
  ASSUME NEW S, NEW s \in Seq(S), NEW r \in Seq(S), InOrder(s, Updates(s))
  PROVE  LET t == s \o r IN
         /\ Mute(r) => Said(t, Updates(t)) = Said(s, Updates(s)) /\ InOrder(t, Updates(t))
         /\ \A x : Spoke(r, x) /\ (\A y \in Said(s, Updates(s)) : y[2] < x[2])
                     => Said(t, Updates(t)) = Said(s, Updates(s)) \cup {x} /\ InOrder(t, Updates(t))
<1> DEFINE t == s \o r
<1>1. /\ \A i \in DOMAIN s : i \in DOMAIN t /\ t[i] = s[i] /\ i \in Nat /\ i <= Len(s)
      /\ \A i \in DOMAIN r : i \in Nat /\ i > 0 /\ Len(s) + i \in DOMAIN t /\ t[Len(s) + i] = r[i]
      /\ \A i \in DOMAIN t : /\ i \in Nat
                             /\ i \in DOMAIN s \/ (i > Len(s) /\ i - Len(s) \in DOMAIN r)
      /\ Len(s) \in Nat
  BY Joined
<1> HIDE DEF t
<1>2. \A i \in Updates(s) : i \in Updates(t) /\ t[i] = s[i]
  BY <1>1 DEF Updates
<1>3. \A i \in Updates(t) : i \in Updates(s) \/ (i > Len(s) /\ i - Len(s) \in Updates(r))
  <2> TAKE i \in Updates(t)
  <2>1. CASE i \in DOMAIN s
    BY <1>1, <2>1 DEF Updates
  <2>2. CASE i > Len(s) /\ i - Len(s) \in DOMAIN r
    <3>1. i \in Nat /\ Len(s) + (i - Len(s)) = i
      BY <1>1 DEF Updates
    <3>2. t[i] = r[i - Len(s)]
      BY <1>1, <2>2, <3>1
    <3> QED
      BY <2>2, <3>2 DEF Updates
  <2> QED
    BY <1>1, <2>1, <2>2 DEF Updates
<1>4. ASSUME Mute(r)
      PROVE  Said(t, Updates(t)) = Said(s, Updates(s)) /\ InOrder(t, Updates(t))
  <2>1. Updates(t) = Updates(s)
    BY <1>2, <1>3, <1>4 DEF Mute
  <2> QED
    BY <1>2, <2>1 DEF Said, InOrder
<1>5. ASSUME NEW x, Spoke(r, x), \A y \in Said(s, Updates(s)) : y[2] < x[2]
      PROVE  Said(t, Updates(t)) = Said(s, Updates(s)) \cup {x} /\ InOrder(t, Updates(t))
  <2>1. PICK k \in DOMAIN r : Updates(r) = {k} /\ r[k].pose = x
    BY <1>5 DEF Spoke
  <2> DEFINE l == Len(s) + k
  <2>2. l \in Nat /\ l > Len(s) /\ l \in DOMAIN t /\ t[l] = r[k]
    BY <1>1
  <2>3. \A i \in Updates(t) : i \in Updates(s) \/ i = l
    <3> TAKE i \in Updates(t)
    <3>1. i \in Nat
      BY <1>1 DEF Updates
    <3> QED
      BY <1>1, <1>3, <2>1, <3>1
  <2>4. l \in Updates(t) /\ t[l].pose = x
    BY <2>1, <2>2 DEF Updates
  <2> HIDE DEF l
  <2>5. Updates(t) = Updates(s) \cup {l}
    BY <1>2, <2>3, <2>4
  <2>6. \A i \in Updates(s) : t[i] = s[i] /\ i \in Nat /\ i < l /\ s[i].pose[2] < x[2]
    <3> TAKE i \in Updates(s)
    <3>1. i \in Nat /\ i <= Len(s) /\ s[i].pose \in Said(s, Updates(s))
      BY <1>1 DEF Updates, Said
    <3> QED
      BY <1>1, <1>2, <1>5, <2>2, <3>1
  <2>7. InOrder(t, Updates(t))
    <3> SUFFICES ASSUME NEW i \in Updates(t), NEW j \in Updates(t), i < j
                 PROVE  t[i].pose[2] < t[j].pose[2]
      BY DEF InOrder
    <3>1. i \in Updates(s)
      BY <2>2, <2>5, <2>6
    <3> QED
      BY <2>4, <2>5, <2>6, <3>1 DEF InOrder
  <2>8. Said(t, Updates(t)) = Said(s, Updates(s)) \cup {x}
    BY <2>4, <2>5, <2>6 DEF Said
  <2> QED
    BY <2>7, <2>8
<1> QED
  BY <1>4, <1>5 DEF t
\* The two snapshots come first, and only to an editor that awaits them.
Placed(s, c) ==
  /\ c.stage = "off" => s = << >>
  /\ c.stage = "hello" => /\ Len(s) >= 2 /\ s[1].type = "hierarchy_snapshot"
                          /\ s[2].type = "transform_snapshot" /\ s[1].pose = s[2].pose
  /\ c.stage = "hierarchy" => s # << >> /\ s[1].type = "transform_snapshot" /\ s[1].pose = c.last
  /\ \A i \in DOMAIN s :
       /\ s[i].type = "hierarchy_snapshot" => c.stage = "hello" /\ i = 1
       /\ s[i].type = "transform_snapshot" =>
            (c.stage = "hello" /\ i = 2) \/ (c.stage = "hierarchy" /\ i = 1)

\* Whom the messages about the lock can name.
Tidy(s, e) ==
  \A i \in DOMAIN s :
    /\ s[i].type = "lock_granted" => s[i].owner = e
    /\ s[i].type = "lock_state_changed" => s[i].owner \in Editors \ {e}
    /\ s[i].type \in {"transform_snapshot", "lock_denied"} => s[i].owner # e

\* Where a denial or the answer to an update is read, the mirror names the owner.
Mirrors(s, c, e) ==
  \A i \in DOMAIN s :
    /\ s[i].type = "lock_denied" => Reads(c.known, s)[i - 1] = s[i].owner
    /\ s[i].type = "transform_applied" /\ s[i].pose[1] = e => Reads(c.known, s)[i - 1] = e

\* The answers come in the order of the updates, and before those not processed.
Answered(s, u, c, e, A) ==
  /\ InOrder(s, Answers(s, e))
  /\ \A q \in Said(s, Answers(s, e)) : q \in c.ops /\ \A x \in Said(u, Updates(u)) : q[2] < x[2]
  /\ \A q \in c.ops : q \in Said(s, Answers(s, e)) \/ \A x \in Said(s, Answers(s, e)) : x[2] < q[2]
  /\ \A i \in DOMAIN s : /\ s[i].type = "lock_required" => s[i].pose \notin A
                         /\ Valued(s[i]) => s[i].pose \in A

\* Revisions grow along the wire.
Revised(s, c, r) ==
  /\ c.seen <= r
  /\ \A i \in DOMAIN s : Revision(s[i]) => s[i].revision <= r
  /\ \A i \in DOMAIN s : s[i].type = "transform_applied" => c.seen < s[i].revision
  /\ \A i, j \in DOMAIN s : i < j /\ Revision(s[i]) /\ s[j].type = "transform_applied" =>
       s[i].revision < s[j].revision

Wire(s, u, c, e, A, r) ==
  Placed(s, c) /\ Tidy(s, e) /\ Mirrors(s, c, e) /\ Answered(s, u, c, e, A) /\ Revised(s, c, r)

\* The last value on the wire, or else the last one told, is p.
Truth(s, c, p) ==
  /\ \A i \in DOMAIN s : Valued(s[i]) /\ (\A j \in DOMAIN s : i < j => ~Valued(s[j])) => s[i].pose = p
  /\ (\A i \in DOMAIN s : ~Valued(s[i])) => c.last = p

\* What the wires of a member the server can reach come to: the owner of the lock,
\* the session's value, and an answer to each update.
Live(s, u, c, e, o, p) ==
  /\ Reads(c.known, s)[Len(s)] = o
  /\ Truth(s, c, p)
  /\ \A q \in c.ops : q \in Said(u, Updates(u)) \/ q \in Said(s, Answers(s, e))

\* The updates under way to the server.
Sent(u, c, e, A) ==
  /\ InOrder(u, Updates(u))
  /\ \A q \in Said(u, Updates(u)) : q[1] = e /\ q \notin A /\ (c.stage # "off" => q \in c.ops)

\* Snapshots stay where they are while other messages follow.
LEMMA PlacedAppend ==
  ASSUME NEW S, NEW s \in Seq(S), NEW m \in S, NEW c, Placed(s, c), c.stage # "off",
         m.type \notin {"hierarchy_snapshot", "transform_snapshot"}
  PROVE  Placed(Append(s, m), c)
<1> DEFINE t == Append(s, m)
           l == Len(s) + 1
<1>1. /\ Len(t) = l /\ t # << >> /\ Len(s) \in Nat
      /\ DOMAIN t = DOMAIN s \cup {l} /\ t[l] = m
      /\ \A i \in DOMAIN s : t[i] = s[i]
      /\ s # << >> => t[1] = s[1] /\ Len(s) >= 1
      /\ s = << >> => Len(s) = 0
      /\ Len(s) >= 2 => t[2] = s[2]
  BY Appended
<1> HIDE DEF t
<1>2. c.stage = "hello" => /\ Len(t) >= 2 /\ t[1].type = "hierarchy_snapshot"
                           /\ t[2].type = "transform_snapshot" /\ t[1].pose = t[2].pose
  BY <1>1 DEF Placed
<1>3. c.stage = "hierarchy" => t # << >> /\ t[1].type = "transform_snapshot" /\ t[1].pose = c.last
  BY <1>1 DEF Placed
<1>4. \A i \in DOMAIN t :
        /\ t[i].type = "hierarchy_snapshot" => c.stage = "hello" /\ i = 1
        /\ t[i].type = "transform_snapshot" =>
             (c.stage = "hello" /\ i = 2) \/ (c.stage = "hierarchy" /\ i = 1)
  BY <1>1 DEF Placed
<1> QED
  BY <1>2, <1>3, <1>4 DEF Placed, t

\* The mirror goes on being right when the server tells what it decided.
LEMMA MirrorsAppend ==
  ASSUME NEW S, NEW s \in Seq(S), NEW m \in S, NEW c, NEW e, Mirrors(s, c, e),
         NEW o, Reads(c.known, s)[Len(s)] = o,
         m.type = "lock_denied" => m.owner = o,
         m.type = "transform_applied" /\ m.pose[1] = e => o = e
  PROVE  /\ Mirrors(Append(s, m), c, e)
         /\ Reads(c.known, Append(s, m))[Len(Append(s, m))] = Mirrored(o, m)
<1> DEFINE t == Append(s, m)
           l == Len(s) + 1
<1>1. /\ DOMAIN t = DOMAIN s \cup {l} /\ t[l] = m
      /\ \A i \in DOMAIN s : t[i] = s[i] /\ i \in 1 .. Len(s)
      /\ Len(s) \in Nat /\ l - 1 = Len(s)
  BY Appended
<1>2. /\ \A i \in 0 .. Len(s) : Reads(c.known, t)[i] = Reads(c.known, s)[i]
      /\ Reads(c.known, t)[Len(t)] = Mirrored(o, m)
  BY ReadsAppend
<1> HIDE DEF t, l
<1>3. \A i \in DOMAIN s : i - 1 \in 0 .. Len(s)
  BY <1>1
<1>4. ASSUME NEW i \in DOMAIN t
      PROVE  /\ t[i].type = "lock_denied" => Reads(c.known, t)[i - 1] = t[i].owner
             /\ t[i].type = "transform_applied" /\ t[i].pose[1] = e => Reads(c.known, t)[i - 1] = e
  <2>1. CASE i \in DOMAIN s
    BY <1>1, <1>2, <1>3, <2>1 DEF Mirrors
  <2>2. CASE i = l
    <3>1. Reads(c.known, t)[i - 1] = o
      BY <1>1, <1>2, <2>2
    <3> QED
      BY <1>1, <2>2, <3>1
  <2> QED
    BY <1>1, <2>1, <2>2
<1> QED
  BY <1>2, <1>4 DEF Mirrors, t

\* A message about the lock is sent to a member.
LEMMA LockTold ==
  ASSUME NEW S, NEW s \in Seq(S), NEW m \in S, NEW u, NEW c, NEW e, NEW A, NEW r, NEW o, NEW p,
         Wire(s, u, c, e, A, r), Live(s, u, c, e, o, p), c.stage # "off",
         m.type \in LockTypes,
         m.type = "lock_granted" => m.owner = e,
         m.type = "lock_state_changed" => m.owner \in Editors \ {e},
         m.type = "lock_denied" => m.owner = o /\ m.owner # e
  PROVE  /\ Wire(Append(s, m), u, c, e, A, r)
         /\ Live(Append(s, m), u, c, e, Mirrored(o, m), p)
<1> DEFINE t == Append(s, m)
           l == Len(s) + 1
<1>1. /\ DOMAIN t = DOMAIN s \cup {l} /\ t[l] = m /\ Len(s) \in Nat
      /\ \A i \in DOMAIN s : t[i] = s[i] /\ i \in Nat /\ i < l
  BY Appended
<1>2. /\ ~Own(m, e) /\ ~Valued(m) /\ ~Revision(m)
      /\ m.type \notin {"hierarchy_snapshot", "transform_snapshot", "transform_applied", "lock_required"}
  BY DEF LockTypes, Own, Valued, Revision
<1>3. Placed(t, c)
  BY <1>2, PlacedAppend DEF Wire
<1>4. Mirrors(t, c, e) /\ Reads(c.known, t)[Len(t)] = Mirrored(o, m)
  BY <1>2, MirrorsAppend DEF Wire, Live
<1>5. /\ Said(t, Answers(t, e)) = Said(s, Answers(s, e))
      /\ InOrder(s, Answers(s, e)) => InOrder(t, Answers(t, e))
  BY <1>2, AnswersAppend
<1> HIDE DEF t, l
<1>6. Tidy(t, e)
  BY <1>1, <1>2 DEF Wire, Tidy
<1>7. Answered(t, u, c, e, A)
  <2>1. \A i \in DOMAIN t : /\ t[i].type = "lock_required" => t[i].pose \notin A
                            /\ Valued(t[i]) => t[i].pose \in A
    BY <1>1, <1>2 DEF Wire, Answered
  <2> QED
    BY <1>5, <2>1 DEF Wire, Answered
<1>8. Revised(t, c, r)
  <2>1. Revised(s, c, r) /\ \A i \in DOMAIN t : Revision(t[i]) \/ t[i].type = "transform_applied"
          => i \in DOMAIN s /\ t[i] = s[i]
    BY <1>1, <1>2 DEF Wire
  <2>2. \A i \in DOMAIN t : t[i].type = "transform_applied" => Revision(t[i])
    BY DEF Revision
  <2> QED
    BY <2>1, <2>2 DEF Revised
<1>9. Truth(t, c, p)
  <2>1. \A i \in DOMAIN t : Valued(t[i]) => i \in DOMAIN s /\ t[i] = s[i]
    BY <1>1, <1>2
  <2>2. \A i \in DOMAIN s : i \in DOMAIN t /\ t[i] = s[i]
    BY <1>1
  <2> QED
    BY <2>1, <2>2 DEF Live, Truth
<1> QED
  BY <1>3, <1>4, <1>5, <1>6, <1>7, <1>8, <1>9 DEF Wire, Live, t
\* The messages other than those about the lock leave the places and names as they were.
LEMMA TidyAppend ==
  ASSUME NEW S, NEW s \in Seq(S), NEW m \in S, NEW e, Tidy(s, e),
         m.type \in {"transform_applied", "lock_required"}
  PROVE  Tidy(Append(s, m), e)
<1> DEFINE t == Append(s, m)
<1>1. /\ DOMAIN t = DOMAIN s \cup {Len(s) + 1} /\ t[Len(s) + 1] = m
      /\ \A i \in DOMAIN s : t[i] = s[i]
  BY Appended
<1> HIDE DEF t
<1>2. Tidy(t, e)
  BY <1>1 DEF Tidy
<1> QED
  BY <1>2 DEF t

\* A refused update is answered to the editor that waits for it.
LEMMA RequiredTold ==
  ASSUME NEW S, NEW s \in Seq(S), NEW m \in S, NEW T, NEW u \in Seq(T), u # << >>,
         NEW c, NEW e, NEW A, NEW r, NEW o, NEW p,
         Wire(s, u, c, e, A, r), Live(s, u, c, e, o, p), Sent(u, c, e, A), c.stage # "off",
         Head(u).type = "transform_update", m.type = "lock_required", m.pose = Head(u).pose
  PROVE  /\ Wire(Append(s, m), Tail(u), c, e, A, r)
         /\ Live(Append(s, m), Tail(u), c, e, o, p)
         /\ Sent(Tail(u), c, e, A)
<1> DEFINE t == Append(s, m)
           v == Tail(u)
           l == Len(s) + 1
           a == Said(s, Answers(s, e))
           b == Said(u, Updates(u))
<1>1. /\ DOMAIN t = DOMAIN s \cup {l} /\ t[l] = m /\ Len(s) \in Nat
      /\ \A i \in DOMAIN s : t[i] = s[i] /\ i \in Nat /\ i < l
  BY Appended
<1>2. Own(m, e) /\ ~Valued(m) /\ ~Revision(m)
  BY DEF Own, Valued, Revision
<1>3. /\ InOrder(v, Updates(v))
      /\ b = Said(v, Updates(v)) \cup {m.pose}
      /\ \A x \in Said(v, Updates(v)) : m.pose[2] < x[2]
  BY UpdatesTail DEF Sent
<1>4. Placed(t, c) /\ Tidy(t, e)
  BY PlacedAppend, TidyAppend DEF Wire
<1>5. Mirrors(t, c, e) /\ Reads(c.known, t)[Len(t)] = o
  BY MirrorsAppend DEF Wire, Live, Mirrored
<1>6. \A q \in a : q \in c.ops /\ \A x \in b : q[2] < x[2]
  BY DEF Wire, Answered
<1>7. Said(t, Answers(t, e)) = a \cup {m.pose} /\ InOrder(t, Answers(t, e))
  BY <1>2, <1>3, <1>6, AnswersAppend DEF Wire, Answered
<1>8. \A q \in b : q[1] = e /\ q \notin A /\ q \in c.ops
  BY DEF Sent
<1>9. \A q \in c.ops : q \in b \/ q \in a
  BY DEF Live
<1> HIDE DEF t, l, v, a, b
<1>10. Answered(t, v, c, e, A)
  <2>1. \A q \in Said(t, Answers(t, e)) : q \in c.ops /\ \A x \in Said(v, Updates(v)) : q[2] < x[2]
    BY <1>3, <1>6, <1>7, <1>8
  <2>2. \A q \in c.ops :
          q \in Said(t, Answers(t, e)) \/ \A x \in Said(t, Answers(t, e)) : x[2] < q[2]
    BY <1>3, <1>6, <1>7, <1>9
  <2>3. m.pose \notin A
    BY <1>3, <1>8
  <2>4. \A i \in DOMAIN t : /\ t[i].type = "lock_required" => t[i].pose \notin A
                            /\ Valued(t[i]) => t[i].pose \in A
    BY <1>1, <1>2, <2>3 DEF Wire, Answered
  <2> QED
    BY <1>7, <2>1, <2>2, <2>4 DEF Answered
<1>11. Revised(t, c, r)
  <2>1. /\ Revised(s, c, r)
        /\ \A i \in DOMAIN t : Revision(t[i]) => i \in DOMAIN s /\ t[i] = s[i]
    BY <1>1, <1>2 DEF Wire
  <2>2. \A i \in DOMAIN t : t[i].type = "transform_applied" => Revision(t[i])
    BY DEF Revision
  <2> QED
    BY <2>1, <2>2 DEF Revised
<1>12. Truth(t, c, p)
  <2>1. \A i \in DOMAIN t : Valued(t[i]) => i \in DOMAIN s /\ t[i] = s[i]
    BY <1>1, <1>2
  <2>2. \A i \in DOMAIN s : i \in DOMAIN t /\ t[i] = s[i]
    BY <1>1
  <2> QED
    BY <2>1, <2>2 DEF Live, Truth
<1>13. Live(t, v, c, e, o, p)
  BY <1>3, <1>5, <1>7, <1>9, <1>12 DEF Live
<1>14. Wire(t, v, c, e, A, r)
  BY <1>4, <1>5, <1>10, <1>11 DEF Wire
<1>15. Sent(v, c, e, A)
  BY <1>3, <1>8 DEF Sent
<1> QED
  BY <1>13, <1>14, <1>15 DEF t, v

\* What holds of the revisions and the last value when a value is appended.
LEMMA ValueAppend ==
  ASSUME NEW S, NEW s \in Seq(S), NEW m \in S, NEW c, NEW r \in Nat, NEW p,
         Revised(s, c, r), c.seen \in Nat, \A i \in DOMAIN s : Revision(s[i]) => s[i].revision \in Nat,
         m.type = "transform_applied", m.pose = p, m.revision = r + 1
  PROVE  Revised(Append(s, m), c, r + 1) /\ Truth(Append(s, m), c, p)
<1> DEFINE t == Append(s, m)
           l == Len(s) + 1
<1>1. /\ DOMAIN t = DOMAIN s \cup {l} /\ t[l] = m /\ l \in Nat
      /\ \A i \in DOMAIN s : t[i] = s[i] /\ i \in Nat /\ i < l
  BY Appended
<1>2. Valued(m) /\ Revision(m)
  BY DEF Valued, Revision
<1> HIDE DEF t, l
<1>3. Truth(t, c, p)
  <2>1. ASSUME NEW i \in DOMAIN t, \A j \in DOMAIN t : i < j => ~Valued(t[j])
        PROVE  i = l
    BY <1>1, <1>2, <2>1
  <2>2. t[l].pose = p /\ Valued(t[l]) /\ l \in DOMAIN t
    BY <1>1, <1>2
  <2>3. \A i \in DOMAIN t :
          Valued(t[i]) /\ (\A j \in DOMAIN t : i < j => ~Valued(t[j])) => t[i].pose = p
    BY <2>1, <2>2
  <2>4. ~(\A i \in DOMAIN t : ~Valued(t[i]))
    BY <2>2
  <2> QED
    BY <2>3, <2>4 DEF Truth
<1>4. Revised(t, c, r + 1)
  <2>1. c.seen <= r + 1 /\ \A i \in DOMAIN t : Revision(t[i]) => t[i].revision <= r + 1
    BY <1>1 DEF Revised
  <2>2. \A i \in DOMAIN t : t[i].type = "transform_applied" => c.seen < t[i].revision
    BY <1>1 DEF Revised
  <2>3. ASSUME NEW i \in DOMAIN t, NEW j \in DOMAIN t, i < j, Revision(t[i]),
               t[j].type = "transform_applied"
        PROVE  t[i].revision < t[j].revision
    <3>1. i \in DOMAIN s
      BY <1>1, <2>3
    <3>2. CASE j \in DOMAIN s
      BY <1>1, <2>3, <3>1, <3>2 DEF Revised
    <3>3. CASE j = l
      <4>1. s[i].revision <= r /\ s[i].revision \in Nat
        BY <1>1, <2>3, <3>1 DEF Revised
      <4> QED
        BY <1>1, <3>1, <3>3, <4>1
    <3> QED
      BY <1>1, <3>2, <3>3
  <2> QED
    BY <2>1, <2>2, <2>3 DEF Revised
<1> QED
  BY <1>3, <1>4 DEF t
\* The session takes an update of this editor and tells it.
LEMMA OwnTold ==
  ASSUME NEW S, NEW s \in Seq(S), NEW m \in S, NEW T, NEW u \in Seq(T), u # << >>,
         NEW c, NEW e, NEW A, NEW r \in Nat, NEW o, NEW p,
         Wire(s, u, c, e, A, r), Live(s, u, c, e, o, p), Sent(u, c, e, A), c.stage # "off",
         c.seen \in Nat, \A i \in DOMAIN s : Revision(s[i]) => s[i].revision \in Nat,
         o = e, Head(u).type = "transform_update",
         m.type = "transform_applied", m.pose = Head(u).pose, m.revision = r + 1,
         m.pose[2] \in Nat
  PROVE  /\ Wire(Append(s, m), Tail(u), c, e, A \cup {m.pose}, r + 1)
         /\ Live(Append(s, m), Tail(u), c, e, o, m.pose)
         /\ Sent(Tail(u), c, e, A \cup {m.pose})
<1> DEFINE t == Append(s, m)
           v == Tail(u)
           l == Len(s) + 1
           a == Said(s, Answers(s, e))
           b == Said(u, Updates(u))
           B == A \cup {m.pose}
<1>1. /\ DOMAIN t = DOMAIN s \cup {l} /\ t[l] = m /\ Len(s) \in Nat
      /\ \A i \in DOMAIN s : t[i] = s[i]
  BY Appended
<1>2. /\ InOrder(v, Updates(v))
      /\ b = Said(v, Updates(v)) \cup {m.pose}
      /\ \A x \in Said(v, Updates(v)) : m.pose[2] < x[2]
  BY UpdatesTail DEF Sent
<1>3. Placed(t, c) /\ Tidy(t, e)
  BY PlacedAppend, TidyAppend DEF Wire
<1>4. \A q \in b : q[1] = e /\ q \notin A /\ q \in c.ops
  BY DEF Sent
<1>5. m.pose[1] = e /\ Own(m, e) /\ Valued(m)
  BY <1>2, <1>4 DEF Own, Valued
<1>6. Mirrors(t, c, e) /\ Reads(c.known, t)[Len(t)] = o
  BY MirrorsAppend DEF Wire, Live, Mirrored
<1>7. \A q \in a : q \in c.ops /\ \A x \in b : q[2] < x[2]
  BY DEF Wire, Answered
<1>8. Said(t, Answers(t, e)) = a \cup {m.pose} /\ InOrder(t, Answers(t, e))
  BY <1>2, <1>5, <1>7, AnswersAppend DEF Wire, Answered
<1>9. \A q \in c.ops : q \in b \/ q \in a
  BY DEF Live
<1>10. Revised(t, c, r + 1) /\ Truth(t, c, m.pose)
  BY ValueAppend DEF Wire
<1>11. \A i \in DOMAIN s : s[i].type = "lock_required" => s[i].pose \in a
  BY DEF Said, Answers, Own
<1> HIDE DEF t, l, v, a, b, B
<1>12. Answered(t, v, c, e, B)
  <2>1. \A q \in Said(t, Answers(t, e)) : q \in c.ops /\ \A x \in Said(v, Updates(v)) : q[2] < x[2]
    BY <1>2, <1>4, <1>7, <1>8
  <2>2. \A q \in c.ops :
          q \in Said(t, Answers(t, e)) \/ \A x \in Said(t, Answers(t, e)) : x[2] < q[2]
    BY <1>2, <1>7, <1>8, <1>9
  <2>3. m.pose \notin a
    BY <1>2, <1>7
  <2>4. \A i \in DOMAIN s : /\ s[i].type = "lock_required" => s[i].pose \notin B
                            /\ Valued(s[i]) => s[i].pose \in B
    BY <1>11, <2>3 DEF Wire, Answered, B
  <2>5. \A i \in DOMAIN t : /\ t[i].type = "lock_required" => t[i].pose \notin B
                            /\ Valued(t[i]) => t[i].pose \in B
    BY <1>1, <1>5, <2>4 DEF B
  <2> QED
    BY <1>8, <2>1, <2>2, <2>5 DEF Answered
<1>13. Live(t, v, c, e, o, m.pose)
  BY <1>2, <1>6, <1>8, <1>9, <1>10 DEF Live
<1>14. Wire(t, v, c, e, B, r + 1)
  BY <1>3, <1>6, <1>10, <1>12 DEF Wire
<1>15. Sent(v, c, e, B)
  BY <1>2, <1>4 DEF Sent, B
<1> QED
  BY <1>13, <1>14, <1>15 DEF t, v, B

\* The session takes an update of another editor and tells this one.
LEMMA ForeignTold ==
  ASSUME NEW S, NEW s \in Seq(S), NEW m \in S, NEW u,
         NEW c, NEW e, NEW A, NEW r \in Nat, NEW o, NEW p,
         Wire(s, u, c, e, A, r), Live(s, u, c, e, o, p), c.stage # "off",
         c.seen \in Nat, \A i \in DOMAIN s : Revision(s[i]) => s[i].revision \in Nat,
         \A q \in c.ops : q[1] = e,
         m.type = "transform_applied", m.revision = r + 1, m.pose[1] # e
  PROVE  /\ Wire(Append(s, m), u, c, e, A \cup {m.pose}, r + 1)
         /\ Live(Append(s, m), u, c, e, o, m.pose)
<1> DEFINE t == Append(s, m)
           l == Len(s) + 1
           a == Said(s, Answers(s, e))
           B == A \cup {m.pose}
<1>1. /\ DOMAIN t = DOMAIN s \cup {l} /\ t[l] = m /\ Len(s) \in Nat
      /\ \A i \in DOMAIN s : t[i] = s[i]
  BY Appended
<1>2. ~Own(m, e) /\ Valued(m)
  BY DEF Own, Valued
<1>3. Placed(t, c) /\ Tidy(t, e)
  BY PlacedAppend, TidyAppend DEF Wire
<1>4. Mirrors(t, c, e) /\ Reads(c.known, t)[Len(t)] = o
  BY MirrorsAppend DEF Wire, Live, Mirrored
<1>5. Said(t, Answers(t, e)) = a /\ InOrder(t, Answers(t, e))
  BY <1>2, AnswersAppend DEF Wire, Answered
<1>6. Revised(t, c, r + 1) /\ Truth(t, c, m.pose)
  BY ValueAppend DEF Wire
<1>7. \A i \in DOMAIN s : s[i].type = "lock_required" => s[i].pose \in a
  BY DEF Said, Answers, Own
<1>8. \A q \in a : q \in c.ops
  BY DEF Wire, Answered
<1> HIDE DEF t, l, B
<1>9. Answered(t, u, c, e, B)
  <2>1. m.pose \notin a
    BY <1>8
  <2>2. \A i \in DOMAIN s : /\ s[i].type = "lock_required" => s[i].pose \notin B
                            /\ Valued(s[i]) => s[i].pose \in B
    BY <1>7, <2>1 DEF Wire, Answered, B
  <2>3. \A i \in DOMAIN t : /\ t[i].type = "lock_required" => t[i].pose \notin B
                            /\ Valued(t[i]) => t[i].pose \in B
    BY <1>1, <1>2, <2>2 DEF B
  <2> QED
    BY <1>5, <2>3 DEF Wire, Answered
<1>10. Live(t, u, c, e, o, m.pose)
  BY <1>4, <1>5, <1>6 DEF Live
<1>11. Wire(t, u, c, e, B, r + 1)
  BY <1>3, <1>4, <1>6, <1>9 DEF Wire
<1> QED
  BY <1>10, <1>11 DEF t, B

\* The session takes an update of another editor while this one cannot be told.
LEMMA NotTold ==
  ASSUME NEW S, NEW s \in Seq(S), NEW u, NEW c, NEW e, NEW A, NEW r \in Nat,
         Wire(s, u, c, e, A, r),
         c.seen \in Nat, \A i \in DOMAIN s : Revision(s[i]) => s[i].revision \in Nat,
         \A q \in c.ops : q[1] = e, NEW p, p[1] # e
  PROVE  Wire(s, u, c, e, A \cup {p}, r + 1)
<1> DEFINE a == Said(s, Answers(s, e))
           B == A \cup {p}
<1>1. \A i \in DOMAIN s : s[i].type = "lock_required" => s[i].pose \in a
  BY DEF Said, Answers, Own
<1>2. \A q \in a : q \in c.ops
  BY DEF Wire, Answered
<1> HIDE DEF a
<1>3. Answered(s, u, c, e, B)
  BY <1>1, <1>2 DEF Wire, Answered
<1>4. Revised(s, c, r + 1)
  BY DEF Wire, Revised
<1> QED
  BY <1>3, <1>4 DEF Wire

\* A message of this editor about the lock is processed.
LEMMA WordTaken ==
  ASSUME NEW s, NEW T, NEW u \in Seq(T), u # << >>, NEW c, NEW e, NEW A, NEW r,
         Sent(u, c, e, A), Head(u).type # "transform_update"
  PROVE  /\ Sent(Tail(u), c, e, A)
         /\ Wire(s, u, c, e, A, r) => Wire(s, Tail(u), c, e, A, r)
         /\ \A o, p : Live(s, u, c, e, o, p) => Live(s, Tail(u), c, e, o, p)
<1>1. /\ InOrder(Tail(u), Updates(Tail(u)))
      /\ Said(u, Updates(u)) = Said(Tail(u), Updates(Tail(u)))
  BY UpdatesTail DEF Sent
<1> QED
  BY <1>1 DEF Sent, Wire, Answered, Live
\* What an editor does on its own leaves its wire as it is and adds to the other one.
LEMMA SpeaksWire ==
  ASSUME NEW n \in Nat, NEW u \in Seq(UpMessages(n)), NEW s, NEW c, NEW d \in Recs(n),
         NEW e, NEW A, NEW r,
         Sound(c, e, A), Sound(d, e, A), Stays(c, d), Says(c, d, e, A),
         Sent(u, c, e, A), c.stage # "refused" => Wire(s, u, c, e, A, r)
  PROVE  /\ Sent(u \o d.out, d, e, A) /\ Sent(<< >>, d, e, A)
         /\ c.stage # "refused" =>
              /\ Wire(s, u \o d.out, d, e, A, r) /\ Wire(s, << >>, d, e, A, r)
              /\ \A o, p : Live(s, u, c, e, o, p) => Live(s, u \o d.out, d, e, o, p)
<1> DEFINE v == u \o d.out
           a == Said(s, Answers(s, e))
           b == Said(u, Updates(u))
           w == Said(v, Updates(v))
<1>1. d.stage = c.stage /\ d.known = c.known /\ d.seen = c.seen /\ d.last = c.last
  BY DEF Stays
<1>2. Updates(<< >>) = {} /\ Said(<< >>, {}) = {} /\ InOrder(<< >>, {})
  BY DEF Updates, Said, InOrder
<1>3. d.out \in Seq(UpMessages(n)) /\ d.ops \subseteq Poses(n)
  BY DEF Recs
<1>4. c.stage # "refused" => Placed(s, d) /\ Tidy(s, e) /\ Mirrors(s, d, e) /\ Revised(s, d, r)
  BY <1>1 DEF Wire, Placed, Mirrors, Revised
<1>5. CASE d.ops = c.ops /\ Mute(d.out)
  <2>1. w = b /\ InOrder(v, Updates(v))
    BY <1>3, <1>5, UpdatesJoin DEF Sent
  <2> HIDE DEF w, b, v, a
  <2>2. Sent(v, d, e, A) /\ Sent(<< >>, d, e, A)
    BY <1>1, <1>2, <1>5, <2>1 DEF Sent, w, b
  <2>3. c.stage # "refused" => Answered(s, v, d, e, A) /\ Answered(s, << >>, d, e, A)
    BY <1>2, <1>5, <2>1 DEF Wire, Answered, w, b
  <2>4. \A o, p : Live(s, u, c, e, o, p) => Live(s, v, d, e, o, p)
    BY <1>1, <1>5, <2>1 DEF Live, Truth, w, b
  <2> QED
    BY <1>4, <2>2, <2>3, <2>4 DEF Wire, v
<1>6. ASSUME NEW x, Fresh(x, e, c, A), d.ops = c.ops \cup {x}, Spoke(d.out, x)
      PROVE  /\ Sent(v, d, e, A) /\ Sent(<< >>, d, e, A)
             /\ c.stage # "refused" =>
                  /\ Wire(s, v, d, e, A, r) /\ Wire(s, << >>, d, e, A, r)
                  /\ \A o, p : Live(s, u, c, e, o, p) => Live(s, v, d, e, o, p)
  <2>1. c.stage # "off"
    BY <1>1, <1>6 DEF Sound, Core, Shape
  <2>2. \A y \in c.ops : y[1] = e /\ y[2] < x[2]
    BY <1>6 DEF Fresh, Sound, Core, Asked
  <2>3. \A y \in b : y[2] < x[2] /\ y \in c.ops /\ y[1] = e /\ y \notin A
    BY <2>1, <2>2 DEF Sent
  <2>4. x[1] = e /\ x \notin A
    <3>1. x \in Poses(n)
      BY <1>3, <1>6
    <3>2. x[2] \in Nat
      BY <3>1, PosesArePoses
    <3> QED
      BY <1>6, <3>2 DEF Fresh
  <2>5. w = b \cup {x} /\ InOrder(v, Updates(v))
    BY <1>3, <1>6, <2>3, UpdatesJoin DEF Sent
  <2> HIDE DEF w, b, v, a
  <2>6. Sent(v, d, e, A) /\ Sent(<< >>, d, e, A)
    BY <1>1, <1>2, <1>6, <2>3, <2>4, <2>5 DEF Sent, w
  <2>7. ASSUME c.stage # "refused"
        PROVE  Answered(s, v, d, e, A) /\ Answered(s, << >>, d, e, A)
    <3>1. Answered(s, u, c, e, A)
      BY <2>7 DEF Wire
    <3>2. \A q \in a : q \in c.ops /\ q[2] < x[2] /\ \A y \in b : q[2] < y[2]
      BY <2>2, <3>1 DEF Answered, a, b
    <3>3. \A q \in a : q \in d.ops /\ \A y \in w : q[2] < y[2]
      BY <1>6, <2>5, <3>2
    <3>4. \A q \in d.ops : q \in a \/ \A y \in a : y[2] < q[2]
      BY <1>6, <3>1, <3>2 DEF Answered, a
    <3> QED
      BY <1>2, <3>1, <3>3, <3>4 DEF Answered, a, w
  <2>8. \A o, p : Live(s, u, c, e, o, p) => Live(s, v, d, e, o, p)
    <3> SUFFICES ASSUME NEW o, NEW p, Live(s, u, c, e, o, p)
                 PROVE  Live(s, v, d, e, o, p)
      OBVIOUS
    <3>1. \A q \in d.ops : q \in w \/ q \in a
      BY <1>6, <2>5 DEF Live, a, b
    <3>2. Truth(s, d, p) /\ Reads(d.known, s)[Len(s)] = o
      BY <1>1 DEF Live, Truth
    <3> QED
      BY <3>1, <3>2 DEF Live, w, a
  <2> QED
    BY <1>4, <2>6, <2>7, <2>8 DEF Wire
<1> QED
  BY <1>5, <1>6 DEF Says, v

-----------------------------------------------------------------------------
(* An editor reads its wire.                                                 *)

\* d is c after m was heard.
Heard(c, d, m, e) ==
  /\ m.type = "hierarchy_snapshot" => d.stage = "hierarchy"
  /\ m.type = "transform_snapshot" => d.stage = "ready"
  /\ m.type \notin {"hierarchy_snapshot", "transform_snapshot"} => d.stage = c.stage
  /\ d.known = Mirrored(c.known, m)
  /\ d.ops = IF Own(m, e) THEN c.ops \ {m.pose} ELSE c.ops
  /\ d.seen = IF Revision(m) THEN m.revision ELSE c.seen
  /\ d.last = IF Valued(m) THEN m.pose ELSE c.last

\* What a message carries, by its type.
LEMMA MessageTypes ==
  ASSUME NEW n, NEW m \in DownMessages(n)
  PROVE  /\ m.type \in {"hierarchy_snapshot", "transform_snapshot", "transform_applied",
                        "lock_required"} \cup LockTypes
         /\ Valued(m) \/ m.type = "lock_required" => m.pose \in Poses(n)
         /\ Revision(m) => m.revision \in Nat
         /\ m.type \in LockTypes \cup {"transform_snapshot"} => m.owner \in Users
<1>1. CASE m \in [type : {"hierarchy_snapshot", "lock_required"}, pose : Poses(n)]
  BY <1>1 DEF LockTypes, Valued, Revision
<1>2. CASE m \in [type : {"transform_snapshot"}, pose : Poses(n), revision : Nat, owner : Users]
  BY <1>2 DEF LockTypes, Valued, Revision
<1>3. CASE m \in [type : {"transform_applied"}, pose : Poses(n), revision : Nat]
  BY <1>3 DEF LockTypes, Valued, Revision
<1>4. CASE m \in [type : LockTypes, owner : Users]
  BY <1>4 DEF LockTypes, Valued, Revision
<1> QED
  BY <1>1, <1>2, <1>3, <1>4 DEF DownMessages

\* What the first message on the wire can be.
LEMMA Heads ==
  ASSUME NEW n \in Nat, NEW s \in Seq(DownMessages(n)), s # << >>, NEW u, NEW c \in Recs(n),
         NEW e, NEW A, NEW r, Wire(s, u, c, e, A, r), c.stage \notin {"off", "refused"}
  PROVE  LET m == Head(s) IN
         /\ m = s[1] /\ 1 \in DOMAIN s /\ m \in DownMessages(n)
         /\ m.type = "hierarchy_snapshot" => c.stage = "hello"
         /\ m.type = "transform_snapshot" => c.stage = "hierarchy" /\ m.pose = c.last /\ m.owner # e
         /\ m.type \notin {"hierarchy_snapshot", "transform_snapshot"} => c.stage = "ready"
         /\ Valued(m) => m.pose \in A
         /\ Own(m, e) => /\ m.pose \in c.ops
                         /\ \A q \in c.ops : q = m.pose \/ m.pose[2] < q[2]
                         /\ m.type = "lock_required" => m.pose \notin A
                         /\ m.type = "transform_applied" => c.known = e
         /\ m.type = "transform_applied" => c.seen < m.revision
         /\ m.type = "lock_granted" => m.owner = e
         /\ m.type = "lock_state_changed" => m.owner \in Editors \ {e}
         /\ m.type = "lock_denied" => m.owner = c.known /\ m.owner # e
<1> DEFINE m == Head(s)
<1>1. m = s[1] /\ 1 \in DOMAIN s /\ m \in DownMessages(n)
  BY Tailed
<1>2. c.stage \in {"hello", "hierarchy", "ready"}
  BY DEF Recs
<1>3. Reads(c.known, s)[1 - 1] = c.known
  BY ReadsDef
<1> HIDE DEF m
<1>4. /\ m.type = "hierarchy_snapshot" => c.stage = "hello"
      /\ m.type = "transform_snapshot" => c.stage = "hierarchy" /\ m.pose = c.last /\ m.owner # e
      /\ m.type \notin {"hierarchy_snapshot", "transform_snapshot"} => c.stage = "ready"
  BY <1>1, <1>2 DEF Wire, Placed, Tidy
<1>5. Valued(m) => m.pose \in A
  BY <1>1 DEF Wire, Answered
<1>6. /\ m.type = "lock_granted" => m.owner = e
      /\ m.type = "lock_state_changed" => m.owner \in Editors \ {e}
      /\ m.type = "lock_denied" => m.owner = c.known /\ m.owner # e
  BY <1>1, <1>3 DEF Wire, Tidy, Mirrors
<1>7. m.type = "transform_applied" => c.seen < m.revision
  BY <1>1 DEF Wire, Revised
<1>8. ASSUME Own(m, e)
      PROVE  /\ m.pose \in c.ops
             /\ \A q \in c.ops : q = m.pose \/ m.pose[2] < q[2]
             /\ m.type = "lock_required" => m.pose \notin A
             /\ m.type = "transform_applied" => c.known = e
  <2>1. m.type = "transform_applied" => c.known = e
    BY <1>1, <1>3, <1>8 DEF Wire, Mirrors, Own
  <2>2. m.type = "lock_required" => m.pose \notin A
    BY <1>1 DEF Wire, Answered
  <2>3. /\ Said(s, Answers(s, e)) = Said(Tail(s), Answers(Tail(s), e)) \cup {m.pose}
        /\ \A x \in Said(Tail(s), Answers(Tail(s), e)) : m.pose[2] < x[2]
    BY <1>8, AnswersTail DEF Wire, Answered, m
  <2>4. m.pose \in c.ops /\ \A q \in c.ops : q = m.pose \/ m.pose[2] < q[2]
    BY <2>3 DEF Wire, Answered
  <2> QED
    BY <2>1, <2>2, <2>4
<1> QED
  BY <1>1, <1>4, <1>5, <1>6, <1>7, <1>8 DEF m
\* A message that was heard leaves a wire that still fits the editor.
LEMMA HeardWire ==
  ASSUME NEW n \in Nat, NEW s \in Seq(DownMessages(n)), s # << >>, NEW u, NEW c \in Recs(n),
         NEW d, NEW e, NEW A, NEW r, Wire(s, u, c, e, A, r), c.stage \notin {"off", "refused"},
         Heard(c, d, Head(s), e)
  PROVE  /\ Wire(Tail(s), u, d, e, A, r)
         /\ \A o, p : Live(s, u, c, e, o, p) => Live(Tail(s), u, d, e, o, p)
         /\ Sent(u, c, e, A) => Sent(u, d, e, A)
<1> DEFINE m == Head(s)
           t == Tail(s)
           a == Said(s, Answers(s, e))
           z == Said(t, Answers(t, e))
           b == Said(u, Updates(u))
<1>1. /\ 1 \in DOMAIN s /\ m = s[1] /\ Len(t) = Len(s) - 1 /\ t \in Seq(DownMessages(n))
      /\ Len(s) >= 2 => t[1] = s[2] /\ t # << >>
  BY Tailed
<1>a. \A i \in DOMAIN t : /\ i \in Nat /\ i >= 1 /\ i + 1 \in DOMAIN s /\ t[i] = s[i + 1]
                         /\ i - 1 \in 0 .. Len(t)
  BY Tailed
<1>b. \A i \in DOMAIN s : i \in Nat /\ (i = 1 \/ (i > 1 /\ i - 1 \in DOMAIN t /\ t[i - 1] = s[i]))
  BY Tailed
<1>2. /\ m \in DownMessages(n)
      /\ m.type = "hierarchy_snapshot" => c.stage = "hello"
      /\ m.type = "transform_snapshot" => c.stage = "hierarchy"
      /\ m.type \notin {"hierarchy_snapshot", "transform_snapshot"} => c.stage = "ready"
  BY Heads, ZenonT(60)
<1>3. Own(m, e) => m.pose[2] \in Nat
  <2>1. Own(m, e) => Valued(m) \/ m.type = "lock_required"
    BY DEF Own, Valued
  <2> QED
    BY <1>2, <2>1, MessageTypes, PosesArePoses
<1>4. /\ \A i \in 0 .. Len(t) : Reads(d.known, t)[i] = Reads(c.known, s)[i + 1]
      /\ Reads(d.known, t)[Len(t)] = Reads(c.known, s)[Len(s)]
  <2>1. d.known = Mirrored(c.known, Head(s))
    BY DEF Heard
  <2> QED
    BY <2>1, ReadsTail
<1>5. /\ InOrder(t, Answers(t, e))
      /\ ~Own(m, e) => a = z
      /\ Own(m, e) => /\ a = z \cup {m.pose}
                      /\ \A x \in z : m.pose[2] < x[2]
  BY AnswersTail DEF Wire, Answered
<1>6. Answered(s, u, c, e, A) /\ Placed(s, c) /\ Tidy(s, e) /\ Mirrors(s, c, e) /\ Revised(s, c, r)
  BY DEF Wire
<1>7. /\ \A q \in a : q \in c.ops /\ \A x \in b : q[2] < x[2]
      /\ \A q \in c.ops : q \in a \/ \A x \in a : x[2] < q[2]
  BY <1>6 DEF Answered
<1>8. d.ops = IF Own(m, e) THEN c.ops \ {m.pose} ELSE c.ops
  BY DEF Heard
<1>9. c.stage \in {"hello", "hierarchy", "ready"}
  BY DEF Recs
<1>10. /\ c.stage = "hello" => m.type = "hierarchy_snapshot"
       /\ c.stage = "hierarchy" => m.type = "transform_snapshot"
  BY <1>1, <1>6 DEF Placed
<1>11. /\ c.stage = "hello" => d.stage = "hierarchy" /\ d.last = m.pose
       /\ c.stage # "hello" => d.stage = "ready"
  BY <1>2, <1>9, <1>10 DEF Heard, Valued
<1> HIDE DEF m, t, a, z, b
<1>12. Placed(t, d)
  <2>1. d.stage = "hierarchy" => t # << >> /\ t[1].type = "transform_snapshot" /\ t[1].pose = d.last
    BY <1>1, <1>6, <1>9, <1>11 DEF Placed
  <2>2. \A i \in DOMAIN t :
          /\ t[i].type # "hierarchy_snapshot"
          /\ t[i].type = "transform_snapshot" => d.stage = "hierarchy" /\ i = 1
    BY <1>a, <1>6, <1>11 DEF Placed
  <2> QED
    BY <1>11, <2>1, <2>2 DEF Placed
<1>13. Tidy(t, e)
  BY <1>a, <1>6 DEF Tidy
<1>14. Mirrors(t, d, e)
  <2>1. \A i \in DOMAIN t : Reads(d.known, t)[i - 1] = Reads(c.known, s)[(i + 1) - 1]
    BY <1>a, <1>4
  <2> QED
    BY <1>a, <1>6, <2>1 DEF Mirrors
<1>15. Answered(t, u, d, e, A)
  <2>1. \A q \in z : q \in d.ops /\ \A x \in b : q[2] < x[2]
    BY <1>3, <1>5, <1>7, <1>8
  <2>2. \A q \in d.ops : q \in z \/ \A x \in z : x[2] < q[2]
    BY <1>5, <1>7, <1>8
  <2>3. \A i \in DOMAIN t : /\ t[i].type = "lock_required" => t[i].pose \notin A
                            /\ Valued(t[i]) => t[i].pose \in A
    BY <1>a, <1>6 DEF Answered
  <2> QED
    BY <1>5, <2>1, <2>2, <2>3 DEF Answered, z, b
<1>16. Revised(t, d, r)
  <2>1. d.seen = IF Revision(m) THEN m.revision ELSE c.seen
    BY DEF Heard, m
  <2>2. d.seen <= r
    BY <1>1, <1>6, <2>1 DEF Revised
  <2>3. \A i \in DOMAIN t : Revision(t[i]) => t[i].revision <= r
    BY <1>a, <1>6 DEF Revised
  <2>4. \A i \in DOMAIN t : t[i].type = "transform_applied" => d.seen < t[i].revision
    <3> SUFFICES ASSUME NEW i \in DOMAIN t, t[i].type = "transform_applied"
                 PROVE  d.seen < t[i].revision
      OBVIOUS
    <3>1. 1 < i + 1 /\ i + 1 \in DOMAIN s /\ t[i] = s[i + 1]
      BY <1>a
    <3> QED
      BY <1>1, <1>6, <2>1, <3>1 DEF Revised
  <2>5. \A i, j \in DOMAIN t : i < j /\ Revision(t[i]) /\ t[j].type = "transform_applied" =>
          t[i].revision < t[j].revision
    <3> SUFFICES ASSUME NEW i \in DOMAIN t, NEW j \in DOMAIN t, i < j, Revision(t[i]),
                        t[j].type = "transform_applied"
                 PROVE  t[i].revision < t[j].revision
      OBVIOUS
    <3>1. /\ i + 1 < j + 1 /\ i + 1 \in DOMAIN s /\ j + 1 \in DOMAIN s
          /\ t[i] = s[i + 1] /\ t[j] = s[j + 1]
      BY <1>a
    <3> QED
      BY <1>6, <3>1 DEF Revised
  <2> QED
    BY <2>2, <2>3, <2>4, <2>5 DEF Revised
<1>17. ASSUME NEW o, NEW p, Live(s, u, c, e, o, p)
       PROVE  Live(t, u, d, e, o, p)
  <2>1. \A q \in d.ops : q \in b \/ q \in z
    BY <1>5, <1>8, <1>17 DEF Live, a, b
  <2>2. Truth(t, d, p)
    <3>1. Truth(s, c, p)
      BY <1>17 DEF Live
    <3>2. ASSUME NEW i \in DOMAIN t, Valued(t[i]), \A j \in DOMAIN t : i < j => ~Valued(t[j])
          PROVE  t[i].pose = p
      <4>1. i + 1 \in DOMAIN s /\ t[i] = s[i + 1]
        BY <1>a
      <4>2. \A j \in DOMAIN s : i + 1 < j => ~Valued(s[j])
        <5> TAKE j \in DOMAIN s
        <5> HAVE i + 1 < j
        <5>1. j - 1 \in DOMAIN t /\ t[j - 1] = s[j] /\ i < j - 1
          BY <1>a, <1>b
        <5> QED
          BY <3>2, <5>1
      <4> QED
        BY <3>1, <3>2, <4>1, <4>2 DEF Truth
    <3>3. ASSUME \A i \in DOMAIN t : ~Valued(t[i])
          PROVE  d.last = p
      <4>1. d.last = IF Valued(m) THEN m.pose ELSE c.last
        BY DEF Heard, m
      <4>2. \A j \in DOMAIN s : 1 < j => ~Valued(s[j])
        BY <1>b, <3>3
      <4>3. CASE Valued(m)
        BY <1>1, <3>1, <4>1, <4>2, <4>3 DEF Truth
      <4>4. CASE ~Valued(m)
        <5>1. \A j \in DOMAIN s : ~Valued(s[j])
          BY <1>1, <1>b, <4>2, <4>4
        <5> QED
          BY <3>1, <4>1, <4>4, <5>1 DEF Truth
      <4> QED
        BY <4>3, <4>4
    <3> QED
      BY <3>2, <3>3 DEF Truth
  <2>3. Reads(d.known, t)[Len(t)] = o
    BY <1>4, <1>17 DEF Live
  <2> QED
    BY <2>1, <2>2, <2>3 DEF Live, b, z
<1>18. ASSUME Sent(u, c, e, A)
       PROVE  Sent(u, d, e, A)
  <2>1. \A q \in b : q[1] = e /\ q \notin A /\ q \in c.ops /\ (Own(m, e) => q # m.pose)
    BY <1>3, <1>5, <1>7, <1>18 DEF Sent, b
  <2> QED
    BY <1>8, <1>18, <2>1 DEF Sent, b
<1> QED
  BY <1>12, <1>13, <1>14, <1>15, <1>16, <1>17, <1>18 DEF Wire, t
\* Whatever it reads, an editor's record stays sound and the message is heard; or
\* it leaves its Scene alone and hears nothing more.
LEMMA HandlesSound ==
  ASSUME NEW n \in Nat, NEW s \in Seq(DownMessages(n)), s # << >>, NEW u, NEW c \in Recs(n),
         NEW e \in Editors, NEW A \in SUBSET Poses(n), NEW r, Wire(s, u, c, e, A, r),
         Sound(c, e, A), Mute(c.out), c.stage \notin {"off", "refused"}, NEW hot
  PROVE  LET d == Handles(c, e, Head(s), hot) IN
         /\ d \in Recs(n) /\ Sound(d, e, A) /\ Mute(d.out)
         /\ Heard(c, d, Head(s), e) \/ (d.stage = "refused" /\ d.ops = {} /\ c.ops = {})
<1> DEFINE m == Head(s)
           d == Handles(c, e, m, hot)
           Goal == /\ d \in Recs(n) /\ Sound(d, e, A) /\ Mute(d.out)
                   /\ Heard(c, d, m, e) \/ (d.stage = "refused" /\ d.ops = {} /\ c.ops = {})
<1> SUFFICES Goal
  OBVIOUS
<1>1. /\ m \in DownMessages(n)
      /\ m.type = "hierarchy_snapshot" => c.stage = "hello"
      /\ m.type = "transform_snapshot" => c.stage = "hierarchy" /\ m.pose = c.last /\ m.owner # e
      /\ m.type \notin {"hierarchy_snapshot", "transform_snapshot"} => c.stage = "ready"
      /\ Valued(m) => m.pose \in A
      /\ Own(m, e) => /\ m.pose \in c.ops
                      /\ \A q \in c.ops : q = m.pose \/ m.pose[2] < q[2]
                      /\ m.type = "lock_required" => m.pose \notin A
                      /\ m.type = "transform_applied" => c.known = e
      /\ m.type = "transform_applied" => c.seen < m.revision
      /\ m.type = "lock_granted" => m.owner = e
      /\ m.type = "lock_state_changed" => m.owner \in Editors \ {e}
      /\ m.type = "lock_denied" => m.owner = c.known /\ m.owner # e
  BY Heads, ZenonT(60)
<1> HIDE DEF m
<1>2. /\ m.type \in {"hierarchy_snapshot", "transform_snapshot", "transform_applied",
                     "lock_required"} \cup LockTypes
      /\ Valued(m) \/ m.type = "lock_required" => m.pose \in Poses(n)
      /\ Revision(m) => m.revision \in Nat
      /\ m.type \in LockTypes \cup {"transform_snapshot"} => m.owner \in Users
  BY <1>1, MessageTypes
<1>3. c.seen \in Nat
  BY DEF Recs
<1>4. CASE m.type = "hierarchy_snapshot"
  <2>1. d = OnHierarchySnapshot(c, e, m)
    BY <1>4 DEF Handles
  <2>2. Valued(m) /\ ~Revision(m) /\ ~Own(m, e) /\ Mirrored(c.known, m) = c.known
    BY <1>4 DEF Valued, Revision, Own, Mirrored
  <2>3. c.stage = "hello" /\ m.pose \in Poses(n) /\ m.pose \in A
    BY <1>1, <1>2, <1>4, <2>2
  <2> HIDE DEF d
  <2>4. /\ d \in Recs(n) /\ Sound(d, e, A) /\ Mute(d.out) /\ d.ops = {}
        /\ d.known = NoEditor /\ d.seen = 0
        /\ \/ d.stage = "refused"
           \/ d.stage = "hierarchy" /\ d.last = m.pose
    BY <2>1, <2>3, HierarchySnapshotSound
  <2>5. c.ops = {} /\ c.known = NoEditor /\ c.seen = 0
    BY <2>3 DEF Sound, Core, Shape
  <2> QED
    BY <1>4, <2>2, <2>4, <2>5 DEF Heard
<1>5. CASE m.type = "transform_snapshot"
  <2>1. d = OnSnapshot(c, e, m, hot)
    BY <1>5 DEF Handles
  <2>2. Valued(m) /\ Revision(m) /\ ~Own(m, e) /\ Mirrored(c.known, m) = m.owner
    BY <1>5 DEF Valued, Revision, Own, Mirrored
  <2>3. c.stage = "hierarchy" /\ m.pose = c.last /\ m.owner # e /\ m.owner \in Users
        /\ m.revision \in Nat
    BY <1>1, <1>2, <1>5, <2>2
  <2> HIDE DEF d
  <2>4. /\ d \in Recs(n) /\ Sound(d, e, A) /\ Mute(d.out) /\ d.ops = c.ops
        /\ d.stage = "ready" /\ d.known = m.owner /\ d.seen = m.revision /\ d.last = m.pose
    <3>1. LET f == OnSnapshot(c, e, m, hot) IN
          /\ f \in Recs(n) /\ Sound(f, e, A) /\ Mute(f.out) /\ f.ops = c.ops
          /\ f.stage = "ready" /\ f.known = m.owner /\ f.seen = m.revision /\ f.last = m.pose
      BY <2>3, SnapshotSound
    <3> QED
      BY <2>1, <3>1
  <2> QED
    BY <1>5, <2>2, <2>4 DEF Heard
<1>6. CASE m.type = "transform_applied"
  <2>1. d = OnApplied(c, m, hot)
    BY <1>6 DEF Handles
  <2>2. Valued(m) /\ Revision(m) /\ Mirrored(c.known, m) = c.known
        /\ (Own(m, e) <=> m.pose[1] = e)
    BY <1>6 DEF Valued, Revision, Own, Mirrored
  <2>3. c.stage = "ready" /\ m.pose \in A /\ m.revision \in Nat /\ m.revision > c.seen
    BY <1>1, <1>2, <1>3, <1>6, <2>2
  <2> HIDE DEF d
  <2>4. CASE m.pose[1] = e
    <3>1. /\ d \in Recs(n) /\ Sound(d, e, A)
          /\ d.stage = c.stage /\ d.known = c.known /\ d.seen = m.revision /\ d.last = m.pose
          /\ d.ops = c.ops \ {m.pose} /\ d.out = c.out
      <4>1. /\ c.known = e /\ m.pose \in c.ops
            /\ \A q \in c.ops : q = m.pose \/ m.pose[2] < q[2]
        BY <1>1, <1>6, <2>2, <2>4
      <4>2. LET f == OnApplied(c, m, hot) IN
            /\ f \in Recs(n) /\ Sound(f, e, A)
            /\ f.stage = c.stage /\ f.known = c.known /\ f.seen = m.revision /\ f.last = m.pose
            /\ f.ops = c.ops \ {m.pose} /\ f.out = c.out
        BY <2>3, <4>1, OwnAppliedSound
      <4> QED
        BY <2>1, <4>2
    <3> QED
      BY <1>6, <2>2, <2>4, <3>1 DEF Heard
  <2>5. CASE m.pose[1] # e
    <3>1. /\ d \in Recs(n) /\ Sound(d, e, A)
          /\ d.stage = c.stage /\ d.known = c.known /\ d.seen = m.revision /\ d.last = m.pose
          /\ d.ops = c.ops /\ d.out = c.out
      <4>1. LET f == OnApplied(c, m, hot) IN
            /\ f \in Recs(n) /\ Sound(f, e, A)
            /\ f.stage = c.stage /\ f.known = c.known /\ f.seen = m.revision /\ f.last = m.pose
            /\ f.ops = c.ops /\ f.out = c.out
        BY <2>3, <2>5, ForeignAppliedSound
      <4> QED
        BY <2>1, <4>1
    <3> QED
      BY <1>6, <2>2, <2>5, <3>1 DEF Heard
  <2> QED
    BY <2>4, <2>5
<1>7. CASE m.type = "lock_required"
  <2>1. d = OnRefused(c, m, hot)
    BY <1>7 DEF Handles
  <2>2. ~Valued(m) /\ ~Revision(m) /\ Own(m, e) /\ Mirrored(c.known, m) = c.known
    BY <1>7 DEF Valued, Revision, Own, Mirrored
  <2>3. c.stage = "ready" /\ m.pose \in c.ops /\ m.pose \notin A
    BY <1>1, <1>7, <2>2
  <2> HIDE DEF d
  <2>4. /\ d \in Recs(n) /\ Sound(d, e, A) /\ Mute(d.out)
        /\ d.stage = c.stage /\ d.known = c.known /\ d.seen = c.seen /\ d.last = c.last
        /\ d.ops = c.ops \ {m.pose}
    BY <2>1, <2>3, RefusedSound
  <2> QED
    BY <1>7, <2>2, <2>4 DEF Heard
<1>8. CASE m.type \in LockTypes
  <2>1. ~Valued(m) /\ ~Revision(m) /\ ~Own(m, e) /\ c.stage = "ready" /\ m.owner \in Users
        /\ m.type \notin {"hierarchy_snapshot", "transform_snapshot"}
    BY <1>1, <1>2, <1>8 DEF LockTypes, Valued, Revision, Own
  <2>2. d \in Recs(n) /\ Sound(d, e, A) /\ Kept(c, d) /\ d.known = Mirrored(c.known, m)
    <3>1. CASE m.type = "lock_granted"
      <4>1. d = OnGranted(c, e) /\ Mirrored(c.known, m) = e
        BY <1>1, <3>1 DEF Handles, Mirrored
      <4> HIDE DEF d
      <4> QED
        BY <2>1, <4>1, GrantedSound
    <3>2. CASE m.type = "lock_state_changed"
      <4>1. d = OnChanged(c, e, m, hot) /\ Mirrored(c.known, m) = m.owner
        BY <3>2 DEF Handles, Mirrored
      <4>2. m.owner \in Editors /\ m.owner # e
        BY <1>1, <3>2
      <4> HIDE DEF d
      <4> QED
        BY <2>1, <4>1, <4>2, ChangedSound
    <3>3. CASE m.type = "lock_denied"
      <4>1. d = OnDenied(c, m) /\ Mirrored(c.known, m) = m.owner
        BY <3>3 DEF Handles, Mirrored
      <4>2. m.owner = c.known /\ m.owner # e
        BY <1>1, <3>3
      <4> HIDE DEF d
      <4> QED
        BY <4>1, <4>2, DeniedSound
    <3>4. CASE m.type = "lock_released"
      <4>1. /\ d = OnReleased(c, e, m, hot)
            /\ Mirrored(c.known, m) = IF m.owner = c.known THEN NoEditor ELSE c.known
        BY <3>4 DEF Handles, Mirrored
      <4> HIDE DEF d
      <4> QED
        BY <2>1, <4>1, ReleasedSound
    <3> QED
      BY <1>8, <3>1, <3>2, <3>3, <3>4 DEF LockTypes
  <2> QED
    BY <2>1, <2>2 DEF Heard, Kept
<1> QED
  BY <1>2, <1>4, <1>5, <1>6, <1>7, <1>8
-----------------------------------------------------------------------------
(* The invariant.                                                            *)

\* While e holds the lock, a grant of it comes after every value of another editor
\* that is still on its wire.
Hold(s, e, o) ==
  o = e =>
    \A i \in DOMAIN s : s[i].type = "transform_applied" /\ s[i].pose[1] # e =>
      \E j \in DOMAIN s : i < j /\ s[j].type = "lock_granted"

Reached(x, c) == x = "open" /\ c.stage # "off"

\* All that holds of editor e and its wires; x is the server's end of its connection,
\* A, o, p and r what the session took, the owner of the lock, the value and its revision.
Fine(s, u, c, e, x, A, o, p, r) ==
  /\ c.out = << >> /\ Sound(c, e, A) /\ Sent(u, c, e, A)
  /\ c.stage = "off" => s = << >>
  /\ Hold(s, e, o)
  /\ c.stage # "refused" =>
       /\ Wire(s, u, c, e, A, r)
       /\ Reached(x, c) => Live(s, u, c, e, o, p)

TypeOK ==
  /\ lock \in [owner : Users, lapsed : BOOLEAN]
  /\ auth \in [pose : Poses(edits), revision : Nat] /\ accepted \in SUBSET Poses(edits)
  /\ sock \in [Editors -> {"open", "cut", "closed"}]
  /\ up \in [Editors -> Seq(UpMessages(edits))] /\ down \in [Editors -> Seq(DownMessages(edits))]
  /\ ed \in [Editors -> Recs(edits)]
  /\ edits \in Nat /\ gestures \in Nat /\ faults \in Nat

EditorsFine ==
  \A e \in Editors :
    Fine(down[e], up[e], ed[e], e, sock[e], accepted, lock.owner, auth.pose, auth.revision)

IInv ==
  /\ TypeOK
  /\ Base \in accepted /\ auth.pose \in accepted
  /\ lock.owner = NoEditor => ~lock.lapsed
  /\ EditorsFine

\* What the lease's holder is told next does not overwrite it.
LEMMA HoldAppend ==
  ASSUME NEW S, NEW s \in Seq(S), NEW m \in S, NEW e, NEW o, NEW w, Hold(s, e, o),
         w = e => \/ m.type = "lock_granted"
                  \/ o = e /\ ~(m.type = "transform_applied" /\ m.pose[1] # e)
  PROVE  Hold(Append(s, m), e, w)
<1> DEFINE t == Append(s, m)
           l == Len(s) + 1
<1>1. /\ DOMAIN t = DOMAIN s \cup {l} /\ t[l] = m /\ l \in Nat
      /\ \A i \in DOMAIN s : t[i] = s[i] /\ i \in Nat /\ i < l
  BY Appended
<1> HIDE DEF t, l
<1>2. CASE w # e
  BY <1>2 DEF Hold, t
<1>3. CASE w = e /\ m.type = "lock_granted"
  <2>1. \A i \in DOMAIN t : t[i].type = "transform_applied" => i < l
    BY <1>1, <1>3
  <2>2. l \in DOMAIN t /\ t[l].type = "lock_granted"
    BY <1>1, <1>3
  <2>3. Hold(t, e, w)
    BY <2>1, <2>2 DEF Hold
  <2> QED
    BY <2>3 DEF t
<1>4. CASE w = e /\ m.type # "lock_granted"
  <2>1. \A i \in DOMAIN t : t[i].type = "transform_applied" /\ t[i].pose[1] # e => i \in DOMAIN s
    BY <1>1, <1>4
  <2>2. Hold(t, e, w)
    BY <1>1, <1>4, <2>1 DEF Hold
  <2> QED
    BY <2>2 DEF t
<1> QED
  BY <1>2, <1>3, <1>4

\* Taking a message leaves nothing of another's behind the last grant.
LEMMA HoldTail ==
  ASSUME NEW S, NEW s \in Seq(S), s # << >>, NEW e, NEW o, Hold(s, e, o)
  PROVE  Hold(Tail(s), e, o)
<1> DEFINE t == Tail(s)
<1>1. \A i \in DOMAIN t : i \in Nat /\ i >= 1 /\ i + 1 \in DOMAIN s /\ t[i] = s[i + 1]
  BY Tailed
<1>2. \A i \in DOMAIN s : i \in Nat /\ (i > 1 => i - 1 \in DOMAIN t /\ t[i - 1] = s[i])
  BY Tailed
<1> HIDE DEF t
<1>3. ASSUME o = e, NEW i \in DOMAIN t, t[i].type = "transform_applied", t[i].pose[1] # e
      PROVE  \E j \in DOMAIN t : i < j /\ t[j].type = "lock_granted"
  <2>1. i + 1 \in DOMAIN s /\ t[i] = s[i + 1]
    BY <1>1
  <2>2. PICK j \in DOMAIN s : i + 1 < j /\ s[j].type = "lock_granted"
    BY <1>3, <2>1 DEF Hold
  <2>3. i < j - 1 /\ j - 1 \in DOMAIN t /\ t[j - 1] = s[j]
    BY <1>1, <1>2, <2>2
  <2> QED
    BY <2>2, <2>3
<1>4. Hold(t, e, o)
  BY <1>3 DEF Hold
<1> QED
  BY <1>4 DEF t

\* A message about the lock goes to an editor, if the server can reach it.
LEMMA FineLock ==
  ASSUME NEW S, NEW s \in Seq(S), NEW m \in S, NEW u, NEW c, NEW e, NEW x, NEW A, NEW o, NEW p,
         NEW r, Fine(s, u, c, e, x, A, o, p, r), NEW w, w = Mirrored(o, m),
         m.type \in LockTypes,
         m.type = "lock_granted" => m.owner = e /\ x = "open",
         m.type = "lock_state_changed" => m.owner \in Editors \ {e},
         m.type = "lock_denied" => m.owner = o /\ m.owner # e,
         w = e => o = e \/ m.type = "lock_granted"
  PROVE  Fine(IF Reached(x, c) THEN Append(s, m) ELSE s, u, c, e, x, A, w, p, r)
<1>1. CASE ~Reached(x, c)
  <2>1. Hold(s, e, w)
    <3>1. CASE w = e /\ o # e
      <4>1. c.stage = "off" /\ s = << >>
        BY <1>1, <3>1 DEF Reached, Fine
      <4> QED
        BY <4>1 DEF Hold
    <3>2. CASE ~(w = e /\ o # e)
      BY <3>2 DEF Fine, Hold
    <3> QED
      BY <3>1, <3>2
  <2> QED
    BY <1>1, <2>1 DEF Fine
<1>2. CASE Reached(x, c)
  <2>1. m.type # "transform_applied"
    BY DEF LockTypes
  <2>2. Hold(Append(s, m), e, w)
    BY <2>1, HoldAppend DEF Fine
  <2>3. c.stage # "refused" => /\ Wire(Append(s, m), u, c, e, A, r)
                               /\ Live(Append(s, m), u, c, e, w, p)
    BY <1>2, LockTold DEF Fine, Reached
  <2> QED
    BY <1>2, <2>2, <2>3 DEF Fine, Reached
<1> QED
  BY <1>1, <1>2

\* A word of this editor about the lock is processed.
LEMMA FineWord ==
  ASSUME NEW s, NEW T, NEW u \in Seq(T), u # << >>, NEW c, NEW e, NEW x, NEW A, NEW o, NEW p,
         NEW r, Fine(s, u, c, e, x, A, o, p, r), Head(u).type # "transform_update"
  PROVE  Fine(s, Tail(u), c, e, x, A, o, p, r)
BY WordTaken DEF Fine

\* An update of this editor is refused.
LEMMA FineRequired ==
  ASSUME NEW S, NEW s \in Seq(S), NEW m \in S, NEW T, NEW u \in Seq(T), u # << >>,
         NEW c, NEW e, NEW x, NEW A, NEW o, NEW p, NEW r, Fine(s, u, c, e, x, A, o, p, r),
         x = "open", Head(u).type = "transform_update",
         m.type = "lock_required", m.pose = Head(u).pose
  PROVE  Fine(IF Reached(x, c) THEN Append(s, m) ELSE s, Tail(u), c, e, x, A, o, p, r)
<1>1. Sent(Tail(u), c, e, A)
  BY UpdatesTail DEF Fine, Sent
<1>2. CASE ~Reached(x, c)
  <2>1. c.stage = "off" /\ s = << >> /\ c.ops = {}
    BY <1>2 DEF Fine, Reached, Sound, Core, Shape
  <2>2. Wire(s, Tail(u), c, e, A, r)
    <3>1. Answers(s, e) = {}
      BY <2>1 DEF Answers
    <3> QED
      BY <2>1, <3>1 DEF Fine, Wire, Answered, Said
  <2> QED
    BY <1>1, <1>2, <2>2 DEF Fine
<1>3. CASE Reached(x, c)
  <2>1. Hold(Append(s, m), e, o)
    BY HoldAppend DEF Fine
  <2>2. c.stage # "refused" => /\ Wire(Append(s, m), Tail(u), c, e, A, r)
                               /\ Live(Append(s, m), Tail(u), c, e, o, p)
    BY <1>3, RequiredTold DEF Fine, Reached
  <2> QED
    BY <1>1, <1>3, <2>1, <2>2 DEF Fine, Reached
<1> QED
  BY <1>2, <1>3
\* An update of this editor, which holds the lock, is taken.
LEMMA FineOwn ==
  ASSUME NEW n \in Nat, NEW s \in Seq(DownMessages(n)), NEW m \in DownMessages(n),
         NEW u \in Seq(UpMessages(n)), u # << >>,
         NEW c \in Recs(n), NEW e \in Editors, NEW x, NEW A, NEW p, NEW r \in Nat,
         Fine(s, u, c, e, x, A, e, p, r), x = "open", Head(u).type = "transform_update",
         m.type = "transform_applied", m.pose = Head(u).pose, m.revision = r + 1
  PROVE  Fine(IF Reached(x, c) THEN Append(s, m) ELSE s, Tail(u), c, e, x, A \cup {m.pose}, e,
              m.pose, r + 1)
<1>1. /\ InOrder(Tail(u), Updates(Tail(u)))
      /\ Said(u, Updates(u)) = Said(Tail(u), Updates(Tail(u))) \cup {m.pose}
      /\ \A y \in Said(Tail(u), Updates(Tail(u))) : m.pose[2] < y[2]
  BY UpdatesTail DEF Fine, Sent
<1>2. m.pose[1] = e /\ m.pose \notin A /\ (c.stage # "off" => m.pose \in c.ops)
  BY <1>1 DEF Fine, Sent
<1>3. Sent(Tail(u), c, e, A \cup {m.pose})
  <2> DEFINE b == Said(Tail(u), Updates(Tail(u)))
  <2>1. \A q \in b : q # m.pose
    <3>1. m.pose[2] \in Nat
      BY PosesArePoses, MessageTypes DEF Valued
    <3> QED
      BY <1>1, <3>1
  <2>2. \A q \in b : q[1] = e /\ q \notin A /\ (c.stage # "off" => q \in c.ops)
    BY <1>1 DEF Fine, Sent
  <2> QED
    BY <1>1, <2>1, <2>2 DEF Sent
<1>4. Sound(c, e, A \cup {m.pose})
  BY <1>2, TakenSound DEF Fine
<1>5. c.seen \in Nat /\ \A i \in DOMAIN s : Revision(s[i]) => s[i].revision \in Nat
  <2>1. \A i \in DOMAIN s : s[i] \in DownMessages(n)
    OBVIOUS
  <2> QED
    BY <2>1, MessageTypes DEF Recs
<1>6. CASE ~Reached(x, c)
  <2>1. c.stage = "off" /\ s = << >> /\ c.ops = {} /\ c.seen = 0
    BY <1>6 DEF Fine, Reached, Sound, Core, Shape
  <2>2. Wire(s, Tail(u), c, e, A \cup {m.pose}, r + 1)
    <3>1. Answers(s, e) = {} /\ DOMAIN s = {}
      BY <2>1 DEF Answers
    <3> QED
      BY <2>1, <3>1 DEF Fine, Wire, Answered, Said, Revised
  <2> QED
    BY <1>3, <1>4, <1>6, <2>1, <2>2 DEF Fine
<1>7. CASE Reached(x, c)
  <2>1. Hold(Append(s, m), e, e)
    BY <1>2, HoldAppend DEF Fine
  <2>2. m.pose[2] \in Nat
    BY PosesArePoses, MessageTypes DEF Valued
  <2>3. ASSUME c.stage # "refused"
        PROVE  /\ Wire(Append(s, m), Tail(u), c, e, A \cup {m.pose}, r + 1)
               /\ Live(Append(s, m), Tail(u), c, e, e, m.pose)
    <3>1. Wire(s, u, c, e, A, r) /\ Live(s, u, c, e, e, p) /\ Sent(u, c, e, A) /\ c.stage # "off"
      BY <1>7, <2>3 DEF Fine, Reached
    <3> QED
      BY <1>5, <2>2, <3>1, OwnTold
  <2> QED
    BY <1>3, <1>4, <1>7, <2>1, <2>3 DEF Fine, Reached
<1> QED
  BY <1>6, <1>7

\* An update of another editor, which holds the lock, is taken.
LEMMA FineForeign ==
  ASSUME NEW n \in Nat, NEW s \in Seq(DownMessages(n)), NEW m \in DownMessages(n), NEW u,
         NEW c \in Recs(n), NEW e \in Editors, NEW x, NEW A, NEW o, NEW p, NEW r \in Nat,
         Fine(s, u, c, e, x, A, o, p, r), o # e,
         m.type = "transform_applied", m.pose[1] # e, m.revision = r + 1
  PROVE  Fine(IF Reached(x, c) THEN Append(s, m) ELSE s, u, c, e, x, A \cup {m.pose}, o,
              m.pose, r + 1)
<1>1. Sent(u, c, e, A \cup {m.pose})
  BY DEF Fine, Sent
<1>2. \A q \in c.ops : q[1] = e
  BY DEF Fine, Sound, Core, Asked
<1>3. Sound(c, e, A \cup {m.pose})
  BY <1>2, TakenSound DEF Fine
<1>4. c.seen \in Nat /\ \A i \in DOMAIN s : Revision(s[i]) => s[i].revision \in Nat
  <2>1. \A i \in DOMAIN s : s[i] \in DownMessages(n)
    OBVIOUS
  <2> QED
    BY <2>1, MessageTypes DEF Recs
<1>5. CASE ~Reached(x, c)
  <2>1. c.stage # "refused" => Wire(s, u, c, e, A \cup {m.pose}, r + 1)
    BY <1>2, <1>4, NotTold DEF Fine
  <2> QED
    BY <1>1, <1>3, <1>5, <2>1 DEF Fine
<1>6. CASE Reached(x, c)
  <2>1. Hold(Append(s, m), e, o)
    BY DEF Hold
  <2>2. ASSUME c.stage # "refused"
        PROVE  /\ Wire(Append(s, m), u, c, e, A \cup {m.pose}, r + 1)
               /\ Live(Append(s, m), u, c, e, o, m.pose)
    <3>1. Wire(s, u, c, e, A, r) /\ Live(s, u, c, e, o, p) /\ c.stage # "off"
      BY <1>6, <2>2 DEF Fine, Reached
    <3> QED
      BY <1>2, <1>4, <3>1, ForeignTold
  <2> QED
    BY <1>1, <1>3, <1>6, <2>1, <2>2 DEF Fine, Reached
<1> QED
  BY <1>5, <1>6
\* The server's end is cut: it reads no more, and a new owner is nobody it could reach.
LEMMA FineCut ==
  ASSUME NEW s, NEW u, NEW c, NEW e, NEW x, NEW A, NEW o, NEW p, NEW r,
         Fine(s, u, c, e, x, A, o, p, r), NEW y, y # "open"
  PROVE  Fine(s, << >>, c, e, y, A, o, p, r)
<1>1. Updates(<< >>) = {} /\ Said(<< >>, {}) = {} /\ InOrder(<< >>, {})
  BY DEF Updates, Said, InOrder
<1>2. Sent(<< >>, c, e, A)
  BY <1>1 DEF Sent
<1>3. Wire(s, u, c, e, A, r) => Wire(s, << >>, c, e, A, r)
  BY <1>1 DEF Wire, Answered
<1> QED
  BY <1>2, <1>3 DEF Fine, Reached

-----------------------------------------------------------------------------
(* The steps of the server.                                                  *)

Wires == [Editors -> Seq(DownMessages(edits))]

\* Every editor is fine with wires d and U and with owner o of the lock.
AllFine(d, U, A, o, p, r) ==
  \A x \in Editors : Fine(d[x], U[x], ed[x], x, sock[x], A, o, p, r)

\* A message that is told is at the end of every wire it reaches.
LEMMA Telling ==
  ASSUME NEW d \in Wires, NEW m \in DownMessages(edits), NEW e, NEW but
  PROVE  /\ Tell(d, e, m) \in Wires /\ TellAll(d, but, m) \in Wires
         /\ \A x \in Editors :
              /\ Tell(d, e, m)[x] =
                   IF x = e /\ Reached(sock[x], ed[x]) THEN Append(d[x], m) ELSE d[x]
              /\ TellAll(d, but, m)[x] =
                   IF Reached(sock[x], ed[x]) /\ x \notin but THEN Append(d[x], m) ELSE d[x]
<1>1. \A x \in Editors : d[x] \in Seq(DownMessages(edits)) /\ Append(d[x], m) \in Seq(DownMessages(edits))
  BY DEF Wires
<1>2. \A x : Listening(x) <=> Reached(sock[x], ed[x])
  BY DEF Listening, Reached
<1> QED
  BY <1>1, <1>2 DEF Tell, TellAll, Wires

\* A release is told to everybody, and the lock is free for all of them.
LEMMA ReleasedFine ==
  ASSUME TransformAssumption, NEW d \in Wires, NEW o \in Users, NEW U, NEW A, NEW p, NEW r,
         AllFine(d, U, A, o, p, r)
  PROVE  Released(d, o) \in Wires /\ AllFine(Released(d, o), U, A, NoEditor, p, r)
<1> DEFINE m == LockMessage("lock_released", o)
           t == Released(d, o)
<1>1. /\ m \in DownMessages(edits) /\ m.type = "lock_released" /\ m.owner = o
      /\ m.type \in LockTypes
  BY DEF LockMessage, DownMessages, LockTypes
<1>2. Mirrored(o, m) = NoEditor
  BY <1>1 DEF Mirrored
<1> HIDE DEF m
<1>3. t \in Wires /\ \A x \in Editors :
        t[x] = IF Reached(sock[x], ed[x]) THEN Append(d[x], m) ELSE d[x]
  BY <1>1, Telling DEF Released, m
<1> HIDE DEF t
<1>4. ASSUME NEW x \in Editors
      PROVE  Fine(t[x], U[x], ed[x], x, sock[x], A, NoEditor, p, r)
  <2>1. Fine(d[x], U[x], ed[x], x, sock[x], A, o, p, r)
    BY DEF AllFine
  <2>2. d[x] \in Seq(DownMessages(edits)) /\ NoEditor # x
    BY DEF Wires, TransformAssumption
  <2>3. Fine(IF Reached(sock[x], ed[x]) THEN Append(d[x], m) ELSE d[x],
             U[x], ed[x], x, sock[x], A, NoEditor, p, r)
    BY <1>1, <1>2, <2>1, <2>2, FineLock
  <2> QED
    BY <1>3, <2>3
<1> QED
  BY <1>3, <1>4 DEF AllFine, t

\* Expiring a lapsed lease tells everybody, and no lapsed lease is left.
LEMMA ExpiredFine ==
  ASSUME IInv
  PROVE  /\ Expired(down) \in Wires
         /\ AllFine(Expired(down), up, accepted, Held.owner, auth.pose, auth.revision)
         /\ Held \in [owner : Users, lapsed : BOOLEAN] /\ ~Held.lapsed
<1>1. /\ down \in Wires /\ AllFine(down, up, accepted, lock.owner, auth.pose, auth.revision)
      /\ lock.owner \in Users /\ lock \in [owner : Users, lapsed : BOOLEAN]
  BY DEF IInv, TypeOK, EditorsFine, AllFine, Wires
<1>2. NoLock \in [owner : Users, lapsed : BOOLEAN] /\ NoLock.owner = NoEditor /\ ~NoLock.lapsed
  BY DEF NoLock, Users
<1>3. CASE lock.lapsed
  BY <1>1, <1>2, <1>3, ReleasedFine, TransformAssumption DEF Expired, Held
<1>4. CASE ~lock.lapsed
  BY <1>1, <1>4 DEF Expired, Held
<1> QED
  BY <1>3, <1>4
\* What the server takes off a wire: the message and what is left.
LEMMA Taking ==
  ASSUME IInv, NEW e \in Editors, NEW t, Processes(e, t)
  PROVE  /\ up[e] \in Seq(UpMessages(edits)) /\ up[e] # << >> /\ Head(up[e]).type = t
         /\ up' \in [Editors -> Seq(UpMessages(edits))]
         /\ \A x \in Editors : up'[x] = IF x = e THEN Tail(up[x]) ELSE up[x]
         /\ sock[e] = "open"
         /\ t # "transform_update" =>
              \A d, o : AllFine(d, up, accepted, o, auth.pose, auth.revision) =>
                          AllFine(d, up', accepted, o, auth.pose, auth.revision)
<1>1. /\ up \in [Editors -> Seq(UpMessages(edits))] /\ up[e] # << >> /\ Head(up[e]).type = t
      /\ up' = [up EXCEPT ![e] = Tail(@)] /\ sock[e] = "open"
  BY DEF IInv, TypeOK, Processes
<1>2. up[e] \in Seq(UpMessages(edits)) /\ Tail(up[e]) \in Seq(UpMessages(edits))
  BY <1>1
<1>3. /\ up' \in [Editors -> Seq(UpMessages(edits))]
      /\ \A x \in Editors : up'[x] = IF x = e THEN Tail(up[x]) ELSE up[x]
  BY <1>1, <1>2
<1>4. ASSUME t # "transform_update", NEW d, NEW o, NEW x \in Editors,
             Fine(d[x], up[x], ed[x], x, sock[x], accepted, o, auth.pose, auth.revision)
      PROVE  Fine(d[x], up'[x], ed[x], x, sock[x], accepted, o, auth.pose, auth.revision)
  <2>1. CASE x = e
    BY <1>1, <1>2, <1>3, <1>4, <2>1, FineWord
  <2>2. CASE x # e
    BY <1>3, <1>4, <2>2
  <2> QED
    BY <2>1, <2>2
<1> QED
  BY <1>1, <1>2, <1>3, <1>4 DEF AllFine

\* The rest of the invariant, for a step that leaves the editors' records alone.
LEMMA ServerStep ==
  ASSUME IInv, UNCHANGED <<ed, edits, auth, accepted>>,
         sock' \in [Editors -> {"open", "cut", "closed"}],
         up' \in [Editors -> Seq(UpMessages(edits))], down' \in Wires,
         lock' \in [owner : Users, lapsed : BOOLEAN], lock'.owner = NoEditor => ~lock'.lapsed,
         gestures' \in Nat, faults' \in Nat,
         \A x \in Editors : Fine(down'[x], up'[x], ed[x], x, sock'[x], accepted, lock'.owner,
                                 auth.pose, auth.revision)
  PROVE  IInv'
<1>1. TypeOK'
  BY DEF IInv, TypeOK, Wires
<1>2. EditorsFine'
  BY DEF EditorsFine
<1> QED
  BY <1>1, <1>2 DEF IInv

\* handleLockRequest keeps the invariant.
LEMMA RequestStep ==
  ASSUME IInv, NEW e \in Editors, HandleLockRequest(e)
  PROVE  IInv'
<1> DEFINE D == Expired(down)
           O == Held.owner
           P == auth.pose
           R == auth.revision
<1>1. /\ Processes(e, "lock_request") /\ UNCHANGED <<sock, ed, edits, gestures, faults, auth, accepted>>
  BY DEF HandleLockRequest, Processes, boundVars
<1>2. /\ D \in Wires /\ AllFine(D, up, accepted, O, P, R)
      /\ Held \in [owner : Users, lapsed : BOOLEAN] /\ ~Held.lapsed
  BY ExpiredFine
<1>3. /\ up' \in [Editors -> Seq(UpMessages(edits))] /\ sock[e] = "open"
      /\ AllFine(D, up', accepted, O, P, R)
  BY <1>1, <1>2, Taking
<1>4. /\ sock' \in [Editors -> {"open", "cut", "closed"}] /\ gestures' \in Nat /\ faults' \in Nat
      /\ sock' = sock /\ e \in Users
  BY <1>1 DEF IInv, TypeOK, Users
<1>5. CASE O \notin {NoEditor, e}
  <2> DEFINE m == LockMessage("lock_denied", O)
             t == Tell(D, e, m)
  <2>1. lock' = Held /\ down' = t
    BY <1>5 DEF HandleLockRequest
  <2>2. m \in DownMessages(edits) /\ m.type = "lock_denied" /\ m.owner = O /\ m.type \in LockTypes
    BY <1>2 DEF LockMessage, DownMessages, LockTypes
  <2>3. Mirrored(O, m) = O
    BY <2>2 DEF Mirrored
  <2> HIDE DEF m, D
  <2>4. t \in Wires /\ \A x \in Editors :
          t[x] = IF x = e /\ Reached(sock[x], ed[x]) THEN Append(D[x], m) ELSE D[x]
    BY <1>2, <2>2, Telling
  <2> HIDE DEF t, O
  <2>5. ASSUME NEW x \in Editors
        PROVE  Fine(t[x], up'[x], ed[x], x, sock[x], accepted, O, P, R)
    <3>1. Fine(D[x], up'[x], ed[x], x, sock[x], accepted, O, P, R) /\ D[x] \in Seq(DownMessages(edits))
      BY <1>2, <1>3 DEF AllFine, Wires
    <3>2. CASE x = e
      <4>1. Fine(IF Reached(sock[x], ed[x]) THEN Append(D[x], m) ELSE D[x],
                 up'[x], ed[x], x, sock[x], accepted, O, P, R)
        BY <1>5, <2>2, <2>3, <3>1, <3>2, FineLock
      <4> QED
        BY <2>4, <3>2, <4>1
    <3>3. CASE x # e
      BY <2>4, <3>1, <3>3
    <3> QED
      BY <3>2, <3>3
  <2> QED
    BY <1>1, <1>2, <1>3, <1>4, <2>1, <2>4, <2>5, ServerStep DEF O
<1>6. CASE O \in {NoEditor, e}
  <2> DEFINE m == LockMessage("lock_granted", e)
             k == LockMessage("lock_state_changed", e)
             t == Tell(D, e, m)
             w == TellAll(t, {e}, k)
  <2>1. lock' = [owner |-> e, lapsed |-> FALSE] /\ down' = w
    BY <1>6 DEF HandleLockRequest
  <2>2. /\ m \in DownMessages(edits) /\ m.type = "lock_granted" /\ m.owner = e /\ m.type \in LockTypes
        /\ k \in DownMessages(edits) /\ k.type = "lock_state_changed" /\ k.owner = e
        /\ k.type \in LockTypes
    BY <1>4 DEF LockMessage, DownMessages, LockTypes
  <2>3. Mirrored(O, m) = e /\ Mirrored(O, k) = e
    BY <2>2 DEF Mirrored
  <2> HIDE DEF m, k, D
  <2>4. t \in Wires /\ \A x \in Editors :
          t[x] = IF x = e /\ Reached(sock[x], ed[x]) THEN Append(D[x], m) ELSE D[x]
    BY <1>2, <2>2, Telling
  <2> HIDE DEF t
  <2>5. w \in Wires /\ \A x \in Editors :
          w[x] = IF Reached(sock[x], ed[x]) /\ x \notin {e} THEN Append(t[x], k) ELSE t[x]
    BY <2>2, <2>4, Telling
  <2> HIDE DEF w, O
  <2>6. ASSUME NEW x \in Editors
        PROVE  Fine(w[x], up'[x], ed[x], x, sock[x], accepted, e, P, R)
    <3>1. Fine(D[x], up'[x], ed[x], x, sock[x], accepted, O, P, R) /\ D[x] \in Seq(DownMessages(edits))
      BY <1>2, <1>3 DEF AllFine, Wires
    <3>2. CASE x = e
      <4>1. Fine(IF Reached(sock[x], ed[x]) THEN Append(D[x], m) ELSE D[x],
                 up'[x], ed[x], x, sock[x], accepted, e, P, R)
        BY <1>3, <2>2, <2>3, <3>1, <3>2, FineLock
      <4> QED
        BY <2>4, <2>5, <3>2, <4>1
    <3>3. CASE x # e
      <4>1. Fine(IF Reached(sock[x], ed[x]) THEN Append(D[x], k) ELSE D[x],
                 up'[x], ed[x], x, sock[x], accepted, e, P, R)
        BY <2>2, <2>3, <3>1, <3>3, FineLock
      <4> QED
        BY <2>4, <2>5, <3>3, <4>1
    <3> QED
      BY <3>2, <3>3
  <2>7. lock' \in [owner : Users, lapsed : BOOLEAN] /\ lock'.owner = e /\ ~lock'.lapsed
    BY <1>4, <2>1
  <2> QED
    BY <1>1, <1>3, <1>4, <2>1, <2>5, <2>6, <2>7, ServerStep
<1> QED
  BY <1>5, <1>6
\* handleLockRelease keeps the invariant.
LEMMA ReleaseStep ==
  ASSUME IInv, NEW e \in Editors, HandleLockRelease(e)
  PROVE  IInv'
<1> DEFINE D == Expired(down)
           O == Held.owner
           P == auth.pose
           R == auth.revision
<1>1. /\ Processes(e, "lock_release") /\ UNCHANGED <<sock, ed, edits, gestures, faults, auth, accepted>>
      /\ lock' = IF Held.owner = e THEN NoLock ELSE Held
  BY DEF HandleLockRelease, Processes, boundVars
<1>2. /\ D \in Wires /\ AllFine(D, up, accepted, O, P, R)
      /\ Held \in [owner : Users, lapsed : BOOLEAN] /\ ~Held.lapsed
  BY ExpiredFine
<1>3. /\ up' \in [Editors -> Seq(UpMessages(edits))] /\ sock[e] = "open"
      /\ AllFine(D, up', accepted, O, P, R)
  BY <1>1, <1>2, Taking
<1>4. /\ sock' \in [Editors -> {"open", "cut", "closed"}] /\ gestures' \in Nat /\ faults' \in Nat
      /\ sock' = sock /\ e \in Users /\ e # NoEditor /\ TransformAssumption
  BY <1>1, TransformAssumption DEF IInv, TypeOK, Users, TransformAssumption
<1>5. NoLock \in [owner : Users, lapsed : BOOLEAN] /\ NoLock.owner = NoEditor /\ ~NoLock.lapsed
  BY DEF NoLock, Users
<1>6. CASE O = e
  <2>1. lock' = NoLock /\ down' = Released(D, e)
    BY <1>1, <1>6 DEF HandleLockRelease
  <2>2. down' \in Wires /\ AllFine(down', up', accepted, NoEditor, P, R)
    BY <1>2, <1>3, <1>4, <1>6, <2>1, ReleasedFine
  <2> QED
    BY <1>1, <1>3, <1>4, <1>5, <2>1, <2>2, ServerStep DEF AllFine
<1>7. CASE O = NoEditor
  <2> DEFINE m == LockMessage("lock_released", NoEditor)
             t == Tell(D, e, m)
  <2>1. lock' = Held /\ down' = t
    BY <1>1, <1>4, <1>7 DEF HandleLockRelease
  <2>2. /\ m \in DownMessages(edits) /\ m.type = "lock_released" /\ m.owner = NoEditor
        /\ m.type \in LockTypes
    BY DEF LockMessage, DownMessages, LockTypes, Users
  <2>3. Mirrored(O, m) = O
    BY <1>7, <2>2 DEF Mirrored
  <2> HIDE DEF m, D
  <2>4. t \in Wires /\ \A x \in Editors :
          t[x] = IF x = e /\ Reached(sock[x], ed[x]) THEN Append(D[x], m) ELSE D[x]
    BY <1>2, <2>2, Telling
  <2> HIDE DEF t, O
  <2>5. ASSUME NEW x \in Editors
        PROVE  Fine(t[x], up'[x], ed[x], x, sock[x], accepted, O, P, R)
    <3>1. Fine(D[x], up'[x], ed[x], x, sock[x], accepted, O, P, R) /\ D[x] \in Seq(DownMessages(edits))
      BY <1>2, <1>3 DEF AllFine, Wires
    <3>2. CASE x = e
      <4>1. Fine(IF Reached(sock[x], ed[x]) THEN Append(D[x], m) ELSE D[x],
                 up'[x], ed[x], x, sock[x], accepted, O, P, R)
        BY <2>2, <2>3, <3>1, <3>2, FineLock
      <4> QED
        BY <2>4, <3>2, <4>1
    <3>3. CASE x # e
      BY <2>4, <3>1, <3>3
    <3> QED
      BY <3>2, <3>3
  <2> QED
    BY <1>1, <1>2, <1>3, <1>4, <2>1, <2>4, <2>5, ServerStep DEF O
<1>8. CASE O \notin {NoEditor, e}
  <2>1. Held.owner # e /\ Held.owner # NoEditor
    BY <1>8
  <2>2. lock' = Held
    BY <1>1, <2>1
  <2>3. down' = D
    BY <2>1 DEF HandleLockRelease
  <2> QED
    BY <1>1, <1>2, <1>3, <1>4, <2>2, <2>3, ServerStep DEF AllFine
<1> QED
  BY <1>6, <1>7, <1>8

\* handleTransformUpdate keeps the invariant.
LEMMA UpdateStep ==
  ASSUME IInv, NEW e \in Editors, HandleTransformUpdate(e)
  PROVE  IInv'
<1> DEFINE D == Expired(down)
           O == Held.owner
           P == auth.pose
           R == auth.revision
           p == Head(up[e]).pose
<1>1. /\ Processes(e, "transform_update") /\ UNCHANGED <<sock, ed, edits, gestures, faults>>
      /\ lock' = Held
  BY DEF HandleTransformUpdate, Processes, boundVars
<1>2. /\ D \in Wires /\ AllFine(D, up, accepted, O, P, R)
      /\ Held \in [owner : Users, lapsed : BOOLEAN] /\ ~Held.lapsed
  BY ExpiredFine
<1>3. /\ up' \in [Editors -> Seq(UpMessages(edits))] /\ sock[e] = "open"
      /\ up[e] \in Seq(UpMessages(edits)) /\ up[e] # << >> /\ Head(up[e]).type = "transform_update"
      /\ \A x \in Editors : up'[x] = IF x = e THEN Tail(up[x]) ELSE up[x]
  BY <1>1, Taking
<1>4. /\ sock' \in [Editors -> {"open", "cut", "closed"}] /\ gestures' \in Nat /\ faults' \in Nat
      /\ sock' = sock /\ P \in Poses(edits) /\ R \in Nat /\ edits \in Nat
      /\ auth \in [pose : Poses(edits), revision : Nat] /\ accepted \in SUBSET Poses(edits)
      /\ ed \in [Editors -> Recs(edits)] /\ Base \in accepted
  BY <1>1 DEF IInv, TypeOK
<1>5. p \in Poses(edits) /\ p[1] = e
  <2>1. Head(up[e]) \in UpMessages(edits)
    BY <1>3
  <2>2. p \in Poses(edits)
    BY <1>3, <2>1 DEF UpMessages
  <2>3. Sent(up[e], ed[e], e, accepted)
    BY DEF IInv, EditorsFine, Fine
  <2>4. Said(up[e], Updates(up[e])) = Said(Tail(up[e]), Updates(Tail(up[e]))) \cup {p}
    BY <1>3, <2>3, UpdatesTail DEF Sent
  <2> QED
    BY <2>2, <2>3, <2>4 DEF Sent
<1>6. CASE O # e
  <2> DEFINE m == [type |-> "lock_required", pose |-> p]
             t == Tell(D, e, m)
  <2>1. down' = t /\ UNCHANGED <<auth, accepted>>
    BY <1>6 DEF HandleTransformUpdate
  <2>2. m \in DownMessages(edits) /\ m.type = "lock_required" /\ m.pose = p
    BY <1>5 DEF DownMessages
  <2> HIDE DEF m, D, p
  <2>3. t \in Wires /\ \A x \in Editors :
          t[x] = IF x = e /\ Reached(sock[x], ed[x]) THEN Append(D[x], m) ELSE D[x]
    BY <1>2, <2>2, Telling
  <2> HIDE DEF t, O
  <2>4. ASSUME NEW x \in Editors
        PROVE  Fine(t[x], up'[x], ed[x], x, sock[x], accepted, O, P, R)
    <3>1. Fine(D[x], up[x], ed[x], x, sock[x], accepted, O, P, R) /\ D[x] \in Seq(DownMessages(edits))
      BY <1>2 DEF AllFine, Wires
    <3>2. CASE x = e
      <4>1. Fine(IF Reached(sock[x], ed[x]) THEN Append(D[x], m) ELSE D[x],
                 Tail(up[x]), ed[x], x, sock[x], accepted, O, P, R)
        BY <1>3, <2>2, <3>1, <3>2, FineRequired DEF p
      <4> QED
        BY <1>3, <2>3, <3>2, <4>1
    <3>3. CASE x # e
      BY <1>3, <2>3, <3>1, <3>3
    <3> QED
      BY <3>2, <3>3
  <2> QED
    BY <1>1, <1>2, <1>3, <1>4, <2>1, <2>3, <2>4, ServerStep DEF O
<1>7. CASE O = e
  <2> DEFINE m == [type |-> "transform_applied", pose |-> p, revision |-> R + 1]
             t == TellAll(D, {}, m)
             B == accepted \cup {p}
  <2>1. /\ auth' = [pose |-> p, revision |-> R + 1] /\ accepted' = B
        /\ auth'.revision = R + 1
    BY <1>7 DEF HandleTransformUpdate
  <2>2. down' = t
    BY <1>7, <2>1 DEF HandleTransformUpdate
  <2>3. /\ m \in DownMessages(edits) /\ m.type = "transform_applied" /\ m.pose = p
        /\ m.revision = R + 1
    BY <1>4, <1>5 DEF DownMessages
  <2> HIDE DEF m, D, p
  <2>4. t \in Wires /\ \A x \in Editors :
          t[x] = IF Reached(sock[x], ed[x]) THEN Append(D[x], m) ELSE D[x]
    BY <1>2, <2>3, Telling
  <2> HIDE DEF t, O
  <2>5. ASSUME NEW x \in Editors
        PROVE  Fine(t[x], up'[x], ed[x], x, sock[x], B, O, p, R + 1)
    <3>1. Fine(D[x], up[x], ed[x], x, sock[x], accepted, O, P, R) /\ D[x] \in Seq(DownMessages(edits))
      BY <1>2 DEF AllFine, Wires
    <3>2. ed[x] \in Recs(edits)
      BY <1>4
    <3> HIDE DEF P, R
    <3>3. CASE x = e
      <4>1. Fine(IF Reached(sock[x], ed[x]) THEN Append(D[x], m) ELSE D[x],
                 Tail(up[x]), ed[x], x, sock[x], accepted \cup {m.pose}, x, m.pose, R + 1)
        BY <1>3, <1>4, <1>7, <2>3, <3>1, <3>2, <3>3, FineOwn DEF p
      <4> QED
        BY <1>3, <1>7, <2>3, <2>4, <3>3, <4>1
    <3>4. CASE x # e
      <4>1. Fine(IF Reached(sock[x], ed[x]) THEN Append(D[x], m) ELSE D[x],
                 up[x], ed[x], x, sock[x], accepted \cup {m.pose}, O, m.pose, R + 1)
        BY <1>4, <1>5, <1>7, <2>3, <3>1, <3>2, <3>4, FineForeign
      <4> QED
        BY <1>3, <2>3, <2>4, <3>4, <4>1
    <3> QED
      BY <3>3, <3>4
  <2>6. TypeOK'
    <3>1. auth' \in [pose : Poses(edits), revision : Nat] /\ B \in SUBSET Poses(edits)
      BY <1>4, <1>5, <2>1
    <3> QED
      BY <1>1, <1>2, <1>3, <1>4, <2>1, <2>2, <2>4, <3>1 DEF TypeOK, Wires
  <2>7. EditorsFine'
    BY <1>1, <2>1, <2>2, <2>5 DEF EditorsFine, O
  <2>8. Base \in accepted' /\ auth'.pose \in accepted' /\ ~lock'.lapsed
    BY <1>1, <1>2, <1>4, <2>1
  <2> QED
    BY <2>6, <2>7, <2>8 DEF IInv
<1> QED
  BY <1>6, <1>7

\* The sweep of the leases keeps the invariant.
LEMMA SweepStep ==
  ASSUME IInv, Sweep
  PROVE  IInv'
<1>1. Held = NoLock /\ lock' = Held /\ down' = Expired(down)
  BY DEF Sweep, Held
<1>2. UNCHANGED <<auth, accepted, sock, up, ed, edits, gestures, faults>>
  BY DEF Sweep, boundVars
<1>3. /\ down' \in Wires /\ AllFine(down', up, accepted, lock'.owner, auth.pose, auth.revision)
      /\ lock' \in [owner : Users, lapsed : BOOLEAN] /\ ~lock'.lapsed
  BY <1>1, ExpiredFine
<1>4. /\ sock' \in [Editors -> {"open", "cut", "closed"}] /\ gestures' \in Nat /\ faults' \in Nat
      /\ up' \in [Editors -> Seq(UpMessages(edits))]
  BY <1>2 DEF IInv, TypeOK
<1> QED
  BY <1>2, <1>3, <1>4, ServerStep DEF AllFine

\* A lease that lapses keeps the invariant: nobody is told yet.
LEMMA LapseStep ==
  ASSUME IInv, Lapse
  PROVE  IInv'
<1>1. /\ lock' = [lock EXCEPT !.lapsed = TRUE] /\ faults' = faults + 1 /\ lock.owner # NoEditor
      /\ UNCHANGED <<auth, accepted, sock, up, down, ed, edits, gestures>>
  BY DEF Lapse, Fault, wireVars
<1>2. lock' \in [owner : Users, lapsed : BOOLEAN] /\ lock'.owner = lock.owner
  BY <1>1 DEF IInv, TypeOK
<1>3. /\ sock' \in [Editors -> {"open", "cut", "closed"}] /\ gestures' \in Nat /\ faults' \in Nat
      /\ up' \in [Editors -> Seq(UpMessages(edits))] /\ down' \in Wires
  BY <1>1 DEF IInv, TypeOK, Wires
<1>4. \A x \in Editors : Fine(down'[x], up'[x], ed[x], x, sock'[x], accepted, lock'.owner,
                             auth.pose, auth.revision)
  BY <1>1, <1>2 DEF IInv, EditorsFine
<1> QED
  BY <1>1, <1>2, <1>3, <1>4, ServerStep

\* A cut socket keeps the invariant.
LEMMA TerminateStep ==
  ASSUME IInv, NEW e \in Editors, Terminate(e)
  PROVE  IInv'
<1>1. /\ sock' = [sock EXCEPT ![e] = "cut"] /\ up' = [up EXCEPT ![e] = << >>] /\ faults' = faults + 1
      /\ UNCHANGED <<lock, auth, accepted, down, ed, edits, gestures>>
  BY DEF Terminate, Fault, sessionVars
<1>2. /\ lock' \in [owner : Users, lapsed : BOOLEAN] /\ (lock'.owner = NoEditor => ~lock'.lapsed)
      /\ sock' \in [Editors -> {"open", "cut", "closed"}] /\ gestures' \in Nat /\ faults' \in Nat
      /\ up' \in [Editors -> Seq(UpMessages(edits))] /\ down' \in Wires
      /\ \A x \in Editors : /\ up'[x] = IF x = e THEN << >> ELSE up[x]
                            /\ sock'[x] = IF x = e THEN "cut" ELSE sock[x]
  BY <1>1 DEF IInv, TypeOK, Wires
<1>3. ASSUME NEW x \in Editors
      PROVE  Fine(down[x], up'[x], ed[x], x, sock'[x], accepted, lock.owner, auth.pose, auth.revision)
  <2>1. Fine(down[x], up[x], ed[x], x, sock[x], accepted, lock.owner, auth.pose, auth.revision)
    BY DEF IInv, EditorsFine
  <2>2. CASE x = e
    BY <1>2, <2>1, <2>2, FineCut
  <2>3. CASE x # e
    BY <1>2, <2>1, <2>3
  <2> QED
    BY <2>2, <2>3
<1> QED
  BY <1>1, <1>2, <1>3, ServerStep

\* The close event keeps the invariant.
LEMMA CloseStep ==
  ASSUME IInv, NEW e \in Editors, ServerClose(e)
  PROVE  IInv'
<1> DEFINE w == IF lock.owner = e THEN NoEditor ELSE lock.owner
<1>1. /\ sock' = [sock EXCEPT ![e] = "closed"] /\ up' = [up EXCEPT ![e] = << >>]
      /\ down' = ReleasesOf(down, e) /\ lock' = IF lock.owner = e THEN NoLock ELSE lock
      /\ UNCHANGED <<auth, accepted, ed, edits, gestures, faults>>
  BY DEF ServerClose, boundVars
<1>2. NoLock \in [owner : Users, lapsed : BOOLEAN] /\ NoLock.owner = NoEditor /\ ~NoLock.lapsed
  BY DEF NoLock, Users
<1>3. /\ lock' \in [owner : Users, lapsed : BOOLEAN] /\ (lock'.owner = NoEditor => ~lock'.lapsed)
      /\ sock' \in [Editors -> {"open", "cut", "closed"}] /\ gestures' \in Nat /\ faults' \in Nat
      /\ up' \in [Editors -> Seq(UpMessages(edits))] /\ lock'.owner = w
      /\ \A x \in Editors : /\ up'[x] = IF x = e THEN << >> ELSE up[x]
                            /\ sock'[x] = IF x = e THEN "closed" ELSE sock[x]
  BY <1>1, <1>2 DEF IInv, TypeOK
<1>4. down \in Wires /\ AllFine(down, up, accepted, lock.owner, auth.pose, auth.revision) /\ e \in Users
  BY DEF IInv, TypeOK, EditorsFine, AllFine, Wires, Users
<1>5. down' \in Wires /\ AllFine(down', up, accepted, w, auth.pose, auth.revision)
  BY <1>1, <1>4, ReleasedFine, TransformAssumption DEF ReleasesOf
<1> HIDE DEF w
<1>6. ASSUME NEW x \in Editors
      PROVE  Fine(down'[x], up'[x], ed[x], x, sock'[x], accepted, w, auth.pose, auth.revision)
  <2>1. Fine(down'[x], up[x], ed[x], x, sock[x], accepted, w, auth.pose, auth.revision)
    BY <1>5 DEF AllFine
  <2>2. CASE x = e
    BY <1>3, <2>1, <2>2, FineCut
  <2>3. CASE x # e
    BY <1>3, <2>1, <2>3
  <2> QED
    BY <2>2, <2>3
<1> QED
  BY <1>1, <1>3, <1>5, <1>6, ServerStep
\* A wire of two messages, read to its end.
LEMMA ReadsTwo ==
  ASSUME NEW o, NEW S, NEW s \in Seq(S)
  PROVE  Len(s) = 2 => Reads(o, s)[2] = Mirrored(Mirrored(o, s[1]), s[2])
<1>1. /\ Reads(o, s)[0] = o
      /\ \A i \in 1 .. Len(s) : Reads(o, s)[i] = Mirrored(Reads(o, s)[i - 1], s[i])
  BY ReadsDef
<1> HAVE Len(s) = 2
<1>2. Reads(o, s)[1] = Mirrored(Reads(o, s)[1 - 1], s[1])
  BY <1>1
<1>3. Reads(o, s)[2] = Mirrored(Reads(o, s)[2 - 1], s[2])
  BY <1>1
<1> QED
  BY <1>1, <1>2, <1>3

\* An editor on its way back: what it kept of the session is gone, the two snapshots
\* are all that is under way.
LEMMA FineBack ==
  ASSUME NEW n \in Nat, NEW c \in Recs(n), NEW e \in Editors, NEW A, Sound(c, e, A),
         c.stage = "off", NEW o \in Users, o # e, NEW p \in A, NEW r \in Nat,
         NEW d, d.stage = "hello", d.out = << >>,
         d.known = c.known /\ d.seen = c.seen /\ d.last = c.last /\ d.ops = c.ops,
         d.tracked = c.tracked /\ d.granted = c.granted /\ d.pose = c.pose,
         d.protected = c.protected /\ d.deferred = c.deferred /\ d.recoverable = c.recoverable,
         d.unseen = c.unseen /\ d.blocked = c.blocked,
         NEW s \in Seq(DownMessages(n)), Len(s) = 2, DOMAIN s = {1, 2},
         s[1].type = "hierarchy_snapshot" /\ s[1].pose = p,
         s[2].type = "transform_snapshot" /\ s[2].pose = p,
         s[2].revision = r /\ s[2].owner = o
  PROVE  Fine(s, << >>, d, e, "open", A, o, p, r)
<1>1. /\ ~c.tracked /\ c.ops = {} /\ c.known = NoEditor /\ c.seen = 0 /\ ~c.protected /\ ~c.granted
      /\ ~c.unseen /\ ~c.blocked
  BY DEF Sound, Core, Shape
<1>2. Sound(d, e, A)
  BY <1>1 DEF Sound, Core, Shape, Asked, Shown, Spare, Newest
<1>3. Updates(<< >>) = {} /\ Said(<< >>, {}) = {} /\ InOrder(<< >>, {})
  BY DEF Updates, Said, InOrder
<1>4. Answers(s, e) = {} /\ Said(s, {}) = {} /\ InOrder(s, {})
  BY DEF Answers, Own, Said, InOrder
<1>5. Sent(<< >>, d, e, A) /\ Hold(s, e, o)
  BY <1>3 DEF Sent, Hold
<1>6. Wire(s, << >>, d, e, A, r)
  <2>1. Placed(s, d)
    BY DEF Placed
  <2>2. Tidy(s, e) /\ Mirrors(s, d, e)
    BY DEF Tidy, Mirrors
  <2>3. Answered(s, << >>, d, e, A)
    BY <1>1, <1>3, <1>4 DEF Answered
  <2>4. Revised(s, d, r)
    BY <1>1 DEF Revised, Revision
  <2> QED
    BY <2>1, <2>2, <2>3, <2>4 DEF Wire
<1>7. Live(s, << >>, d, e, o, p)
  <2>1. Reads(d.known, s)[2] = o
    <3>1. Reads(d.known, s)[2] = Mirrored(Mirrored(d.known, s[1]), s[2])
      BY ReadsTwo
    <3> QED
      BY <3>1 DEF Mirrored
  <2>2. Truth(s, d, p)
    BY DEF Truth, Valued
  <2> QED
    BY <1>1, <2>1, <2>2 DEF Live
<1> QED
  BY <1>2, <1>5, <1>6, <1>7 DEF Fine

\* A connection that comes back starts with the two snapshots.
LEMMA RejoinStep ==
  ASSUME IInv, NEW e \in Editors, Rejoin(e)
  PROVE  IInv'
<1> DEFINE o == IF lock.owner = e \/ lock.lapsed THEN NoEditor ELSE lock.owner
           told == IF lock.owner = e THEN ReleasesOf(down, e) ELSE Expired(down)
           P == auth.pose
           R == auth.revision
           s == <<[type |-> "hierarchy_snapshot", pose |-> P],
                  [type |-> "transform_snapshot", pose |-> P, revision |-> R, owner |-> o]>>
           d == [ed[e] EXCEPT !.stage = "hello", !.touched = ed[e].dirty]
<1>1. /\ ed[e].stage = "off" /\ lock' = IF o = NoEditor THEN NoLock ELSE lock
      /\ down' = [told EXCEPT ![e] = s]
      /\ sock' = [sock EXCEPT ![e] = "open"] /\ up' = [up EXCEPT ![e] = << >>]
      /\ ed' = [ed EXCEPT ![e].stage = "hello", ![e].touched = ed[e].dirty]
      /\ UNCHANGED <<auth, accepted, edits, gestures, faults>>
  BY DEF Rejoin, boundVars
<1>2. NoLock \in [owner : Users, lapsed : BOOLEAN] /\ NoLock.owner = NoEditor /\ ~NoLock.lapsed
  BY DEF NoLock, Users
<1>3. /\ down \in Wires /\ AllFine(down, up, accepted, lock.owner, P, R) /\ e \in Users /\ e # NoEditor
      /\ lock \in [owner : Users, lapsed : BOOLEAN] /\ lock.owner \in Users /\ NoEditor \in Users
      /\ lock.owner = NoEditor => ~lock.lapsed
      /\ ed \in [Editors -> Recs(edits)] /\ edits \in Nat /\ R \in Nat /\ P \in Poses(edits)
      /\ P \in accepted
  BY TransformAssumption
     DEF IInv, TypeOK, EditorsFine, AllFine, Wires, Users, TransformAssumption
<1>4. told \in Wires /\ AllFine(told, up, accepted, o, P, R)
  <2>1. CASE lock.owner = e
    BY <1>3, <2>1, ReleasedFine, TransformAssumption DEF ReleasesOf
  <2>2. CASE lock.owner # e /\ lock.lapsed
    BY <1>3, <2>2, ReleasedFine, TransformAssumption DEF Expired
  <2>3. CASE lock.owner # e /\ ~lock.lapsed
    BY <1>3, <2>3 DEF Expired
  <2> QED
    BY <2>1, <2>2, <2>3
<1>5. /\ lock' \in [owner : Users, lapsed : BOOLEAN] /\ lock'.owner = o
      /\ lock'.owner = NoEditor => ~lock'.lapsed
  <2>1. CASE o = NoEditor
    BY <1>1, <1>2, <2>1
  <2>2. CASE o # NoEditor
    BY <1>1, <1>3, <2>2
  <2> QED
    BY <2>1, <2>2
<1>6. o \in Users /\ o # e
  BY <1>3
<1> HIDE DEF o, told
<1>7. ed[e] \in Recs(edits) /\ Sound(ed[e], e, accepted) /\ ed[e].out = << >>
  BY <1>3 DEF AllFine, Fine
<1>8. ed[e].dirty \in BOOLEAN
  BY <1>7 DEF Recs
<1>9. /\ d \in Recs(edits) /\ s \in Seq(DownMessages(edits))
      /\ Fine(s, << >>, d, e, "open", accepted, o, P, R)
  <2> DEFINE c == ed[e]
             h == [type |-> "hierarchy_snapshot", pose |-> P]
             k == [type |-> "transform_snapshot", pose |-> P, revision |-> R, owner |-> o]
  <2>1. c \in Recs(edits) /\ Sound(c, e, accepted) /\ c.stage = "off"
    BY <1>1, <1>7
  <2>2. d \in Recs(edits)
    BY <1>7, <1>8 DEF Recs
  <2>3. /\ d.stage = "hello" /\ d.out = << >> /\ d.known = c.known /\ d.seen = c.seen
        /\ d.last = c.last /\ d.ops = c.ops /\ d.tracked = c.tracked /\ d.granted = c.granted
        /\ d.pose = c.pose /\ d.protected = c.protected /\ d.deferred = c.deferred
        /\ d.recoverable = c.recoverable /\ d.unseen = c.unseen /\ d.blocked = c.blocked
    BY <1>7 DEF Recs
  <2> HIDE DEF c, d, P, R
  <2>4. /\ h \in DownMessages(edits) /\ h.type = "hierarchy_snapshot" /\ h.pose = P
        /\ k \in DownMessages(edits) /\ k.type = "transform_snapshot" /\ k.pose = P
        /\ k.revision = R /\ k.owner = o
    BY <1>3, <1>6 DEF DownMessages
  <2>5. s = <<h, k>>
    OBVIOUS
  <2> HIDE DEF h, k, s
  <2>6. /\ s \in Seq(DownMessages(edits)) /\ Len(s) = 2 /\ DOMAIN s = {1, 2}
        /\ s[1] = h /\ s[2] = k
    BY <2>4, <2>5
  <2>7. Fine(s, << >>, d, e, "open", accepted, o, P, R)
    BY <1>3, <1>6, <2>1, <2>3, <2>4, <2>6, FineBack
  <2> QED
    BY <2>2, <2>6, <2>7
<1>10. ed' = [ed EXCEPT ![e] = d]
  BY <1>1, <1>3, <1>7 DEF Recs
<1> HIDE DEF d, s, P, R
<1>11. /\ sock' \in [Editors -> {"open", "cut", "closed"}] /\ gestures' \in Nat /\ faults' \in Nat
       /\ up' \in [Editors -> Seq(UpMessages(edits))] /\ down' \in Wires
       /\ ed' \in [Editors -> Recs(edits)]
  <2>1. sock' \in [Editors -> {"open", "cut", "closed"}] /\ gestures' \in Nat /\ faults' \in Nat
    BY <1>1 DEF IInv, TypeOK
  <2>2. up' \in [Editors -> Seq(UpMessages(edits))]
    BY <1>1 DEF IInv, TypeOK
  <2>3. down' \in Wires
    BY <1>1, <1>4, <1>9 DEF Wires
  <2>4. ed' \in [Editors -> Recs(edits)]
    BY <1>3, <1>9, <1>10
  <2> QED
    BY <2>1, <2>2, <2>3, <2>4
<1>12. \A x \in Editors : /\ up'[x] = IF x = e THEN << >> ELSE up[x]
                          /\ sock'[x] = IF x = e THEN "open" ELSE sock[x]
                          /\ down'[x] = IF x = e THEN s ELSE told[x]
                          /\ ed'[x] = IF x = e THEN d ELSE ed[x]
  BY <1>1, <1>3, <1>4, <1>10 DEF IInv, TypeOK, Wires
<1>13. ASSUME NEW x \in Editors
       PROVE  Fine(down'[x], up'[x], ed'[x], x, sock'[x], accepted, o, P, R)
  <2>1. CASE x = e
    BY <1>9, <1>12, <2>1
  <2>2. CASE x # e
    BY <1>4, <1>12, <2>2 DEF AllFine
  <2> QED
    BY <2>1, <2>2
<1>14. TypeOK'
  BY <1>1, <1>5, <1>11 DEF IInv, TypeOK, Wires
<1>15. EditorsFine'
  BY <1>1, <1>5, <1>13 DEF EditorsFine, P, R
<1> QED
  BY <1>1, <1>5, <1>14, <1>15 DEF IInv
-----------------------------------------------------------------------------
(* The steps of an editor.                                                   *)

\* What an editor said is on its wire.
LEMMA FineSilenced ==
  ASSUME NEW n \in Nat, NEW d \in Recs(n), NEW s, NEW v, NEW e, NEW x, NEW A, NEW o, NEW p, NEW r,
         Sound(d, e, A), Sent(v, d, e, A), d.stage = "off" => s = << >>, Hold(s, e, o),
         d.stage # "refused" => /\ Wire(s, v, d, e, A, r)
                                /\ Reached(x, d) => Live(s, v, d, e, o, p)
  PROVE  LET f == [d EXCEPT !.out = << >>] IN
         f \in Recs(n) /\ Fine(s, v, f, e, x, A, o, p, r)
<1> DEFINE f == [d EXCEPT !.out = << >>]
<1>1. f \in Recs(n) /\ f.out = << >> /\ f = [d EXCEPT !.out = f.out]
  <2>1. << >> \in Seq(UpMessages(n))
    OBVIOUS
  <2>2. f \in Recs(n)
    BY <2>1 DEF Recs
  <2>3. f.out = << >>
    BY DEF Recs
  <2> QED
    BY <2>2, <2>3
<1> HIDE DEF f
<1>2. Sound(f, e, A) /\ Stays(d, f) /\ f.ops = d.ops
  BY <1>1, ApartFromWords
<1>3. f.stage = d.stage /\ f.known = d.known /\ f.seen = d.seen /\ f.last = d.last /\ f.ops = d.ops
  BY <1>2 DEF Stays
<1>4. Sent(v, f, e, A) /\ (Reached(x, f) <=> Reached(x, d))
  BY <1>3 DEF Sent, Reached
<1>5. Wire(s, v, d, e, A, r) => Wire(s, v, f, e, A, r)
  <2>1. Placed(s, d) => Placed(s, f)
    BY <1>3 DEF Placed
  <2>2. Mirrors(s, d, e) => Mirrors(s, f, e)
    BY <1>3 DEF Mirrors
  <2>3. Answered(s, v, d, e, A) => Answered(s, v, f, e, A)
    BY <1>3 DEF Answered
  <2>4. Revised(s, d, r) => Revised(s, f, r)
    BY <1>3 DEF Revised
  <2> QED
    BY <2>1, <2>2, <2>3, <2>4 DEF Wire
<1>6. Live(s, v, d, e, o, p) => Live(s, v, f, e, o, p)
  BY <1>3 DEF Live, Truth
<1>7. Fine(s, v, f, e, x, A, o, p, r)
  BY <1>1, <1>2, <1>3, <1>4, <1>5, <1>6 DEF Fine
<1> QED
  BY <1>1, <1>7 DEF f

\* The wire to the server after d has spoken.
After(e, d) == IF sock[e] = "open" THEN up[e] \o d.out ELSE << >>

\* An editor becomes d and its wire s.
LEMMA EditorStep ==
  ASSUME IInv, NEW e \in Editors, NEW d \in Recs(edits), Becomes(e, d),
         UNCHANGED <<lock, auth, accepted, sock, edits>>, gestures' \in Nat, faults' \in Nat,
         NEW s \in Seq(DownMessages(edits)), down' = [down EXCEPT ![e] = s],
         Sound(d, e, accepted), Sent(After(e, d), d, e, accepted),
         d.stage = "off" => s = << >>, Hold(s, e, lock.owner),
         d.stage # "refused" =>
           /\ Wire(s, After(e, d), d, e, accepted, auth.revision)
           /\ Reached(sock[e], d) => Live(s, After(e, d), d, e, lock.owner, auth.pose)
  PROVE  IInv'
<1> DEFINE f == [d EXCEPT !.out = << >>]
           v == After(e, d)
<1>1. /\ ed \in [Editors -> Recs(edits)] /\ edits \in Nat /\ down \in [Editors -> Seq(DownMessages(edits))]
      /\ up \in [Editors -> Seq(UpMessages(edits))]
  BY DEF IInv, TypeOK
<1>2. ed' = [ed EXCEPT ![e] = f] /\ up' = [up EXCEPT ![e] = v]
  BY DEF Becomes, After
<1>3. v \in Seq(UpMessages(edits))
  <2>1. d.out \in Seq(UpMessages(edits)) /\ up[e] \in Seq(UpMessages(edits))
    BY <1>1 DEF Recs
  <2>2. up[e] \o d.out \in Seq(UpMessages(edits)) /\ << >> \in Seq(UpMessages(edits))
    BY <2>1
  <2> QED
    BY <2>2 DEF After
<1> HIDE DEF v
<1>4. f \in Recs(edits) /\ Fine(s, v, f, e, sock[e], accepted, lock.owner, auth.pose, auth.revision)
  BY <1>1, FineSilenced DEF v
<1> HIDE DEF f
<1>5. /\ ed' \in [Editors -> Recs(edits)] /\ up' \in [Editors -> Seq(UpMessages(edits))]
      /\ down' \in [Editors -> Seq(DownMessages(edits))]
  BY <1>1, <1>2, <1>3, <1>4
<1>6. \A x \in Editors : /\ ed'[x] = IF x = e THEN f ELSE ed[x]
                         /\ up'[x] = IF x = e THEN v ELSE up[x]
                         /\ down'[x] = IF x = e THEN s ELSE down[x]
  BY <1>1, <1>2
<1>7. TypeOK'
  BY <1>5 DEF IInv, TypeOK
<1>8. EditorsFine'
  <2>1. ASSUME NEW x \in Editors
        PROVE  Fine(down'[x], up'[x], ed'[x], x, sock[x], accepted, lock.owner, auth.pose, auth.revision)
    <3>1. CASE x = e
      BY <1>4, <1>6, <3>1
    <3>2. CASE x # e
      BY <1>6, <3>2 DEF IInv, EditorsFine
    <3> QED
      BY <3>1, <3>2
  <2> QED
    BY <2>1 DEF EditorsFine
<1> QED
  BY <1>7, <1>8 DEF IInv

\* What is known of an editor and its wires.
LEMMA EditorFine ==
  ASSUME IInv, NEW e \in Editors
  PROVE  /\ ed[e] \in Recs(edits) /\ edits \in Nat /\ accepted \in SUBSET Poses(edits)
         /\ up[e] \in Seq(UpMessages(edits)) /\ down[e] \in Seq(DownMessages(edits))
         /\ Sound(ed[e], e, accepted) /\ ed[e].out = << >> /\ Mute(ed[e].out)
         /\ Sent(up[e], ed[e], e, accepted) /\ Hold(down[e], e, lock.owner)
         /\ ed[e].stage = "off" => down[e] = << >>
         /\ ed[e].stage # "refused" =>
              /\ Wire(down[e], up[e], ed[e], e, accepted, auth.revision)
              /\ Reached(sock[e], ed[e]) =>
                   Live(down[e], up[e], ed[e], e, lock.owner, auth.pose)
<1>1. Mute(<< >>)
  BY DEF Mute, Updates
<1>2. Fine(down[e], up[e], ed[e], e, sock[e], accepted, lock.owner, auth.pose, auth.revision)
  BY DEF IInv, EditorsFine
<1> QED
  BY <1>1, <1>2 DEF Fine, IInv, TypeOK

\* An editor acts on its own: it becomes d, and its wire from the server stays.
LEMMA ActsStep ==
  ASSUME IInv, NEW e \in Editors, NEW d \in Recs(edits), Becomes(e, d),
         UNCHANGED <<lock, auth, accepted, sock, down, edits>>, gestures' \in Nat, faults' \in Nat,
         Sound(d, e, accepted), Stays(ed[e], d), Says(ed[e], d, e, accepted)
  PROVE  IInv'
<1> DEFINE c == ed[e]
           u == up[e]
           s == down[e]
<1>1. /\ c \in Recs(edits) /\ edits \in Nat /\ u \in Seq(UpMessages(edits))
      /\ s \in Seq(DownMessages(edits)) /\ Sound(c, e, accepted) /\ Sent(u, c, e, accepted)
      /\ Hold(s, e, lock.owner) /\ (c.stage = "off" => s = << >>)
      /\ c.stage # "refused" => /\ Wire(s, u, c, e, accepted, auth.revision)
                                /\ Reached(sock[e], c) => Live(s, u, c, e, lock.owner, auth.pose)
  BY EditorFine
<1>2. down' = [down EXCEPT ![e] = s]
  BY DEF IInv, TypeOK
<1>3. Stays(c, d) /\ Says(c, d, e, accepted)
  OBVIOUS
<1> HIDE DEF c, u, s
<1>4. d.stage = c.stage
  BY <1>3 DEF Stays
<1>5. /\ Sent(u \o d.out, d, e, accepted) /\ Sent(<< >>, d, e, accepted)
      /\ c.stage # "refused" =>
           /\ Wire(s, u \o d.out, d, e, accepted, auth.revision)
           /\ Wire(s, << >>, d, e, accepted, auth.revision)
           /\ \A o, p : Live(s, u, c, e, o, p) => Live(s, u \o d.out, d, e, o, p)
  <2> DEFINE n == edits
             r == auth.revision
  <2>1. n \in Nat /\ u \in Seq(UpMessages(n)) /\ d \in Recs(n)
    BY <1>1
  <2>2. c.stage # "refused" => Wire(s, u, c, e, accepted, r)
    BY <1>1
  <2> HIDE DEF n, r
  <2>3. /\ Sent(u \o d.out, d, e, accepted) /\ Sent(<< >>, d, e, accepted)
        /\ c.stage # "refused" =>
             /\ Wire(s, u \o d.out, d, e, accepted, r) /\ Wire(s, << >>, d, e, accepted, r)
             /\ \A o, p : Live(s, u, c, e, o, p) => Live(s, u \o d.out, d, e, o, p)
    BY <1>1, <1>3, <2>1, <2>2, SpeaksWire
  <2> QED
    BY <2>3 DEF r
<1>6. After(e, d) = IF sock[e] = "open" THEN u \o d.out ELSE << >>
  BY DEF After, u
<1>7. Sent(After(e, d), d, e, accepted)
  BY <1>5, <1>6
<1>8. d.stage # "refused" =>
        /\ Wire(s, After(e, d), d, e, accepted, auth.revision)
        /\ Reached(sock[e], d) => Live(s, After(e, d), d, e, lock.owner, auth.pose)
  BY <1>1, <1>4, <1>5, <1>6 DEF Reached
<1> QED
  BY <1>1, <1>2, <1>4, <1>7, <1>8, EditorStep
\* What two steps of an editor come to, when at most the first or the second speaks.
LEMMA SaysThen ==
  ASSUME NEW c, NEW b, NEW d, NEW e, NEW A,
         Stays(c, b), Stays(b, d),
         \/ b.ops = c.ops /\ Says(b, d, e, A)
         \/ Says(c, b, e, A) /\ d.ops = b.ops /\ (Mute(b.out) => Mute(d.out))
              /\ (\A x : Spoke(b.out, x) => Spoke(d.out, x))
  PROVE  Stays(c, d) /\ Says(c, d, e, A)
BY DEF Stays, Says, Fresh

\* The guards of the gestures.
LEMMA Gestures ==
  ASSUME IInv, NEW e \in Editors, Gesture(e)
  PROVE  /\ UNCHANGED <<lock, auth, accepted, sock, down, edits>>
         /\ gestures' \in Nat /\ faults' \in Nat
BY DEF IInv, TypeOK, Gesture, sessionVars

\* Selecting keeps the invariant.
LEMMA SelectStep ==
  ASSUME IInv, NEW e \in Editors, Select(e)
  PROVE  IInv'
<1> DEFINE c == ed[e]
           b == [c EXCEPT !.selected = TRUE]
<1>1. PICK ask \in BOOLEAN : Becomes(e, BeginTracking(b, e, ask))
  BY DEF Select
<1>2. c \in Recs(edits) /\ edits \in Nat /\ Sound(c, e, accepted) /\ Mute(c.out)
  BY EditorFine
<1> DEFINE d == BeginTracking(b, e, ask)
<1>3. /\ b \in Recs(edits) /\ Sound(b, e, accepted) /\ Stays(c, b) /\ b.ops = c.ops
      /\ b.out = c.out
  <2>1. b \in {Selected(c), Unselected(c), Saved(c)}
    BY DEF Selected
  <2> HIDE DEF b, c
  <2> QED
    BY <1>2, <2>1, AsideSound
<1>4. Becomes(e, d)
  BY <1>1
<1> HIDE DEF b
<1>5. /\ d \in Recs(edits) /\ Sound(d, e, accepted)
      /\ Stays(b, d) /\ d.ops = b.ops /\ (Mute(b.out) => Mute(d.out))
  BY <1>2, <1>3, BeginSound
<1> HIDE DEF d
<1>6. Says(b, d, e, accepted)
  BY <1>2, <1>3, <1>5 DEF Says
<1>7. Stays(c, d) /\ Says(c, d, e, accepted)
  BY <1>3, <1>5, <1>6, SaysThen
<1>8. Gesture(e)
  BY DEF Select
<1> QED
  BY <1>4, <1>5, <1>7, <1>8, Gestures, ActsStep

\* Deselecting keeps the invariant.
LEMMA DeselectStep ==
  ASSUME IInv, NEW e \in Editors, Deselect(e)
  PROVE  IInv'
<1> DEFINE c == ed[e]
<1>1. PICK late \in Lateness(e) : Becomes(e, [FinishTracking(c, e, late) EXCEPT !.selected = FALSE])
  BY DEF Deselect
<1> DEFINE b == FinishTracking(c, e, late)
           d == [b EXCEPT !.selected = FALSE]
<1>2. c \in Recs(edits) /\ edits \in Nat /\ Sound(c, e, accepted) /\ Mute(c.out)
      /\ accepted \in SUBSET Poses(edits)
  BY EditorFine
<1>3. b \in Recs(edits) /\ Sound(b, e, accepted) /\ Stays(c, b) /\ Says(c, b, e, accepted)
  BY <1>2, FinishSound
<1>4. Becomes(e, d)
  BY <1>1
<1> HIDE DEF b
<1>5. /\ d \in Recs(edits) /\ Sound(d, e, accepted) /\ Stays(b, d) /\ d.ops = b.ops
      /\ d.out = b.out
  <2>1. d \in {Selected(b), Unselected(b), Saved(b)}
    BY DEF Unselected
  <2>2. b \in Recs(edits) /\ Sound(b, e, accepted) /\ edits \in Nat
    BY <1>2, <1>3
  <2> HIDE DEF c, d
  <2> QED
    BY <2>1, <2>2, AsideSound
<1> HIDE DEF d
<1>6. Stays(c, d) /\ Says(c, d, e, accepted)
  BY <1>3, <1>5, SaysThen
<1>7. Gesture(e)
  BY DEF Deselect
<1> QED
  BY <1>4, <1>5, <1>6, <1>7, Gestures, ActsStep

\* Saving keeps the invariant.
LEMMA SaveStep ==
  ASSUME IInv, NEW e \in Editors, Save(e)
  PROVE  IInv'
<1> DEFINE c == ed[e]
<1>1. PICK late \in Lateness(e) :
        Becomes(e, BeginTracking([FinishTracking(c, e, late) EXCEPT !.dirty = FALSE], e, TRUE))
  BY DEF Save
<1> DEFINE b == FinishTracking(c, e, late)
           k == [b EXCEPT !.dirty = FALSE]
           d == BeginTracking(k, e, TRUE)
<1>2. c \in Recs(edits) /\ edits \in Nat /\ Sound(c, e, accepted) /\ Mute(c.out)
      /\ accepted \in SUBSET Poses(edits)
  BY EditorFine
<1>3. b \in Recs(edits) /\ Sound(b, e, accepted) /\ Stays(c, b) /\ Says(c, b, e, accepted)
  BY <1>2, FinishSound
<1>4. Becomes(e, d)
  BY <1>1
<1> HIDE DEF b
<1>5. /\ k \in Recs(edits) /\ Sound(k, e, accepted) /\ Stays(b, k) /\ k.ops = b.ops
      /\ k.out = b.out
  <2>1. k \in {Selected(b), Unselected(b), Saved(b)}
    BY DEF Saved
  <2> HIDE DEF k
  <2> QED
    BY <1>2, <1>3, <2>1, AsideSound
<1> HIDE DEF k
<1>6. Stays(c, k) /\ Says(c, k, e, accepted)
  BY <1>3, <1>5, SaysThen
<1>7. /\ d \in Recs(edits) /\ Sound(d, e, accepted)
      /\ Stays(k, d) /\ d.ops = k.ops /\ (Mute(k.out) => Mute(d.out))
  BY <1>2, <1>5, BeginSound
<1>8. \A x : Spoke(k.out, x) => Spoke(d.out, x)
  BY <1>2, <1>5, BeginSpoke
<1> HIDE DEF d
<1>9. Stays(c, d) /\ Says(c, d, e, accepted)
  BY <1>6, <1>7, <1>8, SaysThen
<1>10. Gesture(e)
  BY DEF Save
<1> QED
  BY <1>4, <1>7, <1>9, <1>10, Gestures, ActsStep

\* The button that asks for the lock keeps the invariant.
LEMMA AskStep ==
  ASSUME IInv, NEW e \in Editors, RequestLock(e)
  PROVE  IInv'
<1> DEFINE c == ed[e]
           d == SendLockRequest(c, e)
<1>1. Becomes(e, d) /\ Gesture(e)
  BY DEF RequestLock
<1>2. c \in Recs(edits) /\ edits \in Nat /\ Sound(c, e, accepted) /\ Mute(c.out)
  BY EditorFine
<1>3. /\ d \in Recs(edits) /\ Sound(d, e, accepted)
      /\ Stays(c, d) /\ d.ops = c.ops /\ (Mute(c.out) => Mute(d.out))
  BY <1>2, RequestSound
<1> HIDE DEF d
<1>4. Says(c, d, e, accepted)
  BY <1>2, <1>3 DEF Says
<1> QED
  BY <1>1, <1>3, <1>4, Gestures, ActsStep

\* The button that releases the lock keeps the invariant.
LEMMA LeaveLockStep ==
  ASSUME IInv, NEW e \in Editors, ReleaseLock(e)
  PROVE  IInv'
<1> DEFINE c == ed[e]
<1>1. PICK late \in Lateness(e) : Becomes(e, NoHold(Send(TrySend(c, late), LockRelease)))
  BY DEF ReleaseLock
<1> DEFINE b == TrySend(c, late)
           k == Send(b, LockRelease)
           d == NoHold(k)
<1>2. c \in Recs(edits) /\ edits \in Nat /\ Sound(c, e, accepted) /\ Mute(c.out)
      /\ accepted \in SUBSET Poses(edits)
  BY EditorFine
<1>3. b \in Recs(edits) /\ Sound(b, e, accepted) /\ Stays(c, b) /\ Says(c, b, e, accepted)
  BY <1>2, TrySendSound
<1>4. Becomes(e, d)
  BY <1>1
<1> HIDE DEF b
<1>5. /\ k \in Recs(edits) /\ Sound(k, e, accepted) /\ Stays(b, k) /\ k.ops = b.ops
      /\ (Mute(b.out) => Mute(k.out)) /\ \A x : Spoke(b.out, x) => Spoke(k.out, x)
  BY <1>2, <1>3, WordSound
<1> HIDE DEF k
<1>6. Stays(c, k) /\ Says(c, k, e, accepted)
  BY <1>3, <1>5, SaysThen
<1>7. Core(k, e, accepted) /\ Spare(k, e, accepted)
  BY <1>5 DEF Sound
<1>8. /\ d \in Recs(edits) /\ Sound(d, e, accepted)
      /\ Stays(k, d) /\ d.ops = k.ops /\ d.out = k.out
  BY <1>2, <1>5, <1>7, NoHoldSound
<1> HIDE DEF d
<1>9. Stays(c, d) /\ Says(c, d, e, accepted)
  BY <1>6, <1>8, SaysThen
<1>10. Gesture(e)
  BY DEF ReleaseLock
<1> QED
  BY <1>4, <1>8, <1>9, <1>10, Gestures, ActsStep

\* A frame keeps the invariant.
LEMMA FrameStep ==
  ASSUME IInv, NEW e \in Editors, Frame(e)
  PROVE  IInv'
<1> DEFINE c == ed[e]
<1>1. PICK late \in Lateness(e), hot \in BOOLEAN : Becomes(e, Frames(c, e, late, hot))
  BY DEF Frame
<1> DEFINE d == Frames(c, e, late, hot)
<1>2. /\ c.tracked /\ UNCHANGED <<lock, auth, accepted, sock, down, edits>>
      /\ gestures' \in Nat /\ faults' \in Nat
  BY DEF Frame, sessionVars, boundVars, IInv, TypeOK
<1>3. c \in Recs(edits) /\ edits \in Nat /\ Sound(c, e, accepted) /\ Mute(c.out)
      /\ accepted \in SUBSET Poses(edits)
  BY EditorFine
<1>4. d \in Recs(edits) /\ Sound(d, e, accepted) /\ Stays(c, d) /\ Says(c, d, e, accepted)
  BY <1>2, <1>3, FrameSound
<1>5. Becomes(e, d)
  BY <1>1
<1> HIDE DEF d
<1> QED
  BY <1>2, <1>4, <1>5, ActsStep

\* A frame that renews the lease keeps the invariant.
LEMMA RenewingStep ==
  ASSUME IInv, NEW e \in Editors, RenewingFrame(e)
  PROVE  IInv'
<1> DEFINE c == ed[e]
           b == SendLockRequest(c, e)
           d == TrySend(b, FALSE)
<1>1. Becomes(e, d) /\ Gesture(e)
  BY DEF RenewingFrame
<1>2. c \in Recs(edits) /\ edits \in Nat /\ Sound(c, e, accepted) /\ Mute(c.out)
      /\ accepted \in SUBSET Poses(edits)
  BY EditorFine
<1>3. /\ b \in Recs(edits) /\ Sound(b, e, accepted)
      /\ Stays(c, b) /\ b.ops = c.ops /\ (Mute(c.out) => Mute(b.out))
  BY <1>2, RequestSound
<1> HIDE DEF b
<1>4. d \in Recs(edits) /\ Sound(d, e, accepted) /\ Stays(b, d) /\ Says(b, d, e, accepted)
  BY <1>2, <1>3, TrySendSound
<1> HIDE DEF d
<1>5. Stays(c, d) /\ Says(c, d, e, accepted)
  BY <1>3, <1>4, SaysThen
<1> QED
  BY <1>1, <1>4, <1>5, Gestures, ActsStep
\* A message is read: first by an editor that stopped listening, then by one that listens.
LEMMA DeafStep ==
  ASSUME IInv, NEW e \in Editors, Receive(e), ed[e].stage = "refused"
  PROVE  IInv'
<1> DEFINE c == ed[e]
           s == Tail(down[e])
<1>1. /\ down[e] # << >> /\ down' = [down EXCEPT ![e] = Tail(@)]
      /\ UNCHANGED <<lock, auth, accepted, sock, edits, gestures, faults>>
      /\ \E hot \in BOOLEAN : Becomes(e, Handles(ed[e], e, Head(down[e]), hot))
  BY DEF Receive, sessionVars, boundVars
<1>2. Becomes(e, c)
  BY <1>1 DEF Handles
<1>3. /\ c \in Recs(edits) /\ Sound(c, e, accepted) /\ c.out = << >>
      /\ up[e] \in Seq(UpMessages(edits)) /\ down[e] \in Seq(DownMessages(edits))
      /\ Sent(up[e], c, e, accepted) /\ Hold(down[e], e, lock.owner)
  BY EditorFine
<1>4. s \in Seq(DownMessages(edits)) /\ Hold(s, e, lock.owner)
  BY <1>1, <1>3, HoldTail
<1>5. down' = [down EXCEPT ![e] = s]
  BY <1>1
<1>6. Sent(After(e, c), c, e, accepted)
  <2>1. up[e] \o c.out = up[e]
    BY <1>3
  <2>2. Sent(<< >>, c, e, accepted)
    BY DEF Sent, InOrder, Updates, Said
  <2> QED
    BY <1>3, <2>1, <2>2 DEF After
<1>7. gestures' \in Nat /\ faults' \in Nat
  BY <1>1 DEF IInv, TypeOK
<1> HIDE DEF s
<1> QED
  BY <1>1, <1>2, <1>3, <1>4, <1>5, <1>6, <1>7, EditorStep

\* A message that is heard keeps the invariant.
LEMMA HeardStep ==
  ASSUME IInv, NEW e \in Editors, Receive(e), ed[e].stage # "refused"
  PROVE  IInv'
<1> DEFINE c == ed[e]
           u == up[e]
           w == down[e]
           s == Tail(w)
           r == auth.revision
<1>1. /\ c.stage # "off" /\ w # << >> /\ down' = [down EXCEPT ![e] = Tail(@)]
      /\ UNCHANGED <<lock, auth, accepted, sock, edits, gestures, faults>>
  BY DEF Receive, sessionVars, boundVars
<1>2. PICK hot \in BOOLEAN : Becomes(e, Handles(c, e, Head(w), hot))
  BY DEF Receive
<1> DEFINE d == Handles(c, e, Head(w), hot)
<1>3. down' = [down EXCEPT ![e] = s] /\ gestures' \in Nat /\ faults' \in Nat
  BY <1>1 DEF IInv, TypeOK
<1>4. /\ c \in Recs(edits) /\ edits \in Nat /\ accepted \in SUBSET Poses(edits)
      /\ u \in Seq(UpMessages(edits)) /\ w \in Seq(DownMessages(edits))
      /\ Sound(c, e, accepted) /\ Mute(c.out) /\ Sent(u, c, e, accepted) /\ Hold(w, e, lock.owner)
      /\ Wire(w, u, c, e, accepted, r)
      /\ Reached(sock[e], c) => Live(w, u, c, e, lock.owner, auth.pose)
      /\ c.stage \notin {"off", "refused"}
  BY <1>1, EditorFine
<1>5. Becomes(e, d)
  BY <1>2
<1> HIDE DEF c, u, w, r
<1>6. /\ d \in Recs(edits) /\ Sound(d, e, accepted) /\ Mute(d.out)
      /\ Heard(c, d, Head(w), e) \/ (d.stage = "refused" /\ d.ops = {} /\ c.ops = {})
  BY <1>1, <1>4, HandlesSound
<1> HIDE DEF d
<1>7. s \in Seq(DownMessages(edits)) /\ Hold(s, e, lock.owner)
  BY <1>1, <1>4, HoldTail
<1>8. Stays(d, d) /\ Says(d, d, e, accepted)
  BY <1>6 DEF Stays, Says
<1>9. After(e, d) = IF sock[e] = "open" THEN u \o d.out ELSE << >>
  BY DEF After, u
<1>10. CASE Heard(c, d, Head(w), e)
  <2>1. /\ Wire(s, u, d, e, accepted, r) /\ Sent(u, d, e, accepted)
        /\ \A o, p : Live(w, u, c, e, o, p) => Live(s, u, d, e, o, p)
    BY <1>1, <1>4, <1>10, HeardWire
  <2> HIDE DEF s
  <2>2. /\ Sent(u \o d.out, d, e, accepted) /\ Sent(<< >>, d, e, accepted)
        /\ d.stage # "refused" =>
             /\ Wire(s, u \o d.out, d, e, accepted, r) /\ Wire(s, << >>, d, e, accepted, r)
             /\ \A o, p : Live(s, u, d, e, o, p) => Live(s, u \o d.out, d, e, o, p)
    BY <1>4, <1>6, <1>8, <2>1, SpeaksWire
  <2>3. d.stage # "off"
    BY <1>1, <1>10 DEF Heard
  <2>4. Sent(After(e, d), d, e, accepted)
    BY <1>9, <2>2
  <2>5. d.stage # "refused" =>
          /\ Wire(s, After(e, d), d, e, accepted, r)
          /\ Reached(sock[e], d) => Live(s, After(e, d), d, e, lock.owner, auth.pose)
    BY <1>1, <1>4, <1>9, <2>1, <2>2 DEF Reached
  <2> QED
    BY <1>1, <1>3, <1>5, <1>6, <1>7, <2>3, <2>4, <2>5, EditorStep DEF r, s
<1>11. CASE d.stage = "refused" /\ d.ops = {} /\ c.ops = {}
  <2>1. Sent(u, d, e, accepted)
    BY <1>1, <1>4, <1>11 DEF Sent
  <2> HIDE DEF s
  <2>2. Sent(u \o d.out, d, e, accepted) /\ Sent(<< >>, d, e, accepted)
    BY <1>4, <1>6, <1>8, <1>11, <2>1, SpeaksWire
  <2>3. Sent(After(e, d), d, e, accepted)
    BY <1>9, <2>2
  <2> QED
    BY <1>1, <1>3, <1>5, <1>6, <1>7, <1>11, <2>3, EditorStep DEF s
<1> QED
  BY <1>6, <1>10, <1>11

\* The connection of an editor, which is k by then, is gone.
LEMMA GoneStep ==
  ASSUME IInv, NEW e \in Editors, NEW k \in Recs(edits), Becomes(e, Gone(k)),
         Sent(up[e] \o k.out, k, e, accepted), Sent(<< >>, k, e, accepted),
         down' = [down EXCEPT ![e] = << >>],
         UNCHANGED <<lock, auth, accepted, sock, edits>>, gestures' \in Nat, faults' \in Nat
  PROVE  IInv'
<1> DEFINE d == Gone(k)
           v == After(e, d)
           A == accepted
           r == auth.revision
<1>1. Base \in A /\ edits \in Nat
  BY DEF IInv, TypeOK
<1>2. /\ d \in Recs(edits) /\ Sound(d, e, A) /\ d.ops = {} /\ d.stage = "off"
      /\ d.known = NoEditor
  BY <1>1, GoneSound
<1>3. d.out = k.out
  BY DEF Gone, ResetTracking, NoHold, Unmark, Recs
<1>4. Becomes(e, d)
  OBVIOUS
<1> HIDE DEF d
<1>5. Sent(up[e] \o d.out, d, e, A) /\ Sent(<< >>, d, e, A)
  BY <1>2, <1>3 DEF Sent
<1>6. Sent(v, d, e, A)
  BY <1>5 DEF After
<1> HIDE DEF v
<1>7. << >> \in Seq(DownMessages(edits)) /\ DOMAIN << >> = {} /\ Hold(<< >>, e, lock.owner)
  BY DEF Hold
<1>8. Wire(<< >>, v, d, e, A, r) /\ ~Reached(sock[e], d)
  <2>1. Answers(<< >>, e) = {} /\ Said(<< >>, {}) = {} /\ InOrder(<< >>, {})
    BY DEF Answers, Said, InOrder
  <2>2. d.seen = 0 /\ r \in Nat
    BY <1>2 DEF Sound, Core, Shape, IInv, TypeOK
  <2>3. Placed(<< >>, d)
    BY <1>2, <1>7 DEF Placed
  <2>4. Tidy(<< >>, e) /\ Mirrors(<< >>, d, e)
    BY <1>7 DEF Tidy, Mirrors
  <2>5. Answered(<< >>, v, d, e, A)
    BY <1>2, <1>7, <2>1 DEF Answered
  <2>6. Revised(<< >>, d, r)
    BY <1>7, <2>2 DEF Revised
  <2> QED
    BY <1>2, <2>3, <2>4, <2>5, <2>6 DEF Wire, Reached
<1> QED
  BY <1>2, <1>4, <1>6, <1>7, <1>8, EditorStep DEF v

\* A lost connection keeps the invariant.
LEMMA LoseStep ==
  ASSUME IInv, NEW e \in Editors, Lose(e)
  PROVE  IInv'
<1>1. /\ Becomes(e, Gone(ed[e])) /\ down' = [down EXCEPT ![e] = << >>] /\ faults' = faults + 1
      /\ UNCHANGED <<lock, auth, accepted, sock, edits, gestures>>
  BY DEF Lose, Fault, sessionVars
<1>2. gestures' \in Nat /\ faults' \in Nat
  BY <1>1 DEF IInv, TypeOK
<1>3. /\ ed[e] \in Recs(edits) /\ ed[e].out = << >> /\ up[e] \in Seq(UpMessages(edits))
      /\ Sent(up[e], ed[e], e, accepted)
  BY EditorFine
<1>4. up[e] \o ed[e].out = up[e]
  BY <1>3
<1>5. Sent(<< >>, ed[e], e, accepted)
  BY DEF Sent, InOrder, Updates, Said
<1> QED
  BY <1>1, <1>2, <1>3, <1>4, <1>5, GoneStep

\* A disconnect keeps the invariant.
LEMMA LeaveStep ==
  ASSUME IInv, NEW e \in Editors, Leave(e)
  PROVE  IInv'
<1> DEFINE c == ed[e]
           u == up[e]
           s == down[e]
<1>1. /\ down' = [down EXCEPT ![e] = << >>] /\ faults' = faults + 1
      /\ UNCHANGED <<lock, auth, accepted, sock, edits, gestures>>
  BY DEF Leave, Fault, sessionVars
<1>2. PICK late \in Lateness(e) : Becomes(e, Gone(FinishTracking(c, e, late)))
  BY DEF Leave
<1> DEFINE k == FinishTracking(c, e, late)
<1>3. gestures' \in Nat /\ faults' \in Nat
  BY <1>1 DEF IInv, TypeOK
<1>4. /\ c \in Recs(edits) /\ edits \in Nat /\ accepted \in SUBSET Poses(edits)
      /\ u \in Seq(UpMessages(edits)) /\ Sound(c, e, accepted) /\ Mute(c.out)
      /\ Sent(u, c, e, accepted)
      /\ c.stage # "refused" => Wire(s, u, c, e, accepted, auth.revision)
  BY EditorFine
<1>5. Becomes(e, Gone(k))
  BY <1>2
<1> HIDE DEF c, u, s
<1>6. k \in Recs(edits) /\ Sound(k, e, accepted) /\ Stays(c, k) /\ Says(c, k, e, accepted)
  BY <1>4, FinishSound
<1> HIDE DEF k
<1>7. Sent(u \o k.out, k, e, accepted) /\ Sent(<< >>, k, e, accepted)
  BY <1>4, <1>6, SpeaksWire
<1> QED
  BY <1>1, <1>3, <1>5, <1>6, <1>7, GoneStep DEF u
\* What the user edits is not on a wire yet.
LEMMA FineStays ==
  ASSUME NEW s, NEW u, NEW c, NEW d, NEW e, NEW x, NEW A, NEW o, NEW p, NEW r,
         Fine(s, u, c, e, x, A, o, p, r),
         Sound(d, e, A), Stays(c, d), d.ops = c.ops, d.out = c.out
  PROVE  Fine(s, u, d, e, x, A, o, p, r)
<1>1. d.stage = c.stage /\ d.known = c.known /\ d.seen = c.seen /\ d.last = c.last
  BY DEF Stays
<1>2. Sent(u, c, e, A) => Sent(u, d, e, A)
  BY <1>1 DEF Sent
<1>3. Wire(s, u, c, e, A, r) => Wire(s, u, d, e, A, r)
  <2>1. Placed(s, c) => Placed(s, d)
    BY <1>1 DEF Placed
  <2>2. Mirrors(s, c, e) => Mirrors(s, d, e)
    BY <1>1 DEF Mirrors
  <2>3. Answered(s, u, c, e, A) => Answered(s, u, d, e, A)
    BY DEF Answered
  <2>4. Revised(s, c, r) => Revised(s, d, r)
    BY <1>1 DEF Revised
  <2> QED
    BY <2>1, <2>2, <2>3, <2>4 DEF Wire
<1>4. Live(s, u, c, e, o, p) => Live(s, u, d, e, o, p)
  BY <1>1 DEF Live, Truth
<1> QED
  BY <1>1, <1>2, <1>3, <1>4 DEF Fine, Reached

\* An edit keeps the invariant: no update or answer is of it yet.
LEMMA EditStep ==
  ASSUME IInv, NEW e \in Editors, Edit(e)
  PROVE  IInv'
<1> DEFINE c == ed[e]
           n == edits
           p == <<e, n + 1>>
           t == c.touched \/ (c.stage \in {"hello", "hierarchy"} /\ ~c.dirty)
           d == Edited(c, p, t)
<1>1. /\ edits' = n + 1
      /\ ed' = [ed EXCEPT ![e].pose = <<e, edits'>>, ![e].dirty = TRUE,
                      ![e].touched = @ \/ (ed[e].stage \in {"hello", "hierarchy"} /\ ~ed[e].dirty)]
      /\ UNCHANGED <<lock, auth, accepted, sock, up, down, gestures, faults>>
  BY DEF Edit, sessionVars, wireVars
<1>2. /\ ed \in [Editors -> Recs(n)] /\ c \in Recs(n) /\ n \in Nat /\ accepted \in SUBSET Poses(n)
      /\ Sound(c, e, accepted) /\ n + 1 \in Nat
  BY EditorFine DEF IInv, TypeOK
<1>3. ed' = [ed EXCEPT ![e] = d]
  BY <1>1, <1>2 DEF Edited, Recs
<1>4. t \in BOOLEAN
  BY <1>2 DEF Recs
<1> HIDE DEF t, c
<1>5. d \in Recs(n + 1) /\ Sound(d, e, accepted) /\ Stays(c, d) /\ d.ops = c.ops /\ d.out = c.out
  BY <1>2, <1>4, EditSound
<1> HIDE DEF d
<1>6. \A x \in Editors : ed'[x] = IF x = e THEN d ELSE ed[x]
  BY <1>2, <1>3
<1>7. TypeOK'
  <2>1. /\ Poses(n) \subseteq Poses(n + 1) /\ UpMessages(n) \subseteq UpMessages(n + 1)
        /\ DownMessages(n) \subseteq DownMessages(n + 1) /\ Recs(n) \subseteq Recs(n + 1)
    BY <1>2, PosesGrow
  <2>2. ed' \in [Editors -> Recs(n + 1)]
    BY <1>2, <1>3, <1>5, <2>1
  <2>3. up' \in [Editors -> Seq(UpMessages(n + 1))]
    <3>1. Seq(UpMessages(n)) \subseteq Seq(UpMessages(n + 1))
      BY <2>1
    <3> QED
      BY <1>1, <3>1 DEF IInv, TypeOK
  <2>4. down' \in [Editors -> Seq(DownMessages(n + 1))]
    <3>1. Seq(DownMessages(n)) \subseteq Seq(DownMessages(n + 1))
      BY <2>1
    <3> QED
      BY <1>1, <3>1 DEF IInv, TypeOK
  <2>5. auth' \in [pose : Poses(n + 1), revision : Nat] /\ accepted' \in SUBSET Poses(n + 1)
    BY <1>1, <2>1 DEF IInv, TypeOK
  <2>6. /\ lock' \in [owner : Users, lapsed : BOOLEAN] /\ sock' \in [Editors -> {"open", "cut", "closed"}]
        /\ gestures' \in Nat /\ faults' \in Nat
    BY <1>1 DEF IInv, TypeOK
  <2> HIDE DEF n
  <2> QED
    BY <1>1, <1>2, <2>2, <2>3, <2>4, <2>5, <2>6 DEF TypeOK
<1>8. EditorsFine'
  <2>1. ASSUME NEW x \in Editors
        PROVE  Fine(down[x], up[x], ed'[x], x, sock[x], accepted, lock.owner, auth.pose, auth.revision)
    <3>1. Fine(down[x], up[x], ed[x], x, sock[x], accepted, lock.owner, auth.pose, auth.revision)
      BY DEF IInv, EditorsFine
    <3>2. CASE x = e
      BY <1>5, <1>6, <3>1, <3>2, FineStays DEF c
    <3>3. CASE x # e
      BY <1>6, <3>1, <3>3
    <3> QED
      BY <3>2, <3>3
  <2> QED
    BY <1>1, <2>1 DEF EditorsFine
<1> QED
  BY <1>1, <1>7, <1>8 DEF IInv
-----------------------------------------------------------------------------
(* The theorems.                                                             *)

\* An idle editor with empty wires fits the session it just joined.
LEMMA IdleFine ==
  ASSUME NEW e \in Editors, NEW A, Base \in A
  PROVE  Idle \in Recs(0) /\ Fine(<< >>, << >>, Idle, e, "open", A, NoEditor, Base, 0)
<1>1. Base \in Poses(0) /\ NoEditor \in Users
  BY DEF Base, Poses, Users
<1>2. << >> \in Seq(UpMessages(0)) /\ NoPose \in Poses(0) \cup {NoPose}
  OBVIOUS
<1>3. Idle \in Recs(0)
  BY <1>1, <1>2 DEF Idle, Recs
<1>4. /\ Idle.stage = "ready" /\ Idle.known = NoEditor /\ Idle.seen = 0 /\ Idle.last = Base
      /\ Idle.ops = {} /\ ~Idle.tracked /\ ~Idle.granted /\ ~Idle.blocked /\ Idle.pose = Base
      /\ ~Idle.protected /\ Idle.deferred = NoPose /\ ~Idle.unseen /\ Idle.out = << >>
  BY DEF Idle
<1> DEFINE c == Idle
<1>5. c.stage = "ready" /\ c.known = NoEditor /\ c.seen = 0 /\ c.last = Base /\ c.ops = {}
  BY <1>4
<1>6. Sound(c, e, A)
  BY <1>4 DEF Core, Sound, Spare, Shape, Asked, Shown, Newest, Good
<1>7. /\ Updates(<< >>) = {} /\ Said(<< >>, {}) = {} /\ InOrder(<< >>, {})
      /\ Answers(<< >>, e) = {} /\ DOMAIN << >> = {}
  BY DEF Updates, Said, InOrder, Answers
<1>8. Reads(NoEditor, << >>)[Len(<< >>)] = NoEditor
  <2>1. << >> \in Seq({}) /\ Len(<< >>) = 0
    OBVIOUS
  <2> QED
    BY <2>1, ReadsDef
<1> HIDE DEF c
<1>9. Sent(<< >>, c, e, A) /\ Hold(<< >>, e, NoEditor)
  BY <1>7 DEF Sent, Hold
<1>10. Wire(<< >>, << >>, c, e, A, 0)
  <2>1. Placed(<< >>, c)
    BY <1>5, <1>7 DEF Placed
  <2>2. Tidy(<< >>, e) /\ Mirrors(<< >>, c, e)
    BY <1>7 DEF Tidy, Mirrors
  <2>3. Answered(<< >>, << >>, c, e, A)
    BY <1>5, <1>7 DEF Answered
  <2>4. Revised(<< >>, c, 0)
    BY <1>5, <1>7 DEF Revised
  <2> QED
    BY <2>1, <2>2, <2>3, <2>4 DEF Wire
<1>11. Live(<< >>, << >>, c, e, NoEditor, Base)
  BY <1>5, <1>7, <1>8 DEF Live, Truth
<1> QED
  BY <1>3, <1>4, <1>5, <1>6, <1>9, <1>10, <1>11 DEF Fine, c

\* The invariant holds at the start.
LEMMA InitIInv ==
  ASSUME Init
  PROVE  IInv
<1>1. /\ lock = NoLock /\ auth = [pose |-> Base, revision |-> 0] /\ accepted = {Base}
      /\ sock = [e \in Editors |-> "open"]
      /\ up = [e \in Editors |-> << >>] /\ down = [e \in Editors |-> << >>]
      /\ ed = [e \in Editors |-> Idle]
      /\ edits = 0 /\ gestures = 0 /\ faults = 0
  BY DEF Init
<1>2. /\ NoLock \in [owner : Users, lapsed : BOOLEAN] /\ NoLock.owner = NoEditor /\ ~NoLock.lapsed
      /\ Base \in Poses(0)
  BY DEF NoLock, Users, Base, Poses
<1>3. /\ \A e \in Editors : /\ Idle \in Recs(0)
                            /\ Fine(<< >>, << >>, Idle, e, "open", accepted, NoEditor, Base, 0)
  BY <1>1, IdleFine
<1>4. << >> \in Seq(UpMessages(0)) /\ << >> \in Seq(DownMessages(0))
  OBVIOUS
<1>5. TypeOK
  <2>1. lock \in [owner : Users, lapsed : BOOLEAN] /\ auth \in [pose : Poses(0), revision : Nat]
        /\ accepted \in SUBSET Poses(0)
    BY <1>1, <1>2
  <2>2. /\ sock \in [Editors -> {"open", "cut", "closed"}]
        /\ up \in [Editors -> Seq(UpMessages(0))] /\ down \in [Editors -> Seq(DownMessages(0))]
        /\ ed \in [Editors -> Recs(0)]
    BY <1>1, <1>3, <1>4
  <2> QED
    BY <1>1, <2>1, <2>2 DEF TypeOK
<1>6. EditorsFine
  <2>1. ASSUME NEW e \in Editors
        PROVE  Fine(down[e], up[e], ed[e], e, sock[e], accepted, lock.owner, auth.pose, auth.revision)
    <3>1. /\ down[e] = << >> /\ up[e] = << >> /\ ed[e] = Idle /\ sock[e] = "open"
          /\ lock.owner = NoEditor /\ auth.pose = Base /\ auth.revision = 0
      BY <1>1, <1>2
    <3> QED
      BY <1>3, <3>1
  <2> QED
    BY <2>1 DEF EditorsFine
<1> QED
  BY <1>1, <1>2, <1>5, <1>6 DEF IInv

\* Every step keeps the invariant.
LEMMA NextIInv ==
  ASSUME IInv, [Next]_vars
  PROVE  IInv'
<1>1. CASE UNCHANGED vars
  BY <1>1 DEF vars, sessionVars, wireVars, boundVars, IInv, TypeOK, EditorsFine
<1>2. CASE Lapse
  BY <1>2, LapseStep
<1>3. CASE Sweep
  BY <1>3, SweepStep
<1>4. ASSUME NEW e \in Editors,
             \/ Select(e) \/ Deselect(e) \/ Save(e) \/ Edit(e)
             \/ RequestLock(e) \/ ReleaseLock(e) \/ Frame(e) \/ RenewingFrame(e) \/ Receive(e)
             \/ Lose(e) \/ Leave(e) \/ Rejoin(e)
             \/ HandleLockRequest(e) \/ HandleLockRelease(e) \/ HandleTransformUpdate(e)
             \/ Terminate(e) \/ ServerClose(e)
      PROVE  IInv'
  <2>1. CASE Select(e)
    BY <2>1, SelectStep
  <2>2. CASE Deselect(e)
    BY <2>2, DeselectStep
  <2>3. CASE Save(e)
    BY <2>3, SaveStep
  <2>4. CASE Edit(e)
    BY <2>4, EditStep
  <2>5. CASE RequestLock(e)
    BY <2>5, AskStep
  <2>6. CASE ReleaseLock(e)
    BY <2>6, LeaveLockStep
  <2>7. CASE Frame(e)
    BY <2>7, FrameStep
  <2>8. CASE RenewingFrame(e)
    BY <2>8, RenewingStep
  <2>9. CASE Receive(e)
    BY <2>9, DeafStep, HeardStep
  <2>10. CASE Lose(e)
    BY <2>10, LoseStep
  <2>11. CASE Leave(e)
    BY <2>11, LeaveStep
  <2>12. CASE Rejoin(e)
    BY <2>12, RejoinStep
  <2>13. CASE HandleLockRequest(e)
    BY <2>13, RequestStep
  <2>14. CASE HandleLockRelease(e)
    BY <2>14, ReleaseStep
  <2>15. CASE HandleTransformUpdate(e)
    BY <2>15, UpdateStep
  <2>16. CASE Terminate(e)
    BY <2>16, TerminateStep
  <2>17. CASE ServerClose(e)
    BY <2>17, CloseStep
  <2> QED
    BY <1>4, <2>1, <2>2, <2>3, <2>4, <2>5, <2>6, <2>7, <2>8, <2>9, <2>10, <2>11, <2>12, <2>13,
       <2>14, <2>15, <2>16, <2>17
<1> QED
  BY <1>1, <1>2, <1>3, <1>4 DEF Next

\* What follows from it.
LEMMA IInvMirrors ==
  ASSUME IInv
  PROVE  MirrorFollows
<1> SUFFICES ASSUME NEW e \in Editors, Listening(e), ed[e].stage # "refused"
             PROVE  Reads(ed[e].known, down[e])[Len(down[e])] = lock.owner
  BY DEF MirrorFollows
<1>1. Reached(sock[e], ed[e])
  BY DEF Listening, Reached
<1> QED
  BY <1>1, EditorFine DEF Live

\* Behind the last grant nothing of another's is on the wire of the holder.
LEMMA IInvAlone ==
  ASSUME IInv
  PROVE  HolderIsAlone
<1> SUFFICES ASSUME NEW e \in Editors, ~MayBeLate(e), NEW i \in DOMAIN down[e],
                    down[e][i].type = "transform_applied"
             PROVE  down[e][i].pose[1] = e
  BY DEF HolderIsAlone
<1>1. lock.owner = e /\ \A j \in DOMAIN down[e] : down[e][j].type # "lock_granted"
  BY DEF MayBeLate
<1>2. Hold(down[e], e, lock.owner)
  BY EditorFine
<1> QED
  BY <1>1, <1>2 DEF Hold

\* With nothing under way, what an editor waits for or was told of is the
\* authoritative value.
LEMMA IInvShows ==
  ASSUME IInv
  PROVE  NothingOutdatedShows
<1> SUFFICES ASSUME NEW e \in Editors, Quiet(e), ~ed[e].protected, ~ed[e].unseen
             PROVE  \/ ed[e].pose = auth.pose
                    \/ ed[e].pose[1] = e /\ ed[e].pose \notin accepted
  BY DEF NothingOutdatedShows
<1> DEFINE c == ed[e]
<1>1. /\ c.stage = "ready" /\ up[e] = << >> /\ down[e] = << >> /\ Reached(sock[e], c)
  BY DEF Quiet, Listening, Reached
<1>2. Sound(c, e, accepted) /\ Live(<< >>, << >>, c, e, lock.owner, auth.pose)
  BY <1>1, EditorFine
<1>3. /\ Updates(<< >>) = {} /\ Said(<< >>, {}) = {} /\ Answers(<< >>, e) = {} /\ DOMAIN << >> = {}
  BY DEF Updates, Said, Answers
<1>4. c.ops = {} /\ c.last = auth.pose
  BY <1>2, <1>3 DEF Live, Truth
<1>5. Good(c.pose, e, c, accepted)
  BY <1>1, <1>2 DEF Sound, Core, Shown
<1> QED
  BY <1>4, <1>5 DEF Good

\* Every editor's record, what is on its wires and what the session keeps have the
\* relations the invariant states, in every state (TeamForgeTransformSyncService.cs,
\* session-authority.mjs).
THEOREM TransformInvariant == Spec => []IInv
<1>1. Init => IInv
  BY InitIInv
<1>2. IInv /\ [Next]_vars => IInv'
  BY NextIInv
<1> QED
  BY <1>1, <1>2, PTL DEF Spec

\* The records, messages and locks have their types (Models.cs, session-authority.mjs).
THEOREM TransformTypes == Spec => []TypeOK
<1>1. IInv => TypeOK
  BY DEF IInv
<1> QED
  BY <1>1, TransformInvariant, PTL

\* An editor that has read everything the server sent knows who holds the lock, for
\* any number of editors, edits, faults and messages (TeamForgeLockRegistry).
THEOREM MirrorsFollow == Spec => []MirrorFollows
<1>1. IInv => MirrorFollows
  BY IInvMirrors
<1> QED
  BY <1>1, TransformInvariant, PTL

\* No value of another editor is on its way to an editor that may send under its
\* lease (HandleTransformApplied, #expireSessionLocks).
THEOREM HoldersAreAlone == Spec => []HolderIsAlone
<1>1. IInv => HolderIsAlone
  BY IInvAlone
<1> QED
  BY <1>1, TransformInvariant, PTL

\* With nothing under way an editor shows the session's value or an edit of its own
\* that the session never took, unless it reports a conflict or left the value out
\* (HandleTransformApplied, TryRecoverTransform).
THEOREM NothingOutdated == Spec => []NothingOutdatedShows
<1>1. IInv => NothingOutdatedShows
  BY IInvShows
<1> QED
  BY <1>1, TransformInvariant, PTL

=============================================================================
