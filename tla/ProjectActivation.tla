------------------------- MODULE ProjectActivation -------------------------
(***************************************************************************)
(* How a received baseline becomes the active project of a machine:        *)
(* #markPublished of project-peer/src/project-peer.mjs approves it, and    *)
(* activate of project-peer/src/managed-project.mjs stages it, asks for    *)
(* trust, moves it into active/ and points current.json to it.  Processes  *)
(* share the managed directory; each runs one receive after another, may   *)
(* be cancelled, may meet an error of the file system, and may crash       *)
(* between any two file operations.                                        *)
(*                                                                         *)
(* A baseline stands for its signed descriptor and manifest, and for its   *)
(* directory active/<revision>-<hash>.  Staging directories have fresh     *)
(* random names, nobody shares them, and they are left out.                *)
(***************************************************************************)
EXTENDS Naturals

CONSTANTS
  Processes,
  Baselines, NoBaseline,
  RevisionOf              \* [Baselines -> Nat], descriptor.baselineRevision

ASSUME ActivationAssumption ==
  /\ NoBaseline \notin Baselines
  /\ RevisionOf \in [Baselines -> Nat]

VARIABLES
  published,       \* metadata/published.json, the approved baseline
  publishedLock,   \* metadata/published.lock exists
  current,         \* metadata/current.json
  activationLock,  \* metadata/activation.lock exists
  active,          \* the directories under active/
  pc,              \* what each process does next
  job,             \* the baseline it receives
  seen,            \* the approved baseline it read under published.lock
  cancelled,       \* its AbortSignal
  \* Histories, which no step reads:
  history,         \* every baseline current.json ever named
  trusted,         \* baselines a user approved
  broken,          \* moved into active/, but the pointer write failed or crashed
  orphans          \* lock files a crashed process left behind

files == <<published, publishedLock, current, activationLock, active>>
histories == <<history, trusted, broken, orphans>>
vars == <<files, pc, job, seen, cancelled, histories>>

\* The stages of a receive.  In Approving it holds published.lock, in Activating
\* activation.lock.
Approving == {"reading", "writing", "approved", "refused"}
Activating == {"locked", "checked", "moved", "releasing"}
Interruptible == {"syncing", "staging", "trusting"}
Stages == {"idle", "received", "locking"} \cup Approving \cup Activating \cup Interruptible

TypeOK ==
  /\ published \in Baselines \cup {NoBaseline}
  /\ current \in Baselines \cup {NoBaseline}
  /\ publishedLock \in BOOLEAN
  /\ activationLock \in BOOLEAN
  /\ active \subseteq Baselines
  /\ pc \in [Processes -> Stages]
  /\ job \in [Processes -> Baselines \cup {NoBaseline}]
  /\ \A p \in Processes : pc[p] # "idle" => job[p] \in Baselines
  /\ seen \in [Processes -> Baselines \cup {NoBaseline}]
  /\ cancelled \in [Processes -> BOOLEAN]
  /\ history \subseteq Baselines
  /\ trusted \subseteq Baselines
  /\ broken \subseteq Baselines
  /\ orphans \subseteq {"published", "activation"}

Init ==
  /\ published = NoBaseline /\ publishedLock = FALSE
  /\ current = NoBaseline /\ activationLock = FALSE
  /\ active = {}
  /\ pc = [p \in Processes |-> "idle"]
  /\ job = [p \in Processes |-> NoBaseline]
  /\ seen = [p \in Processes |-> NoBaseline]
  /\ cancelled = [p \in Processes |-> FALSE]
  /\ history = {} /\ trusted = {} /\ broken = {} /\ orphans = {}

\* The step of p from one stage to another.
Goes(p, from, to) == pc[p] = from /\ pc' = [pc EXCEPT ![p] = to]

-----------------------------------------------------------------------------
(* Approval: #markPublished with allowForwardJump. *)

\* (mutant) A snapshot without a baseline is taken for one.
Receive_Unpublished(p, b) ==
  /\ Goes(p, "idle", "received")
  /\ \E x \in {b, NoBaseline} : job' = [job EXCEPT ![p] = x]
  /\ cancelled' = [cancelled EXCEPT ![p] = FALSE]
  /\ UNCHANGED <<files, seen, histories>>

\* A baseline was discovered and its manifest and descriptor verified.
Receive(p, b) ==
  /\ Goes(p, "idle", "received")
  /\ job' = [job EXCEPT ![p] = b]
  /\ cancelled' = [cancelled EXCEPT ![p] = FALSE]
  /\ UNCHANGED <<files, seen, histories>>

\* open(lockPath, "wx"); published_pointer_busy ends the receive.
OpenPublished(p) ==
  /\ IF publishedLock
     THEN Goes(p, "received", "idle") /\ UNCHANGED publishedLock
     ELSE Goes(p, "received", "reading") /\ publishedLock' = TRUE
  /\ UNCHANGED <<published, current, activationLock, active, job, seen, cancelled, histories>>

ReadPublished(p) ==
  /\ Goes(p, "reading", "writing")
  /\ seen' = [seen EXCEPT ![p] = published]
  /\ UNCHANGED <<files, job, cancelled, histories>>

\* (mutant) Another baseline of the same revision will do.
Supersedes_OrEqual(b, x) == x # NoBaseline => b = x \/ RevisionOf[b] >= RevisionOf[x]

\* b may be approved when x is: it is x itself, or newer.
Supersedes(b, x) == x # NoBaseline => b = x \/ RevisionOf[b] > RevisionOf[x]

WritePublished(p) ==
  \/ /\ Goes(p, "writing", "approved")
     /\ Supersedes(job[p], seen[p])
     /\ published' = job[p]
     /\ UNCHANGED <<publishedLock, current, activationLock, active, job, seen, cancelled, histories>>
  \/ \* published_pointer_conflict, or a failing write
     /\ Goes(p, "writing", "refused")
     /\ UNCHANGED <<files, job, seen, cancelled, histories>>

\* (mutant) A refused update leaves its lock file.
ReleasePublished_WhenApproved(p) ==
  /\ \/ Goes(p, "approved", "syncing") /\ publishedLock' = FALSE
     \/ Goes(p, "refused", "idle") /\ UNCHANGED publishedLock
  /\ UNCHANGED <<published, current, activationLock, active, job, seen, cancelled, histories>>

\* finally: close and remove the lock.
ReleasePublished(p) ==
  /\ \/ Goes(p, "approved", "syncing")
     \/ Goes(p, "refused", "idle")
  /\ publishedLock' = FALSE
  /\ UNCHANGED <<published, current, activationLock, active, job, seen, cancelled, histories>>

-----------------------------------------------------------------------------
(* Activation: activate.  The download lies between approval and activation. *)

\* Already active: nothing to do.
BeginActivation(p) ==
  /\ ~cancelled[p]
  /\ IF current = job[p] THEN Goes(p, "syncing", "idle") ELSE Goes(p, "syncing", "staging")
  /\ UNCHANGED <<files, job, seen, cancelled, histories>>

\* #materialize, #verifyUnityProject, and the documents in the staging directory.
Stage(p) ==
  /\ ~cancelled[p]
  /\ Goes(p, "staging", "trusting")
  /\ UNCHANGED <<files, job, seen, cancelled, histories>>

\* (mutant) A declined approval goes on like a given one.
Approve_Anyway(p) ==
  /\ ~cancelled[p]
  /\ Goes(p, "trusting", "locking")
  /\ \E yes \in BOOLEAN : trusted' = IF yes THEN trusted \cup {job[p]} ELSE trusted
  /\ UNCHANGED <<files, job, seen, cancelled, history, broken, orphans>>

\* trustApproval answers yes; "no" is a step of Reject.
Approve(p) ==
  /\ ~cancelled[p]
  /\ Goes(p, "trusting", "locking")
  /\ trusted' = trusted \cup {job[p]}
  /\ UNCHANGED <<files, job, seen, cancelled, history, broken, orphans>>

\* Cancelled, declined, failed to download, to be rebuilt or to be verified:
\* staging keeps what there is.
Reject(p) ==
  /\ pc[p] \in Interruptible \cup {"received", "locking"}
  /\ pc' = [pc EXCEPT ![p] = "idle"]
  /\ UNCHANGED <<files, job, seen, cancelled, histories>>

\* (mutant) The lock is opened inside the block whose finally removes it.
OpenActivation_Inside(p) ==
  /\ IF activationLock
     THEN Goes(p, "locking", "releasing")
     ELSE Goes(p, "locking", "locked")
  /\ activationLock' = TRUE
  /\ UNCHANGED <<published, publishedLock, current, active, job, seen, cancelled, histories>>

\* open(activationLockPath, "wx"); activation_busy ends the activation.
OpenActivation(p) ==
  /\ IF activationLock
     THEN Goes(p, "locking", "idle") /\ UNCHANGED activationLock
     ELSE Goes(p, "locking", "locked") /\ activationLock' = TRUE
  /\ UNCHANGED <<published, publishedLock, current, active, job, seen, cancelled, histories>>

\* (mutant) An existing directory is taken for one that was moved before.
CheckActive_Resume(p) ==
  /\ IF job[p] \in active
     THEN Goes(p, "locked", "moved")
     ELSE Goes(p, "locked", "checked")
  /\ UNCHANGED <<files, job, seen, cancelled, histories>>

\* active_revision_exists
CheckActive(p) ==
  /\ IF job[p] \in active
     THEN Goes(p, "locked", "releasing")
     ELSE Goes(p, "locked", "checked")
  /\ UNCHANGED <<files, job, seen, cancelled, histories>>

\* The last check of the signal, and the rename of the staged project, which
\* may fail.
Move(p) ==
  \/ /\ ~cancelled[p]
     /\ job[p] \notin active
     /\ Goes(p, "checked", "moved")
     /\ active' = active \cup {job[p]}
     /\ UNCHANGED <<published, publishedLock, current, activationLock, job, seen, cancelled, histories>>
  \/ /\ Goes(p, "checked", "releasing")
     /\ UNCHANGED <<files, job, seen, cancelled, histories>>

\* (mutant) The signal is checked once more before the pointer is written.
WritePointer_Cancellable(p) ==
  \/ /\ ~cancelled[p]
     /\ Goes(p, "moved", "releasing")
     /\ current' = job[p]
     /\ history' = history \cup {job[p]}
     /\ UNCHANGED <<published, publishedLock, activationLock, active, job, seen, cancelled, trusted, broken, orphans>>
  \/ /\ cancelled[p]
     /\ Goes(p, "moved", "releasing")
     /\ UNCHANGED <<files, job, seen, cancelled, histories>>

\* writeJsonAtomic(currentPath): all or nothing.  The status file that follows
\* is staging's.
WritePointer(p) ==
  \/ /\ Goes(p, "moved", "releasing")
     /\ current' = job[p]
     /\ history' = history \cup {job[p]}
     /\ UNCHANGED <<published, publishedLock, activationLock, active, job, seen, cancelled, trusted, broken, orphans>>
  \/ /\ Goes(p, "moved", "releasing")
     /\ broken' = broken \cup {job[p]}
     /\ UNCHANGED <<files, job, seen, cancelled, history, trusted, orphans>>

\* finally: close and remove the lock.
ReleaseActivation(p) ==
  /\ Goes(p, "releasing", "idle")
  /\ activationLock' = FALSE
  /\ UNCHANGED <<published, publishedLock, current, active, job, seen, cancelled, histories>>

-----------------------------------------------------------------------------
(* What happens to a process. *)

\* The signal is aborted, at any time.
Cancel(p) ==
  /\ pc[p] # "idle"
  /\ cancelled' = [cancelled EXCEPT ![p] = TRUE]
  /\ UNCHANGED <<files, pc, job, seen, histories>>

\* The process dies; its lock files stay.
Crash(p) ==
  /\ pc[p] # "idle"
  /\ pc' = [pc EXCEPT ![p] = "idle"]
  /\ broken' = IF pc[p] = "moved" THEN broken \cup {job[p]} ELSE broken
  /\ orphans' = orphans \cup (IF pc[p] \in Approving THEN {"published"} ELSE {})
                        \cup (IF pc[p] \in Activating THEN {"activation"} ELSE {})
  /\ UNCHANGED <<files, job, seen, cancelled, history, trusted>>

\* Steps that wait for nobody: a file operation completes, or fails.
FileStep(p) ==
  \/ ReadPublished(p) \/ WritePublished(p) \/ ReleasePublished(p)
  \/ CheckActive(p) \/ Move(p) \/ WritePointer(p) \/ ReleaseActivation(p)

Next == \E p \in Processes :
  \/ \E b \in Baselines : Receive(p, b)
  \/ OpenPublished(p) \/ OpenActivation(p)
  \/ BeginActivation(p) \/ Stage(p) \/ Approve(p) \/ Reject(p)
  \/ FileStep(p)
  \/ Cancel(p) \/ Crash(p)

Spec == Init /\ [][Next]_vars
FairSpec == Spec /\ \A p \in Processes : WF_vars(FileStep(p))

-----------------------------------------------------------------------------
(* Invariants. *)

\* One process at a time is inside each critical section, and its lock file
\* exists meanwhile.
OneInside(Section, lock) ==
  /\ \A p, q \in Processes : pc[p] \in Section /\ pc[q] \in Section => p = q
  /\ \A p \in Processes : pc[p] \in Section => lock

\* "Another Project activation is already in progress": two activations never
\* overlap, although any of them may fail or be cancelled.
OneActivator == OneInside(Activating, activationLock)

\* x approves b: it is b, or newer than b.
Covers(x, b) == x # NoBaseline /\ (x = b \/ RevisionOf[b] < RevisionOf[x])

\* current.json names a directory that exists, of a baseline that a user
\* trusted and that is no newer than the approved one, whatever crashes.
CurrentIsSound ==
  current # NoBaseline => /\ current \in active
                          /\ current \in trusted
                          /\ Covers(published, current)

\* "rather than leave half an activation": a directory under active/ was
\* current at some time, unless its activation is about to write the pointer,
\* or crashed or failed there.  A cancelled activation leaves none.
ActiveWasCurrent ==
  active \subseteq history \cup broken \cup {job[p] : p \in {q \in Processes : pc[q] = "moved"}}

-----------------------------------------------------------------------------
(* Action properties. *)

\* The approved baseline is only replaced by a newer one, whoever else is
\* about to write it.
PublishedMovesForward ==
  [][published' # published =>
       published = NoBaseline \/ RevisionOf[published'] > RevisionOf[published]]_vars

\* current.json never goes back to a baseline it named before: a receive that
\* was overtaken may install an older baseline late, but never the same twice.
CurrentNeverReturns == [][current' # current => current' \notin history]_vars

-----------------------------------------------------------------------------
(* What must happen. *)

\* A lock file goes away again, unless a process crashed with it.
LocksAreReleased ==
  /\ []<>(~publishedLock \/ "published" \in orphans)
  /\ []<>(~activationLock \/ "activation" \in orphans)

=============================================================================
