---------------------- MODULE ProjectActivationProofs ----------------------
(***************************************************************************)
(* Proofs about ProjectActivation, for any number of processes and any     *)
(* baselines: its invariants and its two action properties.                *)
(***************************************************************************)
EXTENDS ProjectActivation, TLAPS

\* Everything Next can do, by name.
Steps(p) ==
  \/ \E b \in Baselines : Receive(p, b)
  \/ OpenPublished(p)
  \/ ReadPublished(p)
  \/ WritePublished(p)
  \/ ReleasePublished(p)
  \/ BeginActivation(p)
  \/ Stage(p)
  \/ Approve(p)
  \/ Reject(p)
  \/ OpenActivation(p)
  \/ CheckActive(p)
  \/ Move(p)
  \/ WritePointer(p)
  \/ ReleaseActivation(p)
  \/ Cancel(p)
  \/ Crash(p)

LEMMA NextIsSteps == Next => \E p \in Processes : Steps(p)
BY DEF Next, Steps, FileStep

-----------------------------------------------------------------------------
(* Type correctness. *)

LEMMA InitTypeOK == Init => TypeOK
BY DEF Init, TypeOK, Stages

LEMMA NextTypeOK == TypeOK /\ [Next]_vars => TypeOK'
<1> SUFFICES ASSUME TypeOK, [Next]_vars PROVE TypeOK'
  OBVIOUS
<1>1. CASE UNCHANGED vars
  BY <1>1 DEF TypeOK, vars, files, histories
<1>2. CASE Next
  <2>1. PICK p \in Processes : Steps(p)
    BY <1>2, NextIsSteps
  <2>2. ASSUME NEW b \in Baselines, Receive(p, b) PROVE TypeOK'
    BY <2>2 DEF Receive, Goes, TypeOK, Stages, files, histories
  <2>3. CASE OpenPublished(p)
    BY <2>3 DEF OpenPublished, Goes, TypeOK, Stages, Approving, histories
  <2>4. CASE ReadPublished(p)
    BY <2>4 DEF ReadPublished, Goes, TypeOK, Stages, Approving, files, histories
  <2>5. CASE WritePublished(p)
    BY <2>5 DEF WritePublished, Goes, TypeOK, Stages, Approving, files, histories
  <2>6. CASE ReleasePublished(p)
    BY <2>6 DEF ReleasePublished, Goes, TypeOK, Stages, Interruptible, histories
  <2>7. CASE BeginActivation(p)
    BY <2>7 DEF BeginActivation, Goes, TypeOK, Stages, Interruptible, files, histories
  <2>8. CASE Stage(p)
    BY <2>8 DEF Stage, Goes, TypeOK, Stages, Interruptible, files, histories
  <2>9. CASE Approve(p)
    BY <2>9 DEF Approve, Goes, TypeOK, Stages, files
  <2>10. CASE Reject(p)
    BY <2>10 DEF Reject, TypeOK, Stages, files, histories
  <2>11. CASE OpenActivation(p)
    BY <2>11 DEF OpenActivation, Goes, TypeOK, Stages, Activating, histories
  <2>12. CASE CheckActive(p)
    BY <2>12 DEF CheckActive, Goes, TypeOK, Stages, Activating, files, histories
  <2>13. CASE Move(p)
    BY <2>13 DEF Move, Goes, TypeOK, Stages, Activating, files, histories
  <2>14. CASE WritePointer(p)
    BY <2>14 DEF WritePointer, Goes, TypeOK, Stages, Activating, files, histories
  <2>15. CASE ReleaseActivation(p)
    BY <2>15 DEF ReleaseActivation, Goes, TypeOK, Stages, histories
  <2>16. CASE Cancel(p)
    BY <2>16 DEF Cancel, TypeOK, files, histories
  <2>17. CASE Crash(p)
    BY <2>17 DEF Crash, TypeOK, Stages, files
  <2> QED
    BY <2>1, <2>2, <2>3, <2>4, <2>5, <2>6, <2>7, <2>8, <2>9, <2>10, <2>11, <2>12,
       <2>13, <2>14, <2>15, <2>16, <2>17 DEF Steps
<1> QED
  BY <1>1, <1>2

\* Every file and every process-local value keeps its type.
THEOREM ActivationTypeOK == Spec => []TypeOK
BY InitTypeOK, NextTypeOK, PTL DEF Spec

-----------------------------------------------------------------------------
(* Mutual exclusion: inductive relative to TypeOK. *)

Exclusion == OneInside(Approving, publishedLock) /\ OneInside(Activating, activationLock)

LEMMA InitExclusion == Init => Exclusion
BY DEF Init, Exclusion, OneInside, Approving, Activating

LEMMA NextExclusion == TypeOK /\ Exclusion /\ [Next]_vars => Exclusion'
<1> SUFFICES ASSUME TypeOK, Exclusion, [Next]_vars PROVE Exclusion'
  OBVIOUS
<1> USE DEF Exclusion, OneInside, Approving, Activating, TypeOK
<1>1. CASE UNCHANGED vars
  BY <1>1 DEF vars, files, histories
<1>2. CASE Next
  <2>1. PICK p \in Processes : Steps(p)
    BY <1>2, NextIsSteps
  \* Steps outside the critical sections.
  <2>2. CASE \E b \in Baselines : Receive(p, b)
    BY <2>2 DEF Receive, Goes, files
  <2>3. CASE BeginActivation(p) \/ Stage(p) \/ Approve(p) \/ Reject(p)
    BY <2>3 DEF BeginActivation, Stage, Approve, Reject, Goes, files, Interruptible
  \* The approval.
  <2>4. CASE OpenPublished(p)
    BY <2>4 DEF OpenPublished, Goes
  <2>5. CASE ReadPublished(p) \/ WritePublished(p)
    BY <2>5 DEF ReadPublished, WritePublished, Goes, files
  <2>6. CASE ReleasePublished(p)
    BY <2>6 DEF ReleasePublished, Goes
  \* The activation.
  <2>7. CASE OpenActivation(p)
    BY <2>7 DEF OpenActivation, Goes
  <2>8. CASE CheckActive(p) \/ Move(p)
    BY <2>8 DEF CheckActive, Move, Goes, files
  <2>9. CASE WritePointer(p)
    BY <2>9 DEF WritePointer, Goes, files
  <2>10. CASE ReleaseActivation(p)
    BY <2>10 DEF ReleaseActivation, Goes
  \* Interruptions.
  <2>11. CASE Cancel(p) \/ Crash(p)
    BY <2>11 DEF Cancel, Crash, files
  <2> QED
    BY <2>1, <2>2, <2>3, <2>4, <2>5, <2>6, <2>7, <2>8, <2>9, <2>10, <2>11 DEF Steps
<1> QED
  BY <1>1, <1>2

\* Two activations never overlap.
THEOREM ActivationsExcludeEachOther == Spec => []OneActivator
<1>1. Exclusion => OneActivator
  BY DEF Exclusion, OneActivator
<1> QED
  BY <1>1, InitTypeOK, NextTypeOK, InitExclusion, NextExclusion, PTL DEF Spec

-----------------------------------------------------------------------------
(* The invariant: what each stage has established. *)

\* Stages between the approval of the baseline and the pointer write, and those
\* after the user's answer.
Approved == {"approved", "locking", "locked", "checked", "moved"} \cup Interruptible
Trusting == {"locking", "locked", "checked", "moved"}

ApprovalInv ==
  /\ \A p \in Processes : pc[p] = "writing" => seen[p] = published
  /\ \A p \in Processes : pc[p] \in Approved => Covers(published, job[p])
  /\ current # NoBaseline => Covers(published, current)

TrustInv ==
  /\ \A p \in Processes : pc[p] \in Trusting => job[p] \in trusted
  /\ current # NoBaseline => current \in trusted

DirectoryInv ==
  /\ \A p \in Processes : pc[p] = "checked" => job[p] \notin active
  /\ \A p \in Processes : pc[p] = "moved" => job[p] \in active /\ job[p] \notin history
  /\ history \subseteq active
  /\ current # NoBaseline => current \in history

\* Approving is monotone: what was covered stays covered.
LEMMA CoversIsMonotone ==
  ASSUME NEW x \in Baselines \cup {NoBaseline}, NEW y \in Baselines, NEW b \in Baselines,
         Supersedes(y, x), Covers(x, b)
  PROVE  Covers(y, b)
BY ActivationAssumption DEF Supersedes, Covers

LEMMA CoversItself == \A b \in Baselines : Covers(b, b)
BY ActivationAssumption DEF Covers

LEMMA NextApprovalInv ==
  TypeOK /\ Exclusion /\ ApprovalInv /\ [Next]_vars => ApprovalInv'
<1> SUFFICES ASSUME TypeOK, Exclusion, ApprovalInv, [Next]_vars PROVE ApprovalInv'
  OBVIOUS
<1> USE DEF ApprovalInv, Approved, Interruptible, TypeOK
<1>1. CASE UNCHANGED vars
  BY <1>1 DEF vars, files, histories, Covers
<1>2. CASE Next
  <2>1. PICK p \in Processes : Steps(p)
    BY <1>2, NextIsSteps
  <2>2. CASE \E b \in Baselines : Receive(p, b)
    BY <2>2 DEF Receive, Goes, files, Covers
  <2>3. CASE OpenPublished(p) \/ ReadPublished(p) \/ ReleasePublished(p)
    BY <2>3 DEF OpenPublished, ReadPublished, ReleasePublished, Goes, files, Covers
  <2>4. CASE WritePublished(p)
    <3>1. CASE published' = published
      BY <2>4, <3>1, CoversItself DEF WritePublished, Goes, files, Covers
    <3>2. CASE published' # published
      <4>1. /\ Supersedes(job[p], published)
            /\ Goes(p, "writing", "approved")
            /\ published' = job[p]
            /\ UNCHANGED <<current, job, seen>>
        BY <2>4, <3>2 DEF WritePublished, Goes, files
      <4>2. job[p] \in Baselines
        BY <4>1 DEF Goes
      <4>3. \A b \in Baselines : Covers(published, b) => Covers(published', b)
        BY <4>1, <4>2, CoversIsMonotone
      \* Nobody else is about to write what it has read.
      <4>4. \A q \in Processes : pc'[q] # "writing"
        BY <4>1 DEF Exclusion, OneInside, Approving, Goes
      <4>5. ASSUME NEW q \in Processes, pc'[q] \in Approved PROVE Covers(published', job'[q])
        <5>1. CASE q = p
          BY <4>1, <4>2, <5>1, CoversItself
        <5>2. CASE q # p
          <6>1. pc[q] \in Approved
            BY <4>1, <4>5, <5>2 DEF Goes
          <6>2. job[q] \in Baselines
            BY <6>1
          <6> QED
            BY <4>1, <4>3, <6>1, <6>2
        <5> QED
          BY <5>1, <5>2
      <4>6. current' # NoBaseline => Covers(published', current')
        BY <4>1, <4>3
      <4> QED
        BY <4>4, <4>5, <4>6 DEF Covers
    <3> QED
      BY <3>1, <3>2
  <2>5. CASE BeginActivation(p) \/ Stage(p) \/ Approve(p) \/ Reject(p)
    BY <2>5 DEF BeginActivation, Stage, Approve, Reject, Goes, files, Covers
  <2>6. CASE OpenActivation(p) \/ CheckActive(p) \/ Move(p) \/ ReleaseActivation(p)
    BY <2>6 DEF OpenActivation, CheckActive, Move, ReleaseActivation, Goes, files, Covers
  <2>7. CASE WritePointer(p)
    BY <2>7 DEF WritePointer, Goes, files, Covers
  <2>8. CASE Cancel(p) \/ Crash(p)
    BY <2>8 DEF Cancel, Crash, files, Covers
  <2> QED
    BY <2>1, <2>2, <2>3, <2>4, <2>5, <2>6, <2>7, <2>8 DEF Steps
<1> QED
  BY <1>1, <1>2

LEMMA NextTrustInv == TypeOK /\ TrustInv /\ [Next]_vars => TrustInv'
<1> SUFFICES ASSUME TypeOK, TrustInv, [Next]_vars PROVE TrustInv'
  OBVIOUS
<1> USE DEF TrustInv, Trusting, TypeOK
<1>1. CASE UNCHANGED vars
  BY <1>1 DEF vars, files, histories
<1>2. CASE Next
  <2>1. PICK p \in Processes : Steps(p)
    BY <1>2, NextIsSteps
  <2>2. CASE \E b \in Baselines : Receive(p, b)
    BY <2>2 DEF Receive, Goes, files, histories
  <2>3. CASE OpenPublished(p) \/ ReadPublished(p) \/ WritePublished(p) \/ ReleasePublished(p)
    BY <2>3 DEF OpenPublished, ReadPublished, WritePublished, ReleasePublished,
                Goes, files, histories
  <2>4. CASE BeginActivation(p) \/ Stage(p) \/ Reject(p)
    BY <2>4 DEF BeginActivation, Stage, Reject, Goes, files, histories
  <2>5. CASE Approve(p)
    BY <2>5 DEF Approve, Goes, files
  <2>6. CASE OpenActivation(p) \/ CheckActive(p) \/ Move(p) \/ ReleaseActivation(p)
    BY <2>6 DEF OpenActivation, CheckActive, Move, ReleaseActivation, Goes, files, histories
  <2>7. CASE WritePointer(p)
    BY <2>7 DEF WritePointer, Goes, files
  <2>8. CASE Cancel(p) \/ Crash(p)
    BY <2>8 DEF Cancel, Crash, files, histories
  <2> QED
    BY <2>1, <2>2, <2>3, <2>4, <2>5, <2>6, <2>7, <2>8 DEF Steps
<1> QED
  BY <1>1, <1>2

LEMMA NextDirectoryInv ==
  TypeOK /\ Exclusion /\ DirectoryInv /\ [Next]_vars => DirectoryInv'
<1> SUFFICES ASSUME TypeOK, Exclusion, DirectoryInv, [Next]_vars PROVE DirectoryInv'
  OBVIOUS
<1> USE DEF DirectoryInv, TypeOK
<1>1. CASE UNCHANGED vars
  BY <1>1 DEF vars, files, histories
<1>2. CASE Next
  <2>1. PICK p \in Processes : Steps(p)
    BY <1>2, NextIsSteps
  <2>2. CASE \E b \in Baselines : Receive(p, b)
    BY <2>2 DEF Receive, Goes, files, histories
  <2>3. CASE OpenPublished(p) \/ ReadPublished(p) \/ WritePublished(p) \/ ReleasePublished(p)
    BY <2>3 DEF OpenPublished, ReadPublished, WritePublished, ReleasePublished,
                Goes, files, histories
  <2>4. CASE BeginActivation(p) \/ Stage(p) \/ Approve(p) \/ Reject(p)
    BY <2>4 DEF BeginActivation, Stage, Approve, Reject, Goes, files, histories
  <2>5. CASE OpenActivation(p) \/ CheckActive(p) \/ ReleaseActivation(p)
    BY <2>5 DEF OpenActivation, CheckActive, ReleaseActivation, Goes, files, histories
  \* The move and the pointer write need that nobody else is at work there.
  <2>6. CASE Move(p)
    BY <2>6 DEF Move, Goes, files, histories, Exclusion, OneInside, Activating
  <2>7. CASE WritePointer(p)
    BY <2>7 DEF WritePointer, Goes, files, Exclusion, OneInside, Activating
  <2>8. CASE Cancel(p) \/ Crash(p)
    BY <2>8 DEF Cancel, Crash, files, histories
  <2> QED
    BY <2>1, <2>2, <2>3, <2>4, <2>5, <2>6, <2>7, <2>8 DEF Steps
<1> QED
  BY <1>1, <1>2

LEMMA NextActiveWasCurrent == TypeOK /\ ActiveWasCurrent /\ [Next]_vars => ActiveWasCurrent'
<1> SUFFICES ASSUME TypeOK, ActiveWasCurrent, [Next]_vars,
                    NEW d \in active', d \notin history', d \notin broken'
             PROVE  \E q \in Processes : pc'[q] = "moved" /\ d = job'[q]
  BY DEF ActiveWasCurrent
<1> USE DEF TypeOK
<1>1. CASE UNCHANGED vars
  BY <1>1 DEF vars, files, histories, ActiveWasCurrent
<1>2. CASE Next
  <2>1. PICK p \in Processes : Steps(p)
    BY <1>2, NextIsSteps
  <2>2. history \subseteq history' /\ broken \subseteq broken'
    BY <2>1 DEF Steps, Receive, OpenPublished, ReadPublished, WritePublished, ReleasePublished,
                BeginActivation, Stage, Approve, Reject, OpenActivation, CheckActive, Move,
                WritePointer, ReleaseActivation, Cancel, Crash, histories
  <2>3. CASE d \notin active
    <3>1. Goes(p, "checked", "moved") /\ d = job[p] /\ job' = job
      BY <2>1, <2>3 DEF Steps, Receive, OpenPublished, ReadPublished, WritePublished,
                ReleasePublished, BeginActivation, Stage, Approve, Reject, OpenActivation,
                CheckActive, Move, WritePointer, ReleaseActivation, Cancel, Crash, files
    <3> QED
      BY <3>1 DEF Goes
  <2>4. CASE d \in active
    <3>1. PICK q \in Processes : pc[q] = "moved" /\ d = job[q]
      BY <2>2, <2>4 DEF ActiveWasCurrent
    \* Who has moved a directory goes on to the pointer write, or crashes.
    <3>2. CASE p = q
      BY <2>1, <3>1, <3>2 DEF Steps, Receive, OpenPublished, ReadPublished, WritePublished,
                ReleasePublished, BeginActivation, Stage, Approve, Reject, OpenActivation,
                CheckActive, Move, WritePointer, ReleaseActivation, Cancel, Crash, Goes,
                Interruptible
    <3>3. CASE p # q
      <4>1. pc'[q] = pc[q] /\ job'[q] = job[q]
        BY <2>1, <3>3 DEF Steps, Receive, OpenPublished, ReadPublished, WritePublished,
                ReleasePublished, BeginActivation, Stage, Approve, Reject, OpenActivation,
                CheckActive, Move, WritePointer, ReleaseActivation, Cancel, Crash, Goes
      <4> QED
        BY <3>1, <4>1
    <3> QED
      BY <3>2, <3>3
  <2> QED
    BY <2>3, <2>4
<1> QED
  BY <1>1, <1>2

-----------------------------------------------------------------------------
(* The theorems. *)

Inv == TypeOK /\ Exclusion /\ ApprovalInv /\ TrustInv /\ DirectoryInv /\ ActiveWasCurrent

LEMMA InitInv == Init => Inv
BY InitTypeOK, InitExclusion
   DEF Init, Inv, ApprovalInv, TrustInv, DirectoryInv, ActiveWasCurrent, Approved, Interruptible,
       Trusting

LEMMA SpecInv == Spec => []Inv
<1>1. Inv /\ [Next]_vars => Inv'
  BY NextTypeOK, NextExclusion, NextApprovalInv, NextTrustInv, NextDirectoryInv,
     NextActiveWasCurrent DEF Inv
<1> QED
  BY InitInv, <1>1, PTL DEF Spec

\* current.json always names an existing directory of a trusted and approved
\* baseline.
THEOREM CurrentStaysSound == Spec => []CurrentIsSound
<1>1. Inv => CurrentIsSound
  BY DEF Inv, ApprovalInv, TrustInv, DirectoryInv, CurrentIsSound
<1> QED
  BY SpecInv, <1>1, PTL

\* A half activation exists only after a crash, or a failing pointer write.
THEOREM NoHalfActivation == Spec => []ActiveWasCurrent
<1>1. Inv => ActiveWasCurrent
  BY DEF Inv
<1> QED
  BY SpecInv, <1>1, PTL

\* Only WritePublished writes the approved pointer, and what it has read is
\* still there when it writes.
THEOREM ApprovalMovesForward == Spec => PublishedMovesForward
<1>1. ASSUME Inv, Next, published' # published
      PROVE  published = NoBaseline \/ RevisionOf[published'] > RevisionOf[published]
  <2>1. PICK p \in Processes : Steps(p)
    BY <1>1, NextIsSteps
  <2>2. WritePublished(p)
    BY <1>1, <2>1 DEF Steps, Receive, OpenPublished, ReadPublished, ReleasePublished,
                BeginActivation, Stage, Approve, Reject, OpenActivation, CheckActive, Move,
                WritePointer, ReleaseActivation, Cancel, Crash, files
  <2>3. pc[p] = "writing" /\ Supersedes(job[p], seen[p]) /\ published' = job[p]
    BY <1>1, <2>2 DEF WritePublished, Goes, files
  <2>4. seen[p] = published
    BY <1>1, <2>3 DEF Inv, ApprovalInv
  <2> QED
    BY <1>1, <2>3, <2>4 DEF Supersedes
<1> QED
  BY SpecInv, <1>1, PTL DEF Spec, PublishedMovesForward

\* Only a directory that was just moved becomes current.
THEOREM CurrentIsNew == Spec => CurrentNeverReturns
<1>1. ASSUME Inv, Next, current' # current PROVE current' \notin history
  <2>1. PICK p \in Processes : Steps(p)
    BY <1>1, NextIsSteps
  <2>2. pc[p] = "moved" /\ current' = job[p]
    BY <1>1, <2>1 DEF Steps, Receive, OpenPublished, ReadPublished, WritePublished,
                ReleasePublished, BeginActivation, Stage, Approve, Reject, OpenActivation,
                CheckActive, Move, WritePointer, ReleaseActivation, Cancel, Crash, files, Goes
  <2> QED
    BY <1>1, <2>2 DEF Inv, DirectoryInv
<1> QED
  BY SpecInv, <1>1, PTL DEF Spec, CurrentNeverReturns

=============================================================================
