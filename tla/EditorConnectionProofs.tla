------------------------ MODULE EditorConnectionProofs ------------------------
(***************************************************************************)
(* Whatever the order of callbacks, gestures, faults and the server's      *)
(* answers, an Editor has one socket that is not being closed, and it is   *)
(* the one its connection service knows.                                   *)
(***************************************************************************)
EXTENDS EditorConnection, SequenceTheorems, TLAPS

(* A state that waits for something other than a transport has none, and a  *)
(* disconnect whose end still counts has taken the transport away.          *)
Rests(r) ==
  /\ r.state \in {"disconnected", "disconnecting", "reconnecting", "faulted"} => r.current = 0
  /\ r.finishing # 0 => r.current = 0

Inv ==
  /\ TypeOK
  /\ \A e \in Editors : Rests(editor[e])
  /\ OneTransport

Alive(k) == k.client \in {"dialing", "open", "failed"}

-----------------------------------------------------------------------------
(* The operators on one Editor and on one connection.                       *)

LEMMA PrefixType ==
  ASSUME NEW S, NEW s \in Seq(S), NEW n \in Nat, n <= Len(s)
  PROVE  SubSeq(s, 1, n) \in Seq(S)
<1>1. \A i \in 1 .. n : s[i] \in S
  OBVIOUS
<1> QED BY <1>1

(* Enqueue touches nothing but the queue, its mark and its count.           *)
LEMMA EnqueueEffect ==
  ASSUME NEW r \in EditorStates, NEW callbacks \in Seq(Callbacks)
  PROVE  /\ Enqueue(r, callbacks) \in EditorStates
         /\ Enqueue(r, callbacks).current = r.current
         /\ Enqueue(r, callbacks).state = r.state
         /\ Enqueue(r, callbacks).finishing = r.finishing
<1> DEFINE all == r.queue \o callbacks
<1>1. r.queue \in Seq(Callbacks)
  BY DEF EditorStates
<1>2. all \in Seq(Callbacks)
  BY <1>1, ConcatProperties
<1>3. CASE Len(all) <= MaxQueue
  BY <1>2, <1>3 DEF Enqueue, EditorStates
<1>4. CASE ~(Len(all) <= MaxQueue)
  <2>1. Len(all) \in Nat /\ MaxQueue \in Nat /\ MaxRuns \in Nat
    BY <1>2, BoundsAssumption
  <2> HIDE DEF all
  <2>3. SubSeq(all, 1, MaxQueue) \in Seq(Callbacks)
    BY <1>2, <1>4, <2>1, PrefixType
  <2>4. (IF r.overflowed THEN r.late ELSE MaxRuns) \in Nat
    BY <2>1 DEF EditorStates
  <2>5. Enqueue(r, callbacks) =
          [r EXCEPT !.queue = SubSeq(all, 1, MaxQueue), !.overflowed = TRUE,
                    !.late = IF r.overflowed THEN @ ELSE MaxRuns]
    BY <1>4 DEF Enqueue, all
  <2> QED BY <2>3, <2>4, <2>5 DEF EditorStates
<1> QED BY <1>3, <1>4

LEMMA DisposalType ==
  ASSUME TypeOK, NEW c \in Connections
  PROVE  DisposalOf(c) \in Seq(Callbacks)
<1>1. Callback("closed", c) \in Callbacks /\ Callback("failed", c) \in Callbacks
  BY DEF Callback, Callbacks
<1>2. /\ <<Callback("closed", c), Callback("failed", c)>> \in Seq(Callbacks)
      /\ <<Callback("closed", c)>> \in Seq(Callbacks)
      /\ <<>> \in Seq(Callbacks)
  BY <1>1
<1> QED BY <1>2 DEF DisposalOf

LEMMA NoConnectionType ==
  NoConnection \in ConnectionStates /\ ~Alive(NoConnection)
<1>1. (CHOOSE e \in Editors : TRUE) \in Editors
  BY BoundsAssumption
<1> QED BY <1>1 DEF NoConnection, ConnectionStates, Alive

(* Forgetting and disposing never revive a connection.                      *)
LEMMA ForgetType ==
  ASSUME NEW k \in ConnectionStates
  PROVE  /\ Forget(k) \in ConnectionStates
         /\ Alive(Forget(k)) => Forget(k) = k
BY NoConnectionType DEF Forget

LEMMA DeadType ==
  ASSUME NEW k \in ConnectionStates
  PROVE  Dead(k) \in ConnectionStates /\ ~Alive(Dead(k))
<1> DEFINE d == [k EXCEPT !.client = "dead", !.toClient = <<>>]
<1>0. <<>> \in Seq({"ack", "superseded"})
  OBVIOUS
<1>1. d \in ConnectionStates /\ ~Alive(d)
  BY <1>0 DEF ConnectionStates, Alive
<1> HIDE DEF d
<1>2. Dead(k) = Forget(d)
  BY DEF Dead, d
<1> QED BY <1>1, <1>2, ForgetType

LEMMA TellType ==
  ASSUME NEW k \in ConnectionStates, NEW message \in {"ack", "superseded"}
  PROVE  /\ Tell(k, message) \in ConnectionStates
         /\ Tell(k, message).owner = k.owner
         /\ Tell(k, message).client = k.client
<1>1. Append(k.toClient, message) \in Seq({"ack", "superseded"})
  BY AppendProperties DEF ConnectionStates
<1> QED BY <1>1 DEF Tell, ConnectionStates

-----------------------------------------------------------------------------
(* A step that gives one Editor new statics keeps the invariant if every    *)
(* connection that lives and is not being closed is the current one of its  *)
(* Editor afterwards.                                                       *)
LEMMA OneEditorStep ==
  ASSUME Inv, NEW e \in Editors, NEW r \in EditorStates, Rests(r),
         editor' = [editor EXCEPT ![e] = r],
         conn' \in [Connections -> ConnectionStates],
         closers' \subseteq Connections,
         member' \in {0} \cup Connections,
         connects' \in Nat, gestures' \in Nat, faults' \in Nat,
         \A d \in Connections : Alive(conn'[d]) /\ d \notin closers' =>
           IF conn'[d].owner = e THEN r.current = d
           ELSE editor[conn'[d].owner].current = d
  PROVE  Inv'
<1>1. TypeOK'
  BY DEF Inv, TypeOK
<1>2. \A f \in Editors : editor'[f] = IF f = e THEN r ELSE editor[f]
  BY DEF Inv, TypeOK
<1>3. \A f \in Editors : Rests(editor'[f])
  BY <1>2 DEF Inv
<1>4. OneTransport'
  <2> SUFFICES ASSUME NEW d \in Connections, Alive(conn'[d]), d \notin closers'
               PROVE  editor'[conn'[d].owner].current = d
    BY DEF OneTransport, Alive
  <2>1. conn'[d].owner \in Editors
    BY DEF ConnectionStates
  <2> QED BY <1>2, <2>1
<1> QED BY <1>1, <1>3, <1>4 DEF Inv, Rests

-----------------------------------------------------------------------------
(* The steps of the connection service, whoever calls them.                 *)

(* What the invariant says of one Editor and one connection.                *)
LEMMA InvFacts ==
  ASSUME Inv
  PROVE  /\ \A e \in Editors : editor[e] \in EditorStates
         /\ \A d \in Connections : conn[d] \in ConnectionStates
         /\ \A d \in Connections : Alive(conn[d]) /\ d \notin closers =>
              editor[conn[d].owner].current = d
BY DEF Inv, TypeOK, OneTransport, Alive

LEMMA QuietStep ==
  ASSUME Inv, NEW e \in Editors, NEW r \in EditorStates, Rests(r),
         r.current = editor[e].current, Quietly(e, r),
         connects' \in Nat, gestures' \in Nat, faults' \in Nat
  PROVE  Inv'
<1>1. /\ editor' = [editor EXCEPT ![e] = r]
      /\ conn' = conn /\ closers' = closers /\ member' = member
  BY DEF Quietly
<1>2. /\ conn' \in [Connections -> ConnectionStates]
      /\ closers' \subseteq Connections
      /\ member' \in {0} \cup Connections
  BY <1>1 DEF Inv, TypeOK
<1>3. \A d \in Connections : Alive(conn'[d]) /\ d \notin closers' =>
        IF conn'[d].owner = e THEN r.current = d
        ELSE editor[conn'[d].owner].current = d
  BY <1>1, InvFacts
<1> QED BY <1>1, <1>2, <1>3, OneEditorStep

(* The connection that is lost is the current one, and it dies.             *)
LEMMA LossStep ==
  ASSUME Inv, NEW e \in Editors, NEW r \in EditorStates, NEW c \in Connections,
         editor[e].current = c, NEW allow \in BOOLEAN,
         HandleConnectionLoss(e, r, c, allow),
         connects' \in Nat, gestures' \in Nat, faults' \in Nat
  PROVE  Inv'
<1> DEFINE again == r.desired /\ allow
           s == [r EXCEPT !.current = 0,
                          !.state = IF again THEN "reconnecting" ELSE "faulted",
                          !.desired = again]
           t == Enqueue(s, DisposalOf(c))
<1>1. s \in EditorStates /\ s.current = 0
  BY DEF EditorStates, States
<1>2. DisposalOf(c) \in Seq(Callbacks)
  BY DisposalType DEF Inv
<1>3. t \in EditorStates /\ t.current = 0
  <2> HIDE DEF s
  <2> QED BY <1>1, <1>2, EnqueueEffect
<1>4. Rests(t)
  BY <1>3 DEF Rests
<1>5. /\ editor' = [editor EXCEPT ![e] = t]
      /\ conn' = [conn EXCEPT ![c] = Dead(@)]
      /\ closers' = closers /\ member' = member
  BY DEF HandleConnectionLoss
<1> HIDE DEF t
<1>6. conn' = [conn EXCEPT ![c] = Dead(conn[c])]
  BY <1>5
<1>7. Dead(conn[c]) \in ConnectionStates /\ ~Alive(Dead(conn[c]))
  BY InvFacts, DeadType
<1>8. /\ conn' \in [Connections -> ConnectionStates]
      /\ closers' \subseteq Connections
      /\ member' \in {0} \cup Connections
  BY <1>5, <1>6, <1>7 DEF Inv, TypeOK
<1>9. ASSUME NEW d \in Connections, Alive(conn'[d]), d \notin closers'
      PROVE  IF conn'[d].owner = e THEN t.current = d
             ELSE editor[conn'[d].owner].current = d
  <2>1. conn \in [Connections -> ConnectionStates]
    BY DEF Inv, TypeOK
  <2>2. d # c
    BY <1>6, <1>7, <1>9, <2>1
  <2>3. conn'[d] = conn[d]
    BY <1>6, <2>1, <2>2
  <2>4. editor[conn[d].owner].current = d
    BY <1>5, <1>9, <2>3, InvFacts
  <2> QED BY <2>2, <2>3, <2>4
<1> QED BY <1>3, <1>4, <1>5, <1>8, <1>9, OneEditorStep

(* A new attempt begins while the Editor has no current connection.         *)
LEMMA BeginStep ==
  ASSUME Inv, NEW e \in Editors, NEW r \in EditorStates,
         editor[e].current = 0, BeginConnect(e, r),
         connects' \in Nat, gestures' \in Nat, faults' \in Nat
  PROVE  Inv'
<1>1. PICK c \in Connections :
        /\ editor' = [editor EXCEPT ![e] =
             [r EXCEPT !.state = "connecting", !.current = c, !.finishing = 0]]
        /\ conn' = [conn EXCEPT ![c] = [@ EXCEPT !.owner = e, !.client = "dialing"]]
        /\ closers' = closers /\ member' = member
  BY DEF BeginConnect
<1> DEFINE t == [r EXCEPT !.state = "connecting", !.current = c, !.finishing = 0]
           k == [conn[c] EXCEPT !.owner = e, !.client = "dialing"]
<1>2. t \in EditorStates /\ Rests(t) /\ t.current = c
  BY DEF EditorStates, States, Rests
<1>3. conn \in [Connections -> ConnectionStates]
  BY DEF Inv, TypeOK
<1>4. k \in ConnectionStates /\ k.owner = e
  BY <1>3 DEF ConnectionStates
<1>5. editor' = [editor EXCEPT ![e] = t] /\ conn' = [conn EXCEPT ![c] = k]
  BY <1>1
<1> HIDE DEF t, k
<1>6. /\ conn' \in [Connections -> ConnectionStates]
      /\ closers' \subseteq Connections
      /\ member' \in {0} \cup Connections
  BY <1>1, <1>3, <1>4, <1>5 DEF Inv, TypeOK
<1>7. ASSUME NEW d \in Connections, Alive(conn'[d]), d \notin closers'
      PROVE  IF conn'[d].owner = e THEN t.current = d
             ELSE editor[conn'[d].owner].current = d
  <2>1. CASE d = c
    BY <1>2, <1>3, <1>4, <1>5, <2>1
  <2>2. CASE d # c
    <3>1. conn'[d] = conn[d]
      BY <1>3, <1>5, <2>2
    <3>2. editor[conn[d].owner].current = d
      BY <1>1, <1>7, <3>1, InvFacts
    <3>3. d # 0
      BY BoundsAssumption DEF Connections
    <3> QED BY <3>1, <3>2, <3>3
  <2> QED BY <2>1, <2>2
<1> QED BY <1>2, <1>5, <1>6, <1>7, OneEditorStep

-----------------------------------------------------------------------------
(* A step of a network thread queues callbacks; it may end a connection or  *)
(* what was being closed, and makes no dead one alive.                      *)
LEMMA NetworkStep ==
  ASSUME Inv, NEW e \in Editors, NEW callbacks \in Seq(Callbacks),
         editor' = [editor EXCEPT ![e] = Enqueue(@, callbacks)],
         NEW c \in Connections, NEW k \in ConnectionStates,
         conn' = [conn EXCEPT ![c] = k],
         Alive(k) => Alive(conn[c]) /\ k.owner = conn[c].owner,
         closers' = closers \/ (closers' = closers \ {c} /\ ~Alive(k)),
         member' = member,
         connects' \in Nat, gestures' \in Nat, faults' \in Nat
  PROVE  Inv'
<1> DEFINE t == Enqueue(editor[e], callbacks)
<1>1. editor[e] \in EditorStates /\ Rests(editor[e])
  BY InvFacts DEF Inv
<1>2. /\ t \in EditorStates
      /\ t.current = editor[e].current
      /\ t.state = editor[e].state
      /\ t.finishing = editor[e].finishing
  BY <1>1, EnqueueEffect
<1>3. Rests(t)
  BY <1>1, <1>2 DEF Rests
<1>4. editor' = [editor EXCEPT ![e] = t]
  OBVIOUS
<1> HIDE DEF t
<1>5. conn \in [Connections -> ConnectionStates]
  BY DEF Inv, TypeOK
<1>6. /\ conn' \in [Connections -> ConnectionStates]
      /\ closers' \subseteq Connections
      /\ member' \in {0} \cup Connections
  BY <1>5 DEF Inv, TypeOK
<1>7. ASSUME NEW d \in Connections, Alive(conn'[d]), d \notin closers'
      PROVE  IF conn'[d].owner = e THEN t.current = d
             ELSE editor[conn'[d].owner].current = d
  <2>1. Alive(conn[d]) /\ conn'[d].owner = conn[d].owner /\ d \notin closers
    <3>1. CASE d = c
      BY <1>5, <1>7, <3>1
    <3>2. CASE d # c
      BY <1>5, <1>7, <3>2
    <3> QED BY <3>1, <3>2
  <2>2. editor[conn[d].owner].current = d
    BY <2>1, InvFacts
  <2> QED BY <1>2, <2>1, <2>2
<1> QED BY <1>2, <1>3, <1>4, <1>6, <1>7, OneEditorStep

(* A step of the server leaves the Editors alone and revives no client end. *)
LEMMA ServerStep ==
  ASSUME Inv, UNCHANGED <<editor, closers>>,
         conn' \in [Connections -> ConnectionStates],
         \A d \in Connections : Alive(conn'[d]) =>
           Alive(conn[d]) /\ conn'[d].owner = conn[d].owner,
         member' \in {0} \cup Connections,
         connects' \in Nat, gestures' \in Nat, faults' \in Nat
  PROVE  Inv'
<1>1. TypeOK'
  BY DEF Inv, TypeOK
<1>2. \A e \in Editors : Rests(editor'[e])
  BY DEF Inv
<1>3. OneTransport'
  BY InvFacts DEF OneTransport, Alive
<1> QED BY <1>1, <1>2, <1>3 DEF Inv, Rests

(* The bounds stay natural numbers.                                         *)
LEMMA BoundsStep ==
  ASSUME Inv, (UNCHANGED bounds) \/ Gesture \/ Fault
  PROVE  connects' \in Nat /\ gestures' \in Nat /\ faults' \in Nat
BY DEF Inv, TypeOK, bounds, Gesture, Fault

-----------------------------------------------------------------------------
(* One lemma per action of the main thread and the user.                    *)

LEMMA RunCallbackStep ==
  ASSUME Inv, NEW e \in Editors, RunCallback(e)
  PROVE  Inv'
<1> DEFINE next == Head(editor[e].queue)
           c == next.conn
           r == [editor[e] EXCEPT !.queue = Tail(@),
                                  !.late = IF @ = 0 THEN 0 ELSE @ - 1]
<1>1. editor[e] \in EditorStates /\ Rests(editor[e])
  BY InvFacts DEF Inv
<1>2. editor[e].queue \in Seq(Callbacks) /\ editor[e].queue # <<>>
  BY <1>1 DEF EditorStates, RunCallback
<1>3. next \in Callbacks /\ Tail(editor[e].queue) \in Seq(Callbacks)
  BY <1>2, HeadTailProperties
<1>4. c \in Connections
  BY <1>3 DEF Callbacks
<1>5. (IF editor[e].late = 0 THEN 0 ELSE editor[e].late - 1) \in Nat
  BY <1>1 DEF EditorStates
<1>6. /\ r \in EditorStates /\ r.current = editor[e].current
      /\ r.state = editor[e].state /\ r.finishing = editor[e].finishing
  BY <1>1, <1>3, <1>5 DEF EditorStates
<1>7. Rests(r)
  BY <1>1, <1>6 DEF Rests
<1>8. connects' \in Nat /\ gestures' \in Nat /\ faults' \in Nat
  BY BoundsStep DEF RunCallback
<1>9. \/ OnFinished(e, r, c)
      \/ Quietly(e, r)
      \/ /\ editor[e].current = c
         /\ \/ OnTransportConnected(e, r, c)
            \/ HandleHelloAck(e, r, c)
            \/ HandleSuperseded(e, r, c)
            \/ HandleConnectionLoss(e, r, c, TRUE)
  BY DEF RunCallback, IsCurrent
<1> HIDE DEF next, c, r
<1>10. CASE Quietly(e, r)
  BY <1>6, <1>7, <1>8, <1>10, QuietStep
<1>11. CASE OnFinished(e, r, c)
  <2> DEFINE t == [r EXCEPT !.state = "disconnected", !.finishing = 0]
  <2>1. CASE r.finishing = c
    <3>1. c # 0
      BY <1>4, BoundsAssumption DEF Connections
    <3>2. r.current = 0
      BY <1>7, <2>1, <3>1 DEF Rests
    <3>3. t \in EditorStates /\ t.current = r.current /\ Rests(t)
      BY <1>6, <3>2 DEF EditorStates, States, Rests
    <3>4. Quietly(e, t)
      BY <1>11, <2>1 DEF OnFinished
    <3> QED BY <1>6, <1>8, <3>3, <3>4, QuietStep
  <2>2. CASE r.finishing # c
    BY <1>10, <1>11, <2>2 DEF OnFinished
  <2> QED BY <2>1, <2>2
<1>12. CASE editor[e].current = c /\ HandleConnectionLoss(e, r, c, TRUE)
  BY <1>4, <1>6, <1>8, <1>12, LossStep
<1>13. CASE editor[e].current = c /\ HandleHelloAck(e, r, c)
  <2> DEFINE t == [r EXCEPT !.state = "connected"]
  <2>1. CASE r.state = "handshaking"
    <3>1. t \in EditorStates /\ t.current = r.current /\ Rests(t)
      BY <1>6, <1>7 DEF EditorStates, States, Rests
    <3>2. Quietly(e, t)
      BY <1>13, <2>1 DEF HandleHelloAck
    <3> QED BY <1>6, <1>8, <3>1, <3>2, QuietStep
  <2>2. CASE r.state # "handshaking"
    <3>1. HandleConnectionLoss(e, r, c, FALSE)
      BY <1>13, <2>2 DEF HandleHelloAck
    <3> QED BY <1>4, <1>6, <1>8, <1>13, <3>1, LossStep
  <2> QED BY <2>1, <2>2
<1>14. CASE editor[e].current = c /\ HandleSuperseded(e, r, c)
  <2> DEFINE t == [r EXCEPT !.desired = FALSE]
  <2>1. t \in EditorStates /\ t.current = r.current /\ Rests(t)
    BY <1>6, <1>7 DEF EditorStates, Rests
  <2>2. HandleConnectionLoss(e, t, c, FALSE) \/ Quietly(e, t)
    BY <1>14 DEF HandleSuperseded
  <2> HIDE DEF t
  <2>3. CASE HandleConnectionLoss(e, t, c, FALSE)
    BY <1>4, <1>8, <1>14, <2>1, <2>3, LossStep
  <2>4. CASE Quietly(e, t)
    BY <1>6, <1>8, <2>1, <2>4, QuietStep
  <2> QED BY <2>2, <2>3, <2>4
<1>15. CASE editor[e].current = c /\ OnTransportConnected(e, r, c)
  <2> DEFINE t == [r EXCEPT !.state = "handshaking"]
             k == [conn[c] EXCEPT !.hello = conn[c].hello \/ conn[c].client = "open"]
  <2>1. t \in EditorStates /\ t.current = r.current /\ Rests(t)
    BY <1>6, <1>7 DEF EditorStates, States, Rests
  <2>2. /\ editor' = [editor EXCEPT ![e] = t]
        /\ conn' = [conn EXCEPT ![c] = k]
        /\ closers' = closers /\ member' = member
    BY <1>15 DEF OnTransportConnected
  <2>3. conn \in [Connections -> ConnectionStates]
    BY DEF Inv, TypeOK
  <2>4. conn[c] \in ConnectionStates
    BY <1>4, <2>3
  <2>5. k \in ConnectionStates /\ k.owner = conn[c].owner /\ k.client = conn[c].client
    BY <2>4 DEF ConnectionStates
  <2> HIDE DEF t, k
  <2>6. /\ conn' \in [Connections -> ConnectionStates]
        /\ closers' \subseteq Connections
        /\ member' \in {0} \cup Connections
    BY <2>2, <2>3, <2>5 DEF Inv, TypeOK
  <2>7. \A d \in Connections :
          conn'[d].owner = conn[d].owner /\ conn'[d].client = conn[d].client
    BY <2>2, <2>3, <2>5
  <2>8. \A d \in Connections : Alive(conn'[d]) /\ d \notin closers' =>
          IF conn'[d].owner = e THEN t.current = d
          ELSE editor[conn'[d].owner].current = d
    BY <1>6, <2>1, <2>2, <2>7, InvFacts DEF Alive
  <2> QED BY <1>8, <2>1, <2>2, <2>6, <2>8, OneEditorStep
<1> QED BY <1>9, <1>10, <1>11, <1>12, <1>13, <1>14, <1>15

LEMMA OverflowedStep ==
  ASSUME Inv, NEW e \in Editors, Overflowed(e)
  PROVE  Inv'
<1> DEFINE r == [editor[e] EXCEPT !.overflowed = FALSE, !.late = 0]
<1>1. editor[e] \in EditorStates /\ Rests(editor[e])
  BY InvFacts DEF Inv
<1>2. r \in EditorStates /\ r.current = editor[e].current /\ Rests(r)
  BY <1>1 DEF EditorStates, Rests
<1>3. connects' \in Nat /\ gestures' \in Nat /\ faults' \in Nat
  BY BoundsStep DEF Overflowed
<1>4. IF r.current # 0 THEN HandleConnectionLoss(e, r, r.current, FALSE)
      ELSE Quietly(e, r)
  BY DEF Overflowed
<1> HIDE DEF r
<1>5. CASE r.current # 0
  <2>1. r.current \in Connections
    BY <1>2, <1>5 DEF EditorStates
  <2> QED BY <1>2, <1>3, <1>4, <1>5, <2>1, LossStep
<1>6. CASE r.current = 0
  BY <1>2, <1>3, <1>4, <1>6, QuietStep
<1> QED BY <1>5, <1>6

LEMMA ReconnectTimerStep ==
  ASSUME Inv, NEW e \in Editors, ReconnectTimer(e)
  PROVE  Inv'
<1>1. editor[e] \in EditorStates /\ editor[e].current = 0
  BY InvFacts DEF Inv, Rests, ReconnectTimer
<1>2. connects' \in Nat /\ gestures' \in Nat /\ faults' \in Nat
  BY BoundsStep DEF ReconnectTimer
<1>3. BeginConnect(e, editor[e])
  BY DEF ReconnectTimer
<1> QED BY <1>1, <1>2, <1>3, BeginStep

LEMMA HelloTimesOutStep ==
  ASSUME Inv, NEW e \in Editors, HelloTimesOut(e)
  PROVE  Inv'
<1>1. editor[e] \in EditorStates /\ editor[e].current \in Connections
  <2>1. editor[e] \in EditorStates
    BY InvFacts
  <2> QED BY <2>1 DEF EditorStates, HelloTimesOut
<1>2. connects' \in Nat /\ gestures' \in Nat /\ faults' \in Nat
  BY BoundsStep DEF HelloTimesOut
<1>3. HandleConnectionLoss(e, editor[e], editor[e].current, TRUE)
  BY DEF HelloTimesOut
<1> QED BY <1>1, <1>2, <1>3, LossStep

(* Connecting is called where MayConnect holds, and there is no transport.  *)
LEMMA ConnectingStep ==
  ASSUME Inv, NEW e \in Editors, MayConnect(e), Connecting(e),
         connects' \in Nat, gestures' \in Nat, faults' \in Nat
  PROVE  Inv'
<1> DEFINE r == [editor[e] EXCEPT !.desired = TRUE, !.resume = FALSE]
<1>1. editor[e] \in EditorStates /\ editor[e].current = 0
  BY InvFacts DEF Inv, Rests, MayConnect
<1>2. r \in EditorStates
  BY <1>1 DEF EditorStates
<1>3. BeginConnect(e, r)
  BY DEF Connecting
<1> HIDE DEF r
<1> QED BY <1>1, <1>2, <1>3, BeginStep

LEMMA ConnectStep ==
  ASSUME Inv, NEW e \in Editors, Connect(e)
  PROVE  Inv'
<1>1. connects' \in Nat /\ gestures' \in Nat /\ faults' \in Nat
  BY DEF Connect, Inv, TypeOK
<1> QED BY <1>1, ConnectingStep DEF Connect

LEMMA ResumeStep ==
  ASSUME Inv, NEW e \in Editors, ResumeAfterAssemblyReload(e)
  PROVE  Inv'
<1> DEFINE r == [editor[e] EXCEPT !.resume = FALSE]
<1>1. connects' \in Nat /\ gestures' \in Nat /\ faults' \in Nat
  BY BoundsStep DEF ResumeAfterAssemblyReload
<1>2. CASE MayConnect(e)
  BY <1>1, <1>2, ConnectingStep DEF ResumeAfterAssemblyReload
<1>3. CASE ~MayConnect(e)
  <2>1. editor[e] \in EditorStates /\ Rests(editor[e])
    BY InvFacts DEF Inv
  <2>2. r \in EditorStates /\ r.current = editor[e].current /\ Rests(r)
    BY <2>1 DEF EditorStates, Rests
  <2>3. Quietly(e, r)
    BY <1>3 DEF ResumeAfterAssemblyReload
  <2> HIDE DEF r
  <2> QED BY <1>1, <2>2, <2>3, QuietStep
<1> QED BY <1>2, <1>3

(* Disconnect moves the current connection among those being closed.        *)
LEMMA DisconnectStep ==
  ASSUME Inv, NEW e \in Editors, Disconnect(e)
  PROVE  Inv'
<1> DEFINE c == editor[e].current
           r == [editor[e] EXCEPT !.desired = FALSE, !.resume = FALSE,
                                  !.current = 0, !.finishing = c]
           s == [r EXCEPT !.state = "disconnected"]
           t == [r EXCEPT !.state = "disconnecting"]
<1>1. editor[e] \in EditorStates
  BY InvFacts
<1>2. c \in {0} \cup Connections
  BY <1>1 DEF EditorStates
<1>3. /\ s \in EditorStates /\ s.current = 0 /\ Rests(s)
      /\ t \in EditorStates /\ t.current = 0 /\ Rests(t)
  BY <1>1, <1>2 DEF EditorStates, States, Rests
<1>4. connects' \in Nat /\ gestures' \in Nat /\ faults' \in Nat
  BY BoundsStep DEF Disconnect
<1>5. \/ c = 0 /\ Quietly(e, s)
      \/ /\ c # 0
         /\ editor' = [editor EXCEPT ![e] = t]
         /\ closers' = closers \cup {c}
         /\ conn' = conn /\ member' = member
  BY DEF Disconnect
<1> HIDE DEF c, r, s, t
<1>6. CASE c = 0 /\ Quietly(e, s)
  BY <1>3, <1>4, <1>6, QuietStep DEF c
<1>7. CASE /\ c # 0
           /\ editor' = [editor EXCEPT ![e] = t]
           /\ closers' = closers \cup {c}
           /\ conn' = conn /\ member' = member
  <2>1. c \in Connections
    BY <1>2, <1>7
  <2>2. /\ conn' \in [Connections -> ConnectionStates]
        /\ closers' \subseteq Connections
        /\ member' \in {0} \cup Connections
    BY <1>7, <2>1 DEF Inv, TypeOK
  <2>3. ASSUME NEW d \in Connections, Alive(conn'[d]), d \notin closers'
        PROVE  IF conn'[d].owner = e THEN t.current = d
               ELSE editor[conn'[d].owner].current = d
    <3>1. d # c /\ conn'[d] = conn[d] /\ d \notin closers
      BY <1>7, <2>3
    <3>2. editor[conn[d].owner].current = d
      BY <2>3, <3>1, InvFacts
    <3> QED BY <3>1, <3>2 DEF c
  <2> QED BY <1>3, <1>4, <1>7, <2>2, <2>3, OneEditorStep
<1> QED BY <1>5, <1>6, <1>7

LEMMA CancelStep ==
  ASSUME Inv, NEW e \in Editors, CancelAutomaticResume(e)
  PROVE  Inv'
<1> DEFINE r == [editor[e] EXCEPT !.desired = FALSE, !.resume = FALSE]
<1>1. editor[e] \in EditorStates /\ Rests(editor[e])
  BY InvFacts DEF Inv
<1>2. r \in EditorStates /\ r.current = editor[e].current /\ Rests(r)
  BY <1>1 DEF EditorStates, Rests
<1>3. connects' \in Nat /\ gestures' \in Nat /\ faults' \in Nat
  BY BoundsStep DEF CancelAutomaticResume
<1>4. Quietly(e, r)
  BY DEF CancelAutomaticResume
<1> HIDE DEF r
<1> QED BY <1>2, <1>3, <1>4, QuietStep

(* A domain that is unloaded takes every socket of its Editor with it.      *)
LEMMA NewDomainStep ==
  ASSUME Inv, NEW e \in Editors, NEW resume \in BOOLEAN, NewDomain(e, resume),
         connects' \in Nat, gestures' \in Nat, faults' \in Nat
  PROVE  Inv'
<1> DEFINE r == [FreshDomain EXCEPT !.resume = resume]
<1>1. <<>> \in Seq(Callbacks)
  OBVIOUS
<1>2. r \in EditorStates /\ r.current = 0 /\ Rests(r)
  BY <1>1 DEF FreshDomain, EditorStates, States, Rests
<1>3. /\ editor' = [editor EXCEPT ![e] = r]
      /\ conn' = [d \in Connections |->
                    IF conn[d].owner = e THEN Dead(conn[d]) ELSE conn[d]]
      /\ closers' = {d \in closers : conn[d].owner # e}
      /\ member' = member
  BY DEF NewDomain
<1> HIDE DEF r
<1>4. \A d \in Connections : Dead(conn[d]) \in ConnectionStates /\ ~Alive(Dead(conn[d]))
  BY InvFacts, DeadType
<1>5. /\ conn' \in [Connections -> ConnectionStates]
      /\ closers' \subseteq Connections
      /\ member' \in {0} \cup Connections
  BY <1>3, <1>4 DEF Inv, TypeOK
<1>6. ASSUME NEW d \in Connections, Alive(conn'[d]), d \notin closers'
      PROVE  IF conn'[d].owner = e THEN r.current = d
             ELSE editor[conn'[d].owner].current = d
  <2>1. conn[d].owner # e /\ conn'[d] = conn[d]
    BY <1>3, <1>4, <1>6
  <2>2. d \notin closers
    BY <1>3, <1>6, <2>1
  <2> QED BY <1>6, <2>1, <2>2, InvFacts
<1> QED BY <1>2, <1>3, <1>5, <1>6, OneEditorStep

LEMMA UnloadStep ==
  ASSUME Inv, NEW e \in Editors, AssemblyReload(e) \/ Quit(e)
  PROVE  Inv'
<1>1. connects' \in Nat /\ gestures' \in Nat /\ faults' \in Nat
  BY BoundsStep DEF AssemblyReload, Quit
<1>2. editor[e].desired \in BOOLEAN
  BY InvFacts DEF EditorStates
<1>3. CASE AssemblyReload(e)
  BY <1>1, <1>2, <1>3, NewDomainStep DEF AssemblyReload
<1>4. CASE Quit(e)
  BY <1>1, <1>4, NewDomainStep DEF Quit
<1> QED BY <1>3, <1>4

-----------------------------------------------------------------------------
(* One lemma per action of the network threads and of the server.           *)

Kinds == {"connected", "ack", "superseded", "closed", "faulted", "failed", "finished"}

LEMMA CallbackType ==
  ASSUME NEW c \in Connections, NEW kind \in Kinds
  PROVE  Callback(kind, c) \in Callbacks
BY DEF Kinds, Callback, Callbacks

LEMMA EnqueuesEffect ==
  ASSUME NEW c \in Connections, NEW kinds \in Seq(Kinds), Enqueues(c, kinds)
  PROVE  \E callbacks \in Seq(Callbacks) :
           editor' = [editor EXCEPT ![conn[c].owner] = Enqueue(@, callbacks)]
<1> DEFINE callbacks == [i \in DOMAIN kinds |-> Callback(kinds[i], c)]
<1>1. \A i \in 1 .. Len(kinds) : kinds[i] \in Kinds
  OBVIOUS
<1>2. Len(kinds) \in Nat /\ DOMAIN kinds = 1 .. Len(kinds)
  OBVIOUS
<1>3. callbacks \in [1 .. Len(kinds) -> Callbacks]
  BY <1>1, <1>2, CallbackType
<1>4. callbacks \in Seq(Callbacks)
  BY <1>2, <1>3, IsASeq
<1>5. editor' = [editor EXCEPT ![conn[c].owner] = Enqueue(@, callbacks)]
  BY DEF Enqueues
<1> QED BY <1>4, <1>5

(* What the actions that change one connection and queue callbacks of it    *)
(* have in common.                                                          *)
LEMMA EnqueuesStep ==
  ASSUME Inv, NEW c \in Connections, NEW kinds \in Seq(Kinds), Enqueues(c, kinds),
         NEW k \in ConnectionStates, conn' = [conn EXCEPT ![c] = k],
         Alive(k) => Alive(conn[c]) /\ k.owner = conn[c].owner,
         closers' = closers, member' = member,
         (UNCHANGED bounds) \/ Fault
  PROVE  Inv'
<1>1. conn[c].owner \in Editors
  BY InvFacts DEF ConnectionStates
<1>2. PICK callbacks \in Seq(Callbacks) :
        editor' = [editor EXCEPT ![conn[c].owner] = Enqueue(@, callbacks)]
  BY EnqueuesEffect
<1>3. connects' \in Nat /\ gestures' \in Nat /\ faults' \in Nat
  BY BoundsStep
<1> QED BY <1>1, <1>2, <1>3, NetworkStep

LEMMA OpensStep ==
  ASSUME Inv, NEW c \in Connections, Opens(c)
  PROVE  Inv'
<1> DEFINE k == [conn[c] EXCEPT !.client = "open", !.server = "open"]
<1>1. conn \in [Connections -> ConnectionStates] /\ conn[c] \in ConnectionStates
  BY DEF Inv, TypeOK
<1>2. k \in ConnectionStates /\ k.owner = conn[c].owner /\ Alive(conn[c])
  BY <1>1 DEF ConnectionStates, Alive, Opens
<1>3. conn' = [conn EXCEPT ![c] = k]
  BY <1>1 DEF Opens
<1>4. <<"connected">> \in Seq(Kinds)
  BY DEF Kinds
<1> HIDE DEF k
<1> QED BY <1>2, <1>3, <1>4, EnqueuesStep DEF Opens

LEMMA DialFailsStep ==
  ASSUME Inv, NEW c \in Connections, DialFails(c)
  PROVE  Inv'
<1> DEFINE k == [conn[c] EXCEPT !.client = "failed"]
<1>1. conn[c] \in ConnectionStates
  BY InvFacts
<1>2. k \in ConnectionStates /\ k.owner = conn[c].owner /\ Alive(conn[c])
  BY <1>1 DEF ConnectionStates, Alive, DialFails
<1>3. conn' = [conn EXCEPT ![c] = k]
  BY DEF DialFails
<1>4. <<"failed">> \in Seq(Kinds)
  BY DEF Kinds
<1> HIDE DEF k
<1> QED BY <1>2, <1>3, <1>4, EnqueuesStep DEF DialFails

LEMMA ReceivesStep ==
  ASSUME Inv, NEW c \in Connections, Receives(c)
  PROVE  Inv'
<1> DEFINE messages == conn[c].toClient
           k == [conn[c] EXCEPT !.toClient = Tail(messages)]
<1>1. conn[c] \in ConnectionStates
  BY InvFacts
<1>2. messages \in Seq({"ack", "superseded"}) /\ messages # <<>>
  BY <1>1 DEF ConnectionStates, Receives
<1>3. Head(messages) \in {"ack", "superseded"} /\ Tail(messages) \in Seq({"ack", "superseded"})
  BY <1>2, HeadTailProperties
<1>4. k \in ConnectionStates /\ k.owner = conn[c].owner /\ Alive(conn[c])
  BY <1>1, <1>3 DEF ConnectionStates, Alive, Receives
<1>5. conn' = [conn EXCEPT ![c] = k]
  BY DEF Receives
<1>6. Head(messages) \in Kinds
  BY <1>3 DEF Kinds
<1>7. Enqueues(c, <<Head(messages)>>)
  BY DEF Receives
<1> HIDE DEF k, messages
<1>8. <<Head(messages)>> \in Seq(Kinds)
  BY <1>6
<1> QED BY <1>4, <1>5, <1>7, <1>8, EnqueuesStep DEF Receives

(* The client end dies: it reads the close frame, or the socket breaks.     *)
LEMMA DiesStep ==
  ASSUME Inv, NEW c \in Connections, NoticesClose(c) \/ Breaks(c)
  PROVE  Inv'
<1>1. Dead(conn[c]) \in ConnectionStates /\ ~Alive(Dead(conn[c]))
  BY InvFacts, DeadType
<1>2. conn' = [conn EXCEPT ![c] = Dead(conn[c])]
  BY DEF NoticesClose, Breaks
<1>3. <<"closed">> \in Seq(Kinds) /\ <<"faulted", "closed">> \in Seq(Kinds)
  BY DEF Kinds
<1>4. CASE NoticesClose(c)
  BY <1>1, <1>2, <1>3, <1>4, EnqueuesStep DEF NoticesClose
<1>5. CASE Breaks(c)
  BY <1>1, <1>2, <1>3, <1>5, EnqueuesStep DEF Breaks
<1> QED BY <1>4, <1>5

LEMMA FinishDisconnectStep ==
  ASSUME Inv, NEW c \in Connections, FinishDisconnect(c)
  PROVE  Inv'
<1> DEFINE callbacks == DisposalOf(c) \o <<Callback("finished", c)>>
<1>1. DisposalOf(c) \in Seq(Callbacks)
  BY DisposalType DEF Inv
<1>2. Callback("finished", c) \in Callbacks
  BY CallbackType DEF Kinds
<1>3. <<Callback("finished", c)>> \in Seq(Callbacks)
  BY <1>2
<1>4. callbacks \in Seq(Callbacks)
  BY <1>1, <1>3, ConcatProperties
<1>5. Dead(conn[c]) \in ConnectionStates /\ ~Alive(Dead(conn[c]))
  BY InvFacts, DeadType
<1>6. /\ editor' = [editor EXCEPT ![conn[c].owner] = Enqueue(@, callbacks)]
      /\ conn' = [conn EXCEPT ![c] = Dead(conn[c])]
      /\ closers' = closers \ {c} /\ member' = member
  BY DEF FinishDisconnect
<1>7. conn[c].owner \in Editors
  BY InvFacts DEF ConnectionStates
<1>8. connects' \in Nat /\ gestures' \in Nat /\ faults' \in Nat
  BY BoundsStep DEF FinishDisconnect
<1> HIDE DEF callbacks
<1> QED BY <1>4, <1>5, <1>6, <1>7, <1>8, NetworkStep

LEMMA AcceptHelloStep ==
  ASSUME Inv, NEW c \in Connections, AcceptHello(c)
  PROVE  Inv'
<1>1. \A d \in Connections : conn[d] \in ConnectionStates
  BY InvFacts
<1> DEFINE accepted == Tell([conn[c] EXCEPT !.server = "member", !.hello = FALSE], "ack")
           evicted(d) == [Tell(conn[d], "superseded") EXCEPT !.server = "closing"]
<1>2. /\ accepted \in ConnectionStates
      /\ accepted.owner = conn[c].owner /\ accepted.client = conn[c].client
  <2> DEFINE k == [conn[c] EXCEPT !.server = "member", !.hello = FALSE]
  <2>1. k \in ConnectionStates /\ k.owner = conn[c].owner /\ k.client = conn[c].client
    BY <1>1 DEF ConnectionStates
  <2> HIDE DEF k
  <2>2. /\ Tell(k, "ack") \in ConnectionStates
        /\ Tell(k, "ack").owner = k.owner /\ Tell(k, "ack").client = k.client
    BY <2>1, TellType
  <2> QED BY <2>1, <2>2 DEF k
<1>3. ASSUME NEW d \in Connections
      PROVE  /\ evicted(d) \in ConnectionStates
             /\ evicted(d).owner = conn[d].owner /\ evicted(d).client = conn[d].client
  <2> DEFINE k == Tell(conn[d], "superseded")
  <2>1. k \in ConnectionStates /\ k.owner = conn[d].owner /\ k.client = conn[d].client
    BY <1>1, TellType
  <2> HIDE DEF k
  <2>2. [k EXCEPT !.server = "closing"] \in ConnectionStates
    BY <2>1 DEF ConnectionStates
  <2>3. /\ [k EXCEPT !.server = "closing"].owner = k.owner
        /\ [k EXCEPT !.server = "closing"].client = k.client
    BY <2>1 DEF ConnectionStates
  <2> QED BY <2>1, <2>2, <2>3 DEF k
<1>4. conn' = [d \in Connections |->
         CASE d = c -> accepted
           [] d # c /\ d = member -> evicted(d)
           [] OTHER -> conn[d]]
  BY DEF AcceptHello, RegisterPresence
<1> HIDE DEF accepted, evicted
<1>5. \A d \in Connections :
        /\ conn'[d] \in ConnectionStates
        /\ conn'[d].owner = conn[d].owner /\ conn'[d].client = conn[d].client
  BY <1>1, <1>2, <1>3, <1>4
<1>6. conn' \in [Connections -> ConnectionStates]
  BY <1>4, <1>5
<1>7. connects' \in Nat /\ gestures' \in Nat /\ faults' \in Nat
  BY BoundsStep DEF AcceptHello
<1>8. member' \in {0} \cup Connections /\ UNCHANGED <<editor, closers>>
  BY DEF AcceptHello
<1>9. \A d \in Connections : Alive(conn'[d]) =>
        Alive(conn[d]) /\ conn'[d].owner = conn[d].owner
  BY <1>5 DEF Alive
<1> QED BY <1>6, <1>7, <1>8, <1>9, ServerStep

LEMMA TerminatesStep ==
  ASSUME Inv, NEW c \in Connections, Terminates(c)
  PROVE  Inv'
<1>1. conn \in [Connections -> ConnectionStates] /\ conn[c] \in ConnectionStates
  BY DEF Inv, TypeOK
<1>2. <<>> \in Seq({"ack", "superseded"}) /\ conn[c].toClient \in Seq({"ack", "superseded"})
  BY <1>1 DEF ConnectionStates
<1>3. PICK rest \in {<<>>, conn[c].toClient} :
        conn' = [conn EXCEPT ![c].server = "closing", ![c].toClient = rest]
  BY DEF Terminates
<1> DEFINE k == [conn[c] EXCEPT !.server = "closing", !.toClient = rest]
<1>4. k \in ConnectionStates /\ k.owner = conn[c].owner /\ k.client = conn[c].client
  BY <1>1, <1>2 DEF ConnectionStates
<1>5. conn' = [conn EXCEPT ![c] = k]
  BY <1>1, <1>3
<1> HIDE DEF k
<1>6. conn' \in [Connections -> ConnectionStates]
  BY <1>1, <1>4, <1>5
<1>7. \A d \in Connections : Alive(conn'[d]) =>
        Alive(conn[d]) /\ conn'[d].owner = conn[d].owner
  BY <1>1, <1>4, <1>5 DEF Alive
<1>8. connects' \in Nat /\ gestures' \in Nat /\ faults' \in Nat
  BY BoundsStep DEF Terminates
<1>9. member' \in {0} \cup Connections /\ UNCHANGED <<editor, closers>>
  BY DEF Terminates, Inv, TypeOK
<1> QED BY <1>6, <1>7, <1>8, <1>9, ServerStep

LEMMA ServerClosesStep ==
  ASSUME Inv, NEW c \in Connections, ServerCloses(c)
  PROVE  Inv'
<1>1. conn \in [Connections -> ConnectionStates] /\ conn[c] \in ConnectionStates
  BY DEF Inv, TypeOK
<1> DEFINE k == [conn[c] EXCEPT !.server = "closed", !.hello = FALSE]
<1>2. k \in ConnectionStates /\ k.owner = conn[c].owner /\ k.client = conn[c].client
  BY <1>1 DEF ConnectionStates
<1>3. conn' = [conn EXCEPT ![c] = Forget(k)]
  BY DEF ServerCloses
<1> HIDE DEF k
<1>4. /\ Forget(k) \in ConnectionStates
      /\ Alive(Forget(k)) => Alive(conn[c]) /\ Forget(k).owner = conn[c].owner
  BY <1>2, ForgetType DEF Alive
<1>5. conn' \in [Connections -> ConnectionStates]
  BY <1>1, <1>3, <1>4
<1>6. \A d \in Connections : Alive(conn'[d]) =>
        Alive(conn[d]) /\ conn'[d].owner = conn[d].owner
  BY <1>1, <1>3, <1>4
<1>7. connects' \in Nat /\ gestures' \in Nat /\ faults' \in Nat
  BY BoundsStep DEF ServerCloses
<1>8. member' \in {0} \cup Connections /\ UNCHANGED <<editor, closers>>
  BY DEF ServerCloses, RemovePresence, Inv, TypeOK
<1> QED BY <1>5, <1>6, <1>7, <1>8, ServerStep

-----------------------------------------------------------------------------
LEMMA InvInit == Init => Inv
<1> SUFFICES ASSUME Init PROVE Inv
  OBVIOUS
<1>1. <<>> \in Seq(Callbacks)
  OBVIOUS
<1>2. FreshDomain \in EditorStates /\ Rests(FreshDomain)
  BY <1>1 DEF FreshDomain, EditorStates, States, Rests
<1>3. TypeOK
  BY <1>2, NoConnectionType DEF Init, TypeOK
<1>4. \A e \in Editors : Rests(editor[e])
  BY <1>2 DEF Init
<1>5. OneTransport
  BY NoConnectionType DEF Init, OneTransport, Alive
<1> QED BY <1>3, <1>4, <1>5 DEF Inv

LEMMA InvStep == Inv /\ [Next]_vars => Inv'
<1> SUFFICES ASSUME Inv, [Next]_vars PROVE Inv'
  OBVIOUS
<1>1. ASSUME NEW e \in Editors, MainThread(e)
      PROVE  Inv'
  BY <1>1, RunCallbackStep, OverflowedStep, ReconnectTimerStep, ResumeStep DEF MainThread
<1>2. ASSUME NEW e \in Editors, User(e)
      PROVE  Inv'
  BY <1>2, ConnectStep, DisconnectStep, CancelStep, UnloadStep DEF User
<1>3. ASSUME NEW e \in Editors, HelloTimesOut(e)
      PROVE  Inv'
  BY <1>3, HelloTimesOutStep
<1>4. ASSUME NEW c \in Connections, Network(c)
      PROVE  Inv'
  BY <1>4, OpensStep, ReceivesStep, DiesStep, FinishDisconnectStep DEF Network
<1>5. ASSUME NEW c \in Connections, Server(c)
      PROVE  Inv'
  BY <1>5, AcceptHelloStep, ServerClosesStep DEF Server
<1>6. ASSUME NEW c \in Connections, DialFails(c) \/ Breaks(c) \/ Terminates(c)
      PROVE  Inv'
  BY <1>6, DialFailsStep, DiesStep, TerminatesStep
<1>7. CASE UNCHANGED vars
  <2>1. /\ editor' = editor /\ conn' = conn /\ closers' = closers /\ member' = member
        /\ connects' = connects /\ gestures' = gestures /\ faults' = faults
    BY <1>7 DEF vars, bounds
  <2> QED BY <2>1 DEF Inv, TypeOK, OneTransport, Rests
<1> QED BY <1>1, <1>2, <1>3, <1>4, <1>5, <1>6, <1>7 DEF Next

(* However the callbacks, gestures, faults and server answers interleave,   *)
(* and however many Editors share the User ID, an Editor of                 *)
(* TeamForgeConnectionService never owns a socket it does not know of.      *)
THEOREM OneSocket == Spec => []OneTransport
<1>1. Inv => OneTransport
  BY DEF Inv
<1> QED BY <1>1, InvInit, InvStep, PTL DEF Spec

=============================================================================
