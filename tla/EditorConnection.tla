--------------------------- MODULE EditorConnection ---------------------------
(***************************************************************************)
(* Unity Editors of one user that connect to the realtime server           *)
(* (TeamForgeConnectionService over ClientWebSocketTransport), and the     *)
(* part of the server that decides which connection is the user's presence *)
(* (teamforge-server's socket handlers, the authority's members).          *)
(*                                                                         *)
(* Three kinds of thread meet here: the network threads of an Editor put   *)
(* callbacks into a bounded queue; its main thread runs them one by one,   *)
(* each tagged with the connection attempt it belongs to; the user, the    *)
(* assembly reload and the timers run on the main thread in between.       *)
(*                                                                         *)
(* An attempt's epoch and its transport are one connection here: `current' *)
(* is the connection whose epoch and transport are the latest, 0 once      *)
(* either has moved on.                                                    *)
(***************************************************************************)
EXTENDS Naturals, Sequences

CONSTANTS
  Editors,         \* Editors signed in with the same stable User ID
  MaxConnections,  \* connections that exist at one time
  MaxQueue,        \* MaximumQueuedMainThreadActions
  MaxRuns,         \* MaximumMainThreadActionsPerUpdate
  MaxConnects,     \* bound: times Connect is pressed
  MaxGestures,     \* bound: other buttons pressed, reloads and exits
  MaxFaults        \* bound: connections refused, broken, terminated, late

ASSUME BoundsAssumption ==
  /\ Editors # {}
  /\ MaxConnections \in Nat \ {0}
  /\ MaxQueue \in Nat
  /\ MaxRuns \in 1 .. MaxQueue - 1
  /\ MaxConnects \in Nat
  /\ MaxGestures \in Nat
  /\ MaxFaults \in Nat

VARIABLES
  editor,    \* per Editor, the statics of TeamForgeConnectionService
  conn,      \* per connection, its two ends and what is on the wire
  closers,   \* connections a FinishDisconnectAsync is still closing
  member,    \* the connection the session lists for the user, or 0
  connects,
  gestures,
  faults

bounds == <<connects, gestures, faults>>

vars == <<editor, conn, closers, member, bounds>>

Connections == 1 .. MaxConnections

States == {"disconnected", "connecting", "handshaking", "connected",
           "reconnecting", "disconnecting", "faulted"}

(* What a connection has before it is dialled and after both ends dropped  *)
(* it.                                                                     *)
NoConnection ==
  [owner |-> CHOOSE e \in Editors : TRUE, client |-> "dead", server |-> "none",
   hello |-> FALSE, toClient |-> <<>>]

(* The statics of a fresh script domain.                                   *)
FreshDomain ==
  [state |-> "disconnected", desired |-> FALSE, resume |-> FALSE,
   current |-> 0, finishing |-> 0, queue |-> <<>>, overflowed |-> FALSE, late |-> 0]

Init ==
  /\ editor = [e \in Editors |-> FreshDomain]
  /\ conn = [c \in Connections |-> NoConnection]
  /\ closers = {}
  /\ member = 0
  /\ connects = 0
  /\ gestures = 0
  /\ faults = 0

-----------------------------------------------------------------------------
(* The callback queue.                                                     *)

Callback(kind, c) == [kind |-> kind, conn |-> c]

(* Enqueue drops what does not fit and leaves a mark for the next Update;   *)
(* the running one may go through MaxRuns of the queued callbacks first.    *)
Enqueue(r, callbacks) ==
  LET all == r.queue \o callbacks
  IN  IF Len(all) <= MaxQueue THEN [r EXCEPT !.queue = all]
      ELSE [r EXCEPT !.queue = SubSeq(all, 1, MaxQueue), !.overflowed = TRUE,
                     !.late = IF r.overflowed THEN @ ELSE MaxRuns]

Enqueues(c, kinds) ==
  LET e == conn[c].owner
  IN  editor' = [editor EXCEPT
        ![e] = Enqueue(@, [i \in DOMAIN kinds |-> Callback(kinds[i], c)])]

(* Disposing a transport raises Closed once in its life, and a dial it     *)
(* interrupts reports its own failure.                                     *)
DisposalOf(c) ==
  CASE conn[c].client = "dialing" -> <<Callback("closed", c), Callback("failed", c)>>
    [] conn[c].client \in {"open", "failed"} -> <<Callback("closed", c)>>
    [] OTHER -> <<>>

(* A connection both ends have dropped is forgotten.                       *)
Forget(k) ==
  IF k.client = "dead" /\ k.server \in {"none", "closed"} THEN NoConnection ELSE k

Dead(k) == Forget([k EXCEPT !.client = "dead", !.toClient = <<>>])

(* The client end may no longer read; what the server sends is then lost.  *)
Tell(k, message) ==
  IF k.server \in {"open", "member"} /\ k.client \in {"dialing", "open"}
  THEN [k EXCEPT !.toClient = Append(@, message)]
  ELSE k

(* (mutant) The late callback of an earlier attempt counts as the current's. *)
IsCurrent_Any(e, c) == editor[e].current # 0

IsCurrent(e, c) == editor[e].current = c

-----------------------------------------------------------------------------
(* The connection service on an Editor's main thread.                      *)

Unused(c) ==
  /\ conn[c] = NoConnection
  /\ c \notin closers
  /\ \A e \in Editors :
       /\ c \notin {editor[e].current, editor[e].finishing}
       /\ \A i \in DOMAIN editor[e].queue : editor[e].queue[i].conn # c

(* BeginConnect: a new transport and a new epoch replace the previous ones. *)
BeginConnect(e, r) ==
  \E c \in Connections :
    /\ Unused(c)
    /\ \A d \in 1 .. c - 1 : ~Unused(d)
    /\ editor' = [editor EXCEPT ![e] =
         [r EXCEPT !.state = "connecting", !.current = c, !.finishing = 0]]
    /\ conn' = [conn EXCEPT ![c] = [@ EXCEPT !.owner = e, !.client = "dialing"]]
    /\ UNCHANGED <<closers, member>>

(* HandleConnectionLoss for connection c in an Editor whose statics are r:  *)
(* the transport is disposed, and the service waits to reconnect or gives   *)
(* up.                                                                      *)
HandleConnectionLoss(e, r, c, allowReconnect) ==
  LET again == r.desired /\ allowReconnect
  IN  /\ editor' = [editor EXCEPT ![e] =
            Enqueue([r EXCEPT !.current = 0,
                              !.state = IF again THEN "reconnecting" ELSE "faulted",
                              !.desired = again],
                    DisposalOf(c))]
      /\ conn' = [conn EXCEPT ![c] = Dead(@)]
      /\ UNCHANGED <<closers, member>>

(* OnTransportConnected sends Hello and waits for its acknowledgement.      *)
OnTransportConnected(e, r, c) ==
  /\ editor' = [editor EXCEPT ![e] = [r EXCEPT !.state = "handshaking"]]
  /\ conn' = [conn EXCEPT ![c].hello = @ \/ conn[c].client = "open"]
  /\ UNCHANGED <<closers, member>>

Quietly(e, r) ==
  /\ editor' = [editor EXCEPT ![e] = r]
  /\ UNCHANGED <<conn, closers, member>>

(* HandleHelloAck: an acknowledgement nobody waits for ends the connection. *)
HandleHelloAck(e, r, c) ==
  IF r.state = "handshaking"
  THEN Quietly(e, [r EXCEPT !.state = "connected"])
  ELSE HandleConnectionLoss(e, r, c, FALSE)

(* (mutant) A superseded Editor keeps reconnecting.                         *)
HandleSuperseded_KeepsDesire(e, r, c) ==
  IF r.state = "handshaking" THEN HandleConnectionLoss(e, r, c, FALSE)
  ELSE Quietly(e, r)

(* HandleProtocolError for session_superseded: no automatic reconnect, as   *)
(* another Editor uses the same User ID.                                    *)
HandleSuperseded(e, r, c) ==
  LET stopped == [r EXCEPT !.desired = FALSE]
  IN  IF r.state = "handshaking" THEN HandleConnectionLoss(e, stopped, c, FALSE)
      ELSE Quietly(e, stopped)

(* The callback of FinishDisconnectAsync counts while its epoch is current. *)
OnFinished(e, r, c) ==
  IF r.finishing = c
  THEN Quietly(e, [r EXCEPT !.state = "disconnected", !.finishing = 0])
  ELSE Quietly(e, r)

(* Update runs the next callback; one of an attempt that is no longer       *)
(* current does nothing.                                                    *)
RunCallback(e) ==
  /\ editor[e].queue # <<>>
  /\ editor[e].overflowed => editor[e].late > 0
  /\ LET next == Head(editor[e].queue)
         c == next.conn
         r == [editor[e] EXCEPT !.queue = Tail(@),
                                !.late = IF @ = 0 THEN 0 ELSE @ - 1]
     IN  \/ next.kind = "finished" /\ OnFinished(e, r, c)
         \/ next.kind # "finished" /\ ~IsCurrent(e, c) /\ Quietly(e, r)
         \/ /\ next.kind # "finished"
            /\ IsCurrent(e, c)
            /\ \/ next.kind = "connected" /\ OnTransportConnected(e, r, c)
               \/ next.kind = "ack" /\ HandleHelloAck(e, r, c)
               \/ next.kind = "superseded" /\ HandleSuperseded(e, r, c)
               \/ /\ next.kind \in {"closed", "faulted", "failed"}
                  /\ HandleConnectionLoss(e, r, c, TRUE)
  /\ UNCHANGED bounds

(* Update begins with the overflow mark: whatever was dropped, the current  *)
(* connection is given up.                                                  *)
Overflowed(e) ==
  /\ editor[e].overflowed
  /\ LET r == [editor[e] EXCEPT !.overflowed = FALSE, !.late = 0]
     IN  IF r.current # 0 THEN HandleConnectionLoss(e, r, r.current, FALSE)
         ELSE Quietly(e, r)
  /\ UNCHANGED bounds

(* Update starts the reconnect whose backoff has passed.                    *)
ReconnectTimer(e) ==
  /\ editor[e].desired
  /\ editor[e].state = "reconnecting"
  /\ BeginConnect(e, editor[e])
  /\ UNCHANGED bounds

Fault == faults < MaxFaults /\ faults' = faults + 1 /\ UNCHANGED <<connects, gestures>>

(* The Hello's deadline passes before its acknowledgement is read.          *)
HelloTimesOut(e) ==
  /\ editor[e].state = "handshaking"
  /\ editor[e].current # 0
  /\ HandleConnectionLoss(e, editor[e], editor[e].current, TRUE)
  /\ Fault

-----------------------------------------------------------------------------
(* The user, the configuration and the script domain.                       *)

Gesture ==
  gestures < MaxGestures /\ gestures' = gestures + 1 /\ UNCHANGED <<connects, faults>>

MayConnect(e) == editor[e].state \in {"disconnected", "reconnecting", "faulted"}

Connecting(e) ==
  BeginConnect(e, [editor[e] EXCEPT !.desired = TRUE, !.resume = FALSE])

Connect(e) ==
  /\ connects < MaxConnects
  /\ MayConnect(e)
  /\ Connecting(e)
  /\ connects' = connects + 1
  /\ UNCHANGED <<gestures, faults>>

(* Disconnect: with a transport, closing it goes on in the background.      *)
Disconnect(e) ==
  /\ Gesture
  /\ LET c == editor[e].current
         r == [editor[e] EXCEPT !.desired = FALSE, !.resume = FALSE,
                                !.current = 0, !.finishing = c]
     IN  \/ /\ c = 0
            /\ Quietly(e, [r EXCEPT !.state = "disconnected"])
         \/ /\ c # 0
            /\ editor' = [editor EXCEPT ![e] = [r EXCEPT !.state = "disconnecting"]]
            /\ closers' = closers \cup {c}
            /\ UNCHANGED <<conn, member>>

(* CancelAutomaticResumeForConfigurationChange.                             *)
CancelAutomaticResume(e) ==
  /\ Gesture
  /\ Quietly(e, [editor[e] EXCEPT !.desired = FALSE, !.resume = FALSE])

(* The domain is unloaded: every socket of the Editor dies with it.         *)
NewDomain(e, resume) ==
  /\ editor' = [editor EXCEPT ![e] = [FreshDomain EXCEPT !.resume = resume]]
  /\ conn' = [c \in Connections |->
                IF conn[c].owner = e THEN Dead(conn[c]) ELSE conn[c]]
  /\ closers' = {c \in closers : conn[c].owner # e}
  /\ UNCHANGED member

(* BeforeAssemblyReload, and the static constructor after it.               *)
AssemblyReload(e) ==
  /\ Gesture
  /\ NewDomain(e, /\ editor[e].desired
                  /\ editor[e].state \notin {"disconnected", "faulted"})

(* OnEditorQuitting, or the Editor's process ends without it.               *)
Quit(e) == Gesture /\ NewDomain(e, FALSE)

(* ResumeAfterAssemblyReload runs once the domain is up.                    *)
ResumeAfterAssemblyReload(e) ==
  /\ editor[e].resume
  /\ IF MayConnect(e) THEN Connecting(e)
     ELSE Quietly(e, [editor[e] EXCEPT !.resume = FALSE])
  /\ UNCHANGED bounds

-----------------------------------------------------------------------------
(* The Editor's network threads.                                            *)

(* The upgrade succeeds: both ends are open.                                *)
Opens(c) ==
  /\ conn[c].client = "dialing"
  /\ conn' = [conn EXCEPT ![c].client = "open", ![c].server = "open"]
  /\ Enqueues(c, <<"connected">>)
  /\ UNCHANGED <<closers, member, bounds>>

(* The upgrade is refused, fails or takes too long.                         *)
DialFails(c) ==
  /\ conn[c].client = "dialing"
  /\ conn' = [conn EXCEPT ![c].client = "failed"]
  /\ Enqueues(c, <<"failed">>)
  /\ Fault
  /\ UNCHANGED <<closers, member>>

(* ReceiveLoopAsync reads the next message.                                 *)
Receives(c) ==
  /\ conn[c].client = "open"
  /\ conn[c].toClient # <<>>
  /\ conn' = [conn EXCEPT ![c].toClient = Tail(@)]
  /\ Enqueues(c, <<Head(conn[c].toClient)>>)
  /\ UNCHANGED <<closers, member, bounds>>

(* ReceiveLoopAsync reads the close frame, after every message.             *)
NoticesClose(c) ==
  /\ conn[c].client = "open"
  /\ conn[c].toClient = <<>>
  /\ conn[c].server \in {"closing", "closed"}
  /\ conn' = [conn EXCEPT ![c] = Dead(@)]
  /\ Enqueues(c, <<"closed">>)
  /\ UNCHANGED <<closers, member, bounds>>

(* The connection breaks; a read or a send of the Editor fails.             *)
Breaks(c) ==
  /\ conn[c].client = "open"
  /\ conn' = [conn EXCEPT ![c] = Dead(@)]
  /\ Enqueues(c, <<"faulted", "closed">>)
  /\ Fault
  /\ UNCHANGED <<closers, member>>

(* FinishDisconnectAsync ends, whatever became of the close handshake.      *)
FinishDisconnect(c) ==
  /\ c \in closers
  /\ closers' = closers \ {c}
  /\ conn' = [conn EXCEPT ![c] = Dead(@)]
  /\ LET e == conn[c].owner
     IN  editor' = [editor EXCEPT
           ![e] = Enqueue(@, DisposalOf(c) \o <<Callback("finished", c)>>)]
  /\ UNCHANGED <<member, bounds>>

-----------------------------------------------------------------------------
(* The server.                                                              *)

(* The first Hello is acknowledged; the connection replaces the user's      *)
(* previous one, which is told and closed.                                  *)
RegisterPresence(c) ==
  [d \in Connections |->
     CASE d = c -> Tell([conn[c] EXCEPT !.server = "member", !.hello = FALSE],
                        "ack")
       [] d # c /\ d = member ->
            [Tell(conn[d], "superseded") EXCEPT !.server = "closing"]
       [] OTHER -> conn[d]]

AcceptHello(c) ==
  /\ conn[c].server = "open"
  /\ conn[c].hello
  /\ conn' = RegisterPresence(c)
  /\ member' = c
  /\ UNCHANGED <<editor, closers, bounds>>

(* The server gives a connection up: heartbeat, Hello deadline, rate limit  *)
(* or a reader that is too slow. What was under way to it may be lost.      *)
Terminates(c) ==
  /\ conn[c].server \in {"open", "member"}
  /\ \E rest \in {<<>>, conn[c].toClient} :
       conn' = [conn EXCEPT ![c].server = "closing", ![c].toClient = rest]
  /\ Fault
  /\ UNCHANGED <<editor, closers, member>>

(* removePresence: a connection takes away no presence but its own.         *)
RemovePresence(c) == IF member = c THEN 0 ELSE member

(* The socket's close event, once the client is gone or closing has taken   *)
(* too long.                                                                *)
ServerCloses(c) ==
  /\ conn[c].server \in {"open", "member", "closing"}
  /\ conn[c].client = "dead" \/ conn[c].server = "closing"
  /\ conn' = [conn EXCEPT ![c] = Forget([@ EXCEPT !.server = "closed", !.hello = FALSE])]
  /\ member' = RemovePresence(c)
  /\ UNCHANGED <<editor, closers, bounds>>

-----------------------------------------------------------------------------
MainThread(e) ==
  RunCallback(e) \/ Overflowed(e) \/ ReconnectTimer(e) \/ ResumeAfterAssemblyReload(e)

User(e) ==
  Connect(e) \/ Disconnect(e) \/ CancelAutomaticResume(e) \/ AssemblyReload(e) \/ Quit(e)

Network(c) == Opens(c) \/ Receives(c) \/ NoticesClose(c) \/ FinishDisconnect(c)

Server(c) == AcceptHello(c) \/ ServerCloses(c)

Next ==
  \/ \E e \in Editors : MainThread(e) \/ User(e) \/ HelloTimesOut(e)
  \/ \E c \in Connections : Network(c) \/ Server(c)
  \/ \E c \in Connections : DialFails(c) \/ Breaks(c) \/ Terminates(c)

(* Update runs every frame, the reconnect timer with it; a dial, a read and *)
(* a close end; the server's event loop reaches every socket. Nothing makes *)
(* the user act or a fault happen.                                          *)
Fairness ==
  /\ \A e \in Editors :
       /\ WF_vars(RunCallback(e))
       /\ WF_vars(Overflowed(e))
       /\ WF_vars(ReconnectTimer(e))
       /\ WF_vars(ResumeAfterAssemblyReload(e))
  /\ \A c \in Connections : WF_vars(Network(c)) /\ WF_vars(Server(c))

Spec == Init /\ [][Next]_vars /\ Fairness

-----------------------------------------------------------------------------
Callbacks ==
  [kind : {"connected", "ack", "superseded", "closed", "faulted", "failed", "finished"},
   conn : Connections]

EditorStates ==
  [state : States, desired : BOOLEAN, resume : BOOLEAN,
   current : {0} \cup Connections, finishing : {0} \cup Connections,
   queue : Seq(Callbacks), overflowed : BOOLEAN, late : Nat]

ConnectionStates ==
  [owner : Editors, client : {"dialing", "open", "failed", "dead"},
   server : {"none", "open", "member", "closing", "closed"},
   hello : BOOLEAN, toClient : Seq({"ack", "superseded"})]

TypeOK ==
  /\ editor \in [Editors -> EditorStates]
  /\ conn \in [Connections -> ConnectionStates]
  /\ closers \subseteq Connections
  /\ member \in {0} \cup Connections
  /\ connects \in Nat /\ gestures \in Nat /\ faults \in Nat

(* An Editor never has two sockets: one that is not being closed belongs to *)
(* the attempt the service knows as current, so a late callback of an       *)
(* earlier attempt has not made it lose one that still lives.               *)
OneTransport ==
  \A c \in Connections :
    conn[c].client \in {"dialing", "open", "failed"} /\ c \notin closers
      => editor[conn[c].owner].current = c

(* Not on its way to anything: connected and present, or stopped.           *)
AtRest(e) ==
  \/ editor[e].state \in {"disconnected", "disconnecting", "faulted"}
  \/ editor[e].state = "reconnecting" /\ ~editor[e].desired
  \/ editor[e].state = "connected" /\ member = editor[e].current

(* Once the user and the faults rest, the Editors settle: none connects,    *)
(* shakes hands or reconnects for ever, two Editors of one user do not      *)
(* evict each other in turn (session_superseded in HandleProtocolError),    *)
(* and one that shows "connected" is the presence the session lists.        *)
Settles == <>[](\A e \in Editors : AtRest(e))

=============================================================================
