--------------------------- MODULE SwarmDownload ---------------------------
(***************************************************************************)
(* SwarmDownloader (swarm-downloader.mjs): one download of a baseline from  *)
(* several peers into the shared content store. discover() finds a peer     *)
(* that answers with a valid signed baseline; download() asks every peer    *)
(* for its inventory, skips the chunks the store already has, and lets a    *)
(* bounded set of workers fetch the others. A worker waits for admission    *)
(* under an adaptive limit, paces itself at the peer, asks for the chunk,   *)
(* hedges the last two chunks with a second peer, verifies, and writes.     *)
(* A failure that no other peer can repair stops all workers; the call      *)
(* returns when every worker and every request has settled.                 *)
(*                                                                         *)
(* An action is what the code does between two awaits. What a peer answers, *)
(* how long anything takes, and which candidate the latency order puts      *)
(* first are free choices. Other processes share the store (Meddle).        *)
(***************************************************************************)
EXTENDS Naturals, Sequences, FiniteSets, FiniteSetsExt, SequencesExt

CONSTANTS
  Workers,      \* the workers that may be started (maxConcurrency of them)
  Peers,        \* the peers the download was given
  ChunkCount,   \* the manifest's unique chunks are 1 .. ChunkCount
  Holds,        \* Holds[p]: the chunks peer p really has
  Reliable,     \* the peers that never fail a request for what they hold
  MaxAttempts,  \* retryRounds + 1
  Adaptive,     \* concurrencyMode = "adaptive"
  Hedged,       \* endgameMode = "hedged"
  RarestFirst,  \* chunkOrder = "rarest-first"
  Cached,       \* the chunks the store may have before the download
  MaxMeddle,    \* how often another process changes the store
  NoPeer, NoJob \* model values

ASSUME ParametersAreSane ==
  /\ IsFiniteSet(Workers) /\ Workers # {} /\ IsFiniteSet(Peers)
  /\ ChunkCount \in Nat /\ MaxAttempts \in Nat \ {0} /\ MaxMeddle \in Nat
  /\ Holds \in [Peers -> SUBSET (1 .. ChunkCount)]
  /\ Reliable \subseteq Peers /\ Cached \subseteq 1 .. ChunkCount
  /\ NoPeer \notin Peers /\ NoJob \notin Nat

Chunks == 1 .. ChunkCount
Failures == {"retryable", "terminal"}
Slots == {"first", "second"}
Known(chunks) == [status |-> "known", has |-> chunks]
Without(status) == [status |-> status, has |-> {}]
Inventories ==
  {Without("unknown"), Without("dead")} \cup {Known(Holds[p]) : p \in Peers} \cup {Known(Chunks)}
NoRace == [rival |-> NoPeer, first |-> "idle", second |-> "idle", result |-> "none"]

VARIABLES
  phase,      \* discovering, inventory, caching, working, verifying or over
  cancelled,  \* the caller's AbortSignal
  outcome,    \* how the call ended
  attempts,   \* discover's attempts per peer
  exhausted,  \* discover's exhausted peers
  inventory,  \* per peer: unknown, dead (permanentFailure), or known and what it has
  store,      \* the content store: "missing", "good" or "bad" per chunk
  meddled,    \* how often another process changed it
  late,       \* chunks others changed after the final verification looked at them
  left,       \* the chunks the loop over all chunks has still to look at
  scheduled,  \* the pending chunks in the order they are fetched
  cursor,     \* how many of them were claimed
  active,     \* activeJobs
  target,     \* targetConcurrency
  streak,     \* successesSinceIncrease
  stopped,
  aborted,    \* the workers' AbortSignal
  firstError,
  completed,  \* completedChunks
  hedged,     \* hedgedChunkHashes
  pace,       \* per peer, the reservations in the order of its pacingTail
  inFlight,   \* per peer
  pc, job, tries, gone, peer, race, thrown  \* per worker

callVars   == <<phase, outcome, attempts, exhausted, inventory, left, scheduled>>
storeVars  == <<store, meddled, late>>
limitVars  == <<active, target, streak>>
stopVars   == <<stopped, aborted, firstError>>
workerVars == <<pc, job, tries, gone, peer, race, thrown>>
vars == <<callVars, cancelled, storeVars, limitVars, stopVars, cursor, completed, hedged,
          pace, inFlight, workerVars>>

Init ==
  /\ phase = "discovering" /\ outcome = "none" /\ cancelled = FALSE
  /\ attempts = [p \in Peers |-> 0] /\ exhausted = {}
  /\ inventory = [p \in Peers |-> Without("unknown")]
  /\ \E c \in SUBSET Cached :
       store = [k \in Chunks |-> IF k \in c THEN "good" ELSE "missing"]
  /\ meddled = 0 /\ late = {} /\ left = Chunks /\ scheduled = <<>>
  /\ cursor = 0 /\ active = 0 /\ target = 1 /\ streak = 0
  /\ stopped = FALSE /\ aborted = FALSE /\ firstError = "none"
  /\ completed = 0 /\ hedged = {}
  /\ pace = [p \in Peers |-> <<>>] /\ inFlight = [p \in Peers |-> 0]
  /\ pc = [w \in Workers |-> "ended"] /\ job = [w \in Workers |-> NoJob]
  /\ tries = [w \in Workers |-> [p \in Peers |-> 0]] /\ gone = [w \in Workers |-> {}]
  /\ peer = [w \in Workers |-> NoPeer] /\ race = [w \in Workers |-> NoRace]
  /\ thrown = [w \in Workers |-> "none"]

-----------------------------------------------------------------------------
(* What a request may come back with. The client turns status codes, network *)
(* errors and its own timeout into retryable failures, and an answer that is *)
(* too large, of the wrong type or of the wrong hash into a terminal one.    *)

Answers(p, c) ==
  IF c \in Holds[p] THEN IF p \in Reliable THEN {"good"} ELSE {"good"} \cup Failures
                    ELSE Failures

\* isRetryable and the attempts left decide whether a peer may be asked again.
MayRetry(kind, n) == kind = "retryable" /\ n < MaxAttempts

-----------------------------------------------------------------------------
(* discover and the phases of download before the workers start.            *)

Ends(how) == phase' = "over" /\ outcome' = how

DiscoverFails(p) ==
  /\ phase = "discovering" /\ p \in Peers \ (exhausted \cup Reliable)
  /\ \E kind \in Failures :
       /\ attempts' = [attempts EXCEPT ![p] = @ + 1]
       /\ exhausted' = IF MayRetry(kind, attempts'[p]) THEN exhausted ELSE exhausted \cup {p}
  /\ IF exhausted' = Peers THEN Ends("unavailable") ELSE UNCHANGED <<phase, outcome>>
  /\ UNCHANGED <<inventory, left, scheduled, cancelled, storeVars, limitVars, stopVars, cursor,
                 completed, hedged, pace, inFlight, workerVars>>

DiscoverFinds(p) ==
  /\ phase = "discovering" /\ p \in Peers \ exhausted /\ ~cancelled
  /\ phase' = "inventory"
  /\ attempts' = [q \in Peers |-> 0] /\ exhausted' = {}
  /\ UNCHANGED <<outcome, inventory, left, scheduled, cancelled, storeVars, limitVars, stopVars,
                 cursor, completed, hedged, pace, inFlight, workerVars>>

\* All inventories are asked for at once and retried on their own: a retryable
\* failure leaves the inventory unknown, any other one condemns the peer.
\* An inventory is only an advertisement: an unreliable peer may claim it all.
TakeInventories ==
  /\ phase = "inventory" /\ ~cancelled
  /\ inventory' \in [Peers -> Inventories]
  /\ \A p \in Peers :
       /\ p \in Reliable => inventory'[p] = Known(Holds[p])
       /\ inventory'[p].status = "known" => inventory'[p].has \in {Holds[p], Chunks}
  /\ phase' = "caching"
  /\ UNCHANGED <<outcome, attempts, exhausted, left, scheduled, cancelled, storeVars, limitVars,
                 stopVars, cursor, completed, hedged, pace, inFlight, workerVars>>

Next1 == CHOOSE c \in left : \A d \in left : c <= d

\* One turn of the loop that looks for chunks the store already has.
LookInStore ==
  /\ phase = "caching" /\ left # {} /\ ~cancelled
  /\ left' = left \ {Next1}
  /\ IF store[Next1] = "good"
       THEN completed' = completed + 1 /\ UNCHANGED scheduled
       ELSE scheduled' = Append(scheduled, Next1) /\ UNCHANGED completed
  /\ UNCHANGED <<phase, outcome, attempts, exhausted, inventory, cancelled, storeVars, limitVars,
                 stopVars, cursor, hedged, pace, inFlight, workerVars>>

\* How many live peers advertise a chunk; none known but some unknown is rare last.
Rarity(c) ==
  LET live == {p \in Peers : inventory[p].status # "dead"}
      known == {p \in live : inventory[p].status # "unknown"}
      count == Cardinality({p \in known : c \in inventory[p].has})
  IN  IF count > 0 THEN count
      ELSE IF live # known THEN Cardinality(Peers) + 1 ELSE 0

Rarer(c, d) == Rarity(c) < Rarity(d) \/ (Rarity(c) = Rarity(d) /\ c < d)

\* The same chunks with the rarest first, or as they come.
Orders(s) ==
  IF RarestFirst
  THEN {t \in [DOMAIN s -> Chunks] :
          Range(t) = Range(s) /\ \A i, j \in DOMAIN s : i < j => Rarer(t[i], t[j])}
  ELSE {s}

Ceiling(n) == Min({Cardinality(Workers), Max({1, n})})

StartWorkers ==
  /\ phase = "caching" /\ left = {}
  /\ phase' = "working" /\ scheduled' \in Orders(scheduled)
  /\ target' = IF Adaptive THEN 1 ELSE Ceiling(Len(scheduled))
  /\ \E started \in SUBSET Workers :
       /\ Cardinality(started) = Ceiling(Len(scheduled))
       /\ pc' = [w \in Workers |-> IF w \in started THEN "claim" ELSE "ended"]
  /\ aborted' = cancelled
  /\ UNCHANGED <<outcome, attempts, exhausted, inventory, left, cancelled, storeVars, active, streak,
                 stopped, firstError, cursor, completed, hedged, pace, inFlight, job, tries, gone,
                 peer, race, thrown>>

-----------------------------------------------------------------------------
(* The workers: admission.                                                  *)

Goes(w, to) == pc' = [pc EXCEPT ![w] = to]
Woken(pcs) == [w \in Workers |-> IF pcs[w] = "waiting" THEN "claim" ELSE pcs[w]]

jobVars == <<job, tries, gone, peer, race>>

\* claimJob, each time it runs: stopped, aborted and the cursor are read anew.
Claim(w) ==
  /\ pc[w] = "claim"
  /\ \/ /\ stopped \/ (~aborted /\ cursor >= Len(scheduled))
        /\ Goes(w, "ended") /\ UNCHANGED <<thrown, active, cursor, jobVars>>
     \/ /\ ~stopped /\ aborted
        /\ Goes(w, "throwing") /\ thrown' = [thrown EXCEPT ![w] = "cancelled"]
        /\ UNCHANGED <<active, cursor, jobVars>>
     \/ /\ ~stopped /\ ~aborted /\ cursor < Len(scheduled) /\ active < target
        /\ active' = active + 1 /\ cursor' = cursor + 1
        /\ job' = [job EXCEPT ![w] = cursor']
        /\ Goes(w, "pick") /\ UNCHANGED <<thrown, tries, gone, peer, race>>
     \/ /\ ~stopped /\ ~aborted /\ cursor < Len(scheduled) /\ active >= target
        /\ Goes(w, "waiting") /\ UNCHANGED <<thrown, active, cursor, jobVars>>
  /\ UNCHANGED <<callVars, cancelled, storeVars, target, streak, stopVars, completed, hedged,
                 pace, inFlight>>

(* (mutant) the waiting workers are not woken when a job ends.              *)
EndsJob_Quietly(w, to, error) ==
  /\ active' = active - 1
  /\ pc' = [pc EXCEPT ![w] = to]
  /\ thrown' = [thrown EXCEPT ![w] = error]
  /\ job' = [job EXCEPT ![w] = NoJob]
  /\ tries' = [tries EXCEPT ![w] = [p \in Peers |-> 0]]
  /\ gone' = [gone EXCEPT ![w] = {}]
  /\ peer' = [peer EXCEPT ![w] = NoPeer]
  /\ race' = [race EXCEPT ![w] = NoRace]
  /\ inFlight' = IF peer[w] = NoPeer THEN inFlight ELSE [inFlight EXCEPT ![peer[w]] = @ - 1]

\* The finally blocks of transferChunk and worker: the peer and the slot are
\* given back and every waiting worker looks again.
EndsJob(w, to, error) ==
  /\ active' = active - 1
  /\ pc' = Woken([pc EXCEPT ![w] = to])
  /\ thrown' = [thrown EXCEPT ![w] = error]
  /\ job' = [job EXCEPT ![w] = NoJob]
  /\ tries' = [tries EXCEPT ![w] = [p \in Peers |-> 0]]
  /\ gone' = [gone EXCEPT ![w] = {}]
  /\ peer' = [peer EXCEPT ![w] = NoPeer]
  /\ race' = [race EXCEPT ![w] = NoRace]
  /\ inFlight' = IF peer[w] = NoPeer THEN inFlight ELSE [inFlight EXCEPT ![peer[w]] = @ - 1]

\* The outer catch: the first error is kept, all workers are cancelled.
Caught(w) ==
  /\ pc[w] = "throwing"
  /\ firstError' = IF firstError = "none" THEN thrown[w] ELSE firstError
  /\ stopped' = TRUE /\ aborted' = TRUE
  /\ pc' = Woken([pc EXCEPT ![w] = "ended"])
  /\ thrown' = [thrown EXCEPT ![w] = "none"]
  /\ UNCHANGED <<callVars, cancelled, storeVars, limitVars, cursor, completed, hedged, pace,
                 inFlight, jobVars>>

-----------------------------------------------------------------------------
(* The workers: one attempt at one chunk.                                   *)

Chunk(w) == scheduled[job[w]]

Candidates(w) ==
  {p \in Peers \ gone[w] :
     \/ inventory[p].status = "unknown"
     \/ inventory[p].status = "known" /\ Chunk(w) \in inventory[p].has}

\* orderedPeers: who comes first depends on cooldowns and measured times, and
\* one slot in eight explores, so that any candidate may.
MayComeFirst(ps) == ps

\* The top of transferChunk's loop.
Pick(w) ==
  /\ pc[w] = "pick"
  /\ \/ /\ stopped
        /\ EndsJob(w, "claim", "none") /\ UNCHANGED pace
     \/ /\ ~stopped /\ Candidates(w) = {}
        /\ EndsJob(w, "throwing", "unavailable") /\ UNCHANGED pace
     \/ /\ ~stopped
        /\ \E p \in MayComeFirst(Candidates(w)) :
             /\ peer' = [peer EXCEPT ![w] = p]
             /\ tries' = [tries EXCEPT ![w][p] = @ + 1]
             /\ inFlight' = [inFlight EXCEPT ![p] = @ + 1]
             /\ pace' = [pace EXCEPT ![p] = Append(@, <<w, "first">>)]
        /\ Goes(w, "pacing") /\ UNCHANGED <<active, thrown, job, gone, race>>
  /\ UNCHANGED <<callVars, cancelled, storeVars, target, streak, stopVars, cursor, completed, hedged>>

\* The head of a peer's pacing queue has waited long enough, or was cancelled
\* in its wait; it gives the place free in both cases.
Released(p) == pace' = [pace EXCEPT ![p] = Tail(@)]
AtHead(p, w, slot) == pace[p] # <<>> /\ Head(pace[p]) = <<w, slot>>

MayHedge(w) == Hedged /\ job[w] + 1 >= Len(scheduled) /\ Chunk(w) \notin hedged

Ask(w) ==
  /\ pc[w] = "pacing" /\ AtHead(peer[w], w, "first") /\ Released(peer[w])
  /\ \/ /\ aborted
        /\ EndsJob(w, "throwing", "cancelled")
     \/ /\ stopped
        /\ EndsJob(w, "claim", "none")
     \/ /\ ~stopped /\ ~aborted
        /\ LET others == Candidates(w) \ {peer[w]}
           IN  IF MayHedge(w) /\ others # {}
                 THEN /\ \E alt \in MayComeFirst(others) :
                           race' = [race EXCEPT ![w] = [NoRace EXCEPT !.rival = alt, !.first = "open"]]
                      /\ Goes(w, "racing")
                 ELSE Goes(w, "asking") /\ UNCHANGED race
        /\ UNCHANGED <<active, thrown, job, tries, gone, peer, inFlight>>
  /\ UNCHANGED <<callVars, cancelled, storeVars, target, streak, stopVars, cursor, completed, hedged>>

(* (mutant) a failed peer is condemned for the whole race, its rival with it. *)
Blame_Both(w, kind) ==
  /\ target' = IF Adaptive THEN Max({1, (target + 1) \div 2}) ELSE target
  /\ streak' = IF Adaptive THEN 0 ELSE streak
  /\ gone' = [gone EXCEPT ![w] = @ \cup {peer[w], race[w].rival}]
  /\ inFlight' = [inFlight EXCEPT ![peer[w]] = @ - 1]
  /\ peer' = [peer EXCEPT ![w] = NoPeer]
  /\ race' = [race EXCEPT ![w] = NoRace]
  /\ Goes(w, "pick")
  /\ UNCHANGED <<active, thrown, job, tries>>

\* A source or transport failure: the peer keeps a further attempt, or is out
\* for this chunk; the adaptive limit is halved.
Blame(w, kind) ==
  /\ target' = IF Adaptive THEN Max({1, (target + 1) \div 2}) ELSE target
  /\ streak' = IF Adaptive THEN 0 ELSE streak
  /\ gone' = IF MayRetry(kind, tries[w][peer[w]]) THEN gone ELSE [gone EXCEPT ![w] = @ \cup {peer[w]}]
  /\ inFlight' = [inFlight EXCEPT ![peer[w]] = @ - 1]
  /\ peer' = [peer EXCEPT ![w] = NoPeer]
  /\ race' = [race EXCEPT ![w] = NoRace]
  /\ Goes(w, "pick")
  /\ UNCHANGED <<active, thrown, job, tries>>

\* What follows the request, whichever way it was made.
Follows(w, kind) ==
  \/ /\ kind = "good" /\ (stopped \/ aborted)
     /\ EndsJob(w, "claim", "none") /\ UNCHANGED <<target, streak>>
  \/ /\ kind = "good" /\ ~stopped /\ ~aborted
     /\ Goes(w, "writing") /\ race' = [race EXCEPT ![w] = NoRace]
     /\ UNCHANGED <<limitVars, thrown, job, tries, gone, peer, inFlight>>
  \/ /\ kind = "cancelled"
     /\ EndsJob(w, "throwing", "cancelled") /\ UNCHANGED <<target, streak>>
  \/ kind \in Failures /\ Blame(w, kind)

Settled(p, c) == Answers(p, c) \cup IF aborted THEN {"cancelled"} ELSE {}

Answer(w) ==
  /\ pc[w] = "asking"
  /\ \E kind \in Settled(peer[w], Chunk(w)) : Follows(w, kind)
  /\ UNCHANGED <<callVars, cancelled, storeVars, stopVars, cursor, completed, hedged, pace>>

-----------------------------------------------------------------------------
(* The hedged endgame (#fetchEndgameChunk).                                 *)

raceRest == <<callVars, cancelled, storeVars, limitVars, stopVars, cursor, completed, jobVars, thrown>>

\* The grace period is over: a second peer is asked as well.
HedgeStarts(w) ==
  /\ pc[w] = "racing" /\ race[w].first = "open" /\ race[w].second = "idle" /\ ~aborted
  /\ race' = [race EXCEPT ![w].second = "pacing"]
  /\ hedged' = hedged \cup {Chunk(w)}
  /\ inFlight' = [inFlight EXCEPT ![race[w].rival] = @ + 1]
  /\ pace' = [pace EXCEPT ![race[w].rival] = Append(@, <<w, "second">>)]
  /\ UNCHANGED <<callVars, cancelled, storeVars, limitVars, stopVars, cursor, completed, pc, job,
                 tries, gone, peer, thrown>>

\* Whoever takes part in a race, and what it comes to once the slots of r are
\* as they are: the first good answer, or the first peer's failure.
Asked(w, slot) == IF slot = "first" THEN peer[w] ELSE race[w].rival
Open(r) == {s \in Slots : r[s] \in {"pacing", "open"}}
Verdict(r) ==
  IF "good" \in {r.first, r.second} THEN "good"
  ELSE IF Open(r) = {} THEN r.first ELSE "none"

\* The race is decided: both requests are aborted, and both are waited for.
Decided(w, r) ==
  /\ race' = [race EXCEPT ![w] = [r EXCEPT !.result = Verdict(r)]]
  /\ IF Verdict(r) = "none" THEN UNCHANGED pc ELSE Goes(w, "settling")

\* The second request's turn in the pacing queue of its peer.
SecondPaced(w) ==
  /\ pc[w] \in {"racing", "settling"} /\ race[w].second = "pacing"
  /\ AtHead(race[w].rival, w, "second") /\ Released(race[w].rival)
  /\ IF aborted \/ pc[w] = "settling"
       THEN /\ inFlight' = [inFlight EXCEPT ![race[w].rival] = @ - 1]
            /\ IF pc[w] = "settling"
                 THEN race' = [race EXCEPT ![w].second = "cancelled"] /\ UNCHANGED pc
                 ELSE Decided(w, [race[w] EXCEPT !.second = "cancelled"])
       ELSE race' = [race EXCEPT ![w].second = "open"] /\ UNCHANGED <<pc, inFlight>>
  /\ UNCHANGED <<callVars, cancelled, storeVars, limitVars, stopVars, cursor, completed, hedged,
                 job, tries, gone, peer, thrown>>

\* A request of the race settles. An answer after the abort counts for nothing.
SlotSettles(w, slot) ==
  /\ pc[w] \in {"racing", "settling"} /\ race[w][slot] = "open"
  /\ \E kind \in Answers(Asked(w, slot), Chunk(w)) \cup {"cancelled"} :
       /\ kind = "cancelled" => aborted \/ pc[w] = "settling"
       /\ kind = "good" => ~aborted /\ pc[w] = "racing"
       /\ IF pc[w] = "settling" THEN race' = [race EXCEPT ![w][slot] = kind] /\ UNCHANGED pc
                                ELSE Decided(w, [race[w] EXCEPT ![slot] = kind])
  /\ inFlight' = IF slot = "second" THEN [inFlight EXCEPT ![race[w].rival] = @ - 1] ELSE inFlight
  /\ UNCHANGED <<callVars, cancelled, storeVars, limitVars, stopVars, cursor, completed, hedged, pace,
                 job, tries, gone, peer, thrown>>

\* The abort also ends the grace period.
GraceCancelled(w) ==
  /\ pc[w] = "racing" /\ race[w].second = "idle" /\ aborted
  /\ race' = [race EXCEPT ![w].result = "cancelled"]
  /\ Goes(w, "settling")
  /\ UNCHANGED <<callVars, cancelled, storeVars, limitVars, stopVars, cursor, completed, hedged, pace,
                 inFlight, job, tries, gone, peer, thrown>>

(* (mutant) the race returns its winner without waiting for the loser.      *)
RaceReturns_Early(w) ==
  /\ pc[w] = "settling"
  /\ Follows(w, race[w].result)
  /\ UNCHANGED <<callVars, cancelled, storeVars, stopVars, cursor, completed, hedged, pace>>

\* Both requests are settled: the race returns its result to transferChunk.
RaceReturns(w) ==
  /\ pc[w] = "settling" /\ Open(race[w]) = {}
  /\ Follows(w, race[w].result)
  /\ UNCHANGED <<callVars, cancelled, storeVars, stopVars, cursor, completed, hedged, pace>>

-----------------------------------------------------------------------------
(* The workers: writing to the store (ChunkStore.put) and counting.         *)

\* put replaces what is there unless it is good, by an atomic rename.
Write(w) ==
  /\ pc[w] = "writing"
  /\ \/ /\ store' = [store EXCEPT ![Chunk(w)] = "good"] /\ Goes(w, "checking")
        /\ late' = late \ {Chunk(w)} /\ UNCHANGED <<active, thrown, job, tries, gone, peer, race, inFlight>>
     \/ EndsJob(w, "throwing", "store") /\ UNCHANGED <<store, late>>
  /\ UNCHANGED <<callVars, cancelled, meddled, target, streak, stopVars, cursor, completed, hedged, pace>>

Grows == Adaptive /\ target < Ceiling(Len(scheduled))

\* put verifies what it wrote; only then is the chunk counted. Growth of the
\* limit wakes the waiting workers.
Accept(w) ==
  /\ pc[w] = "checking" /\ store[Chunk(w)] = "good"
  /\ IF stopped \/ aborted
       THEN EndsJob(w, "claim", "none") /\ UNCHANGED <<completed, target, streak>>
       ELSE /\ completed' = completed + 1
            /\ IF Grows /\ streak + 1 >= 2 * target
                 THEN /\ target' = target + 1 /\ streak' = 0
                      /\ pc' = Woken([pc EXCEPT ![w] = "announcing"])
                 ELSE /\ streak' = IF Grows THEN streak + 1 ELSE streak
                      /\ Goes(w, "announcing") /\ UNCHANGED target
            /\ UNCHANGED <<active, thrown, jobVars, inFlight>>
  /\ UNCHANGED <<callVars, cancelled, storeVars, stopVars, cursor, hedged, pace>>

\* Somebody damaged the chunk between the rename and the verification.
Reject(w) ==
  /\ pc[w] = "checking" /\ store[Chunk(w)] # "good"
  /\ EndsJob(w, "throwing", "store")
  /\ UNCHANGED <<callVars, cancelled, storeVars, target, streak, stopVars, cursor, completed, hedged, pace>>

\* The partial Seed announcement was answered or failed; neither matters.
Announced(w) ==
  /\ pc[w] = "announcing"
  /\ EndsJob(w, "claim", "none")
  /\ UNCHANGED <<callVars, cancelled, storeVars, target, streak, stopVars, cursor, completed, hedged, pace>>

-----------------------------------------------------------------------------
(* The end of the call, the caller's abort, and the other users of the store. *)

AllSettled ==
  /\ phase = "working" /\ \A w \in Workers : pc[w] = "ended"
  /\ IF firstError = "none" THEN phase' = "verifying" /\ left' = Chunks /\ UNCHANGED outcome
                            ELSE Ends(firstError) /\ UNCHANGED left
  /\ UNCHANGED <<attempts, exhausted, inventory, scheduled, cancelled, storeVars, limitVars, stopVars,
                 cursor, completed, hedged, pace, inFlight, workerVars>>

VerifyNext ==
  /\ phase = "verifying" /\ left # {} /\ ~cancelled
  /\ IF store[Next1] = "good" THEN left' = left \ {Next1} /\ UNCHANGED <<phase, outcome>>
                              ELSE Ends("unverified") /\ UNCHANGED left
  /\ UNCHANGED <<attempts, exhausted, inventory, scheduled, cancelled, storeVars, limitVars,
                 stopVars, cursor, completed, hedged, pace, inFlight, workerVars>>

Complete ==
  /\ phase = "verifying" /\ left = {} /\ ~cancelled
  /\ Ends("complete")
  /\ UNCHANGED <<attempts, exhausted, inventory, left, scheduled, cancelled, storeVars, limitVars,
                 stopVars, cursor, completed, hedged, pace, inFlight, workerVars>>

\* throwIfDownloadCancelled, in the phases that have no worker.
StopsAsCancelled ==
  /\ phase \in {"discovering", "inventory", "caching", "verifying"} /\ cancelled
  /\ phase = "caching" => left # {}
  /\ Ends("cancelled")
  /\ UNCHANGED <<attempts, exhausted, inventory, left, scheduled, cancelled, storeVars, limitVars,
                 stopVars, cursor, completed, hedged, pace, inFlight, workerVars>>

Cancel ==
  /\ phase # "over" /\ ~cancelled /\ cancelled' = TRUE
  /\ IF phase = "working" THEN aborted' = TRUE /\ pc' = Woken(pc) ELSE UNCHANGED <<aborted, pc>>
  /\ UNCHANGED <<callVars, storeVars, limitVars, stopped, firstError, cursor, completed, hedged, pace,
                 inFlight, job, tries, gone, peer, race, thrown>>

\* Another download writes the chunk, or the file is damaged or removed.
Meddle(c) ==
  /\ phase \notin {"discovering", "inventory", "over"} /\ meddled < MaxMeddle
  /\ \E s \in {"missing", "good", "bad"} \ {store[c]} : store' = [store EXCEPT ![c] = s]
  /\ meddled' = meddled + 1
  /\ late' = IF phase = "verifying" /\ c \notin left THEN late \cup {c} ELSE late
  /\ UNCHANGED <<callVars, cancelled, limitVars, stopVars, cursor, completed, hedged, pace, inFlight,
                 workerVars>>

Over == phase = "over" /\ UNCHANGED vars

WorkerStep(w) ==
  \/ Claim(w) \/ Caught(w) \/ Pick(w) \/ Ask(w) \/ Answer(w)
  \/ HedgeStarts(w) \/ SecondPaced(w) \/ (\E s \in Slots : SlotSettles(w, s))
  \/ GraceCancelled(w) \/ RaceReturns(w)
  \/ Write(w) \/ Accept(w) \/ Reject(w) \/ Announced(w)

CallStep ==
  \/ \E p \in Peers : DiscoverFails(p) \/ DiscoverFinds(p)
  \/ TakeInventories \/ LookInStore \/ StartWorkers
  \/ AllSettled \/ VerifyNext \/ Complete \/ StopsAsCancelled

Next ==
  \/ CallStep \/ (\E w \in Workers : WorkerStep(w))
  \/ Cancel \/ (\E c \in Chunks : Meddle(c)) \/ Over

(* Every request has a timeout, every wait a timer, and the event loop runs *)
(* what is ready; nobody owes a cancellation or a change of the store.      *)
Fairness == WF_vars(CallStep) /\ \A w \in Workers : WF_vars(WorkerStep(w))
Spec == Init /\ [][Next]_vars /\ Fairness

-----------------------------------------------------------------------------
(* Properties.                                                              *)

TypeOK ==
  /\ phase \in {"discovering", "inventory", "caching", "working", "verifying", "over"}
  /\ cursor \in 0 .. Len(scheduled) /\ active \in 0 .. Cardinality(Workers)
  /\ target \in 1 .. Max({1, Cardinality(Workers)}) /\ completed \in 0 .. ChunkCount
  /\ \A p \in Peers : inFlight[p] \in Nat
  /\ \A w \in Workers : peer[w] \in Peers \cup {NoPeer} /\ gone[w] \subseteq Peers

\* The requests and reservations that the workers have out at peer p.
Uses(p) ==
  {u \in Workers \X Slots :
     IF u[2] = "first" THEN peer[u[1]] = p
     ELSE race[u[1]].rival = p /\ race[u[1]].second \in {"pacing", "open"}}

\* No request, reservation or store write of a download outlives its call, and
\* at every moment a peer's inFlight counts what is really out at it: after an
\* error and after a decided race too.
NothingOutlivesTheCall ==
  /\ \A p \in Peers : inFlight[p] = Cardinality(Uses(p))
  /\ phase \in {"verifying", "over"} =>
       /\ active = 0
       /\ \A p \in Peers : inFlight[p] = 0 /\ pace[p] = <<>>
       /\ \A w \in Workers : pc[w] = "ended"

\* The outcome tells what happened. A download reports a cancellation only if
\* its caller cancelled (never the abort that stopped the other workers), says
\* that a baseline is unavailable only if it lacks a chunk that no dependable
\* peer has (one that has it is asked before the download gives up), and
\* completes only with every chunk counted once and found good in the store.
OutcomeIsJustified ==
  /\ outcome = "cancelled" => cancelled
  /\ outcome = "unavailable" =>
       \/ Reliable = {}
       \/ \E i \in DOMAIN scheduled : \A p \in Reliable : scheduled[i] \notin Holds[p]
  /\ outcome = "complete" =>
       completed = ChunkCount /\ \A c \in Chunks : store[c] = "good" \/ c \in late

\* Every download ends: no worker waits for an admission or a pacing place
\* that nobody will give free.
DownloadEnds == <>(phase = "over")
=============================================================================
