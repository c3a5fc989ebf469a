------------------------- MODULE SwarmDownloadProofs -------------------------
(***************************************************************************)
(* Invariants of one swarm download, for any workers, peers, chunks and    *)
(* attempts, and for any way the peers, the store and the caller behave.   *)
(***************************************************************************)
EXTENDS SwarmDownload, FiniteSetTheorems, WellFoundedInduction, TLAPS

-----------------------------------------------------------------------------
(* The inductive invariant.                                                *)

Phases == {"discovering", "inventory", "caching", "working", "verifying", "over"}
Idle == {"ended", "claim", "waiting", "throwing"}
Racing == {"racing", "settling"}
Serving == {"pacing", "asking", "racing", "settling", "writing", "checking", "announcing"}
Errors == {"none", "cancelled", "unavailable", "store"}
SlotStates == {"idle", "pacing", "open", "good", "retryable", "terminal", "cancelled"}
Results == {"none", "good", "retryable", "terminal", "cancelled"}
Races == [rival: Peers \cup {NoPeer}, first: SlotStates, second: SlotStates, result: Results]

\* The types of the call's variables ...
CallTypes ==
  /\ phase \in Phases /\ cancelled \in BOOLEAN /\ stopped \in BOOLEAN /\ aborted \in BOOLEAN
  /\ exhausted \subseteq Peers
  /\ store \in [Chunks -> {"missing", "good", "bad"}]
  /\ late \subseteq Chunks /\ left \subseteq Chunks
  /\ scheduled \in Seq(Chunks) /\ cursor \in 0 .. Len(scheduled) /\ completed \in Nat
  /\ firstError \in Errors

\* ... and of the workers'.
WorkerTypes ==
  /\ active \in Int
  /\ inFlight \in [Peers -> Int] /\ pace \in [Peers -> Seq(Workers \X Slots)]
  /\ pc \in [Workers -> Idle \cup Serving \cup {"pick"}]
  /\ job \in [Workers -> Nat \cup {NoJob}]
  /\ gone \in [Workers -> SUBSET Peers]
  /\ peer \in [Workers -> Peers \cup {NoPeer}]
  /\ race \in [Workers -> Races]
  /\ thrown \in [Workers -> Errors]

\* What a worker holds at each of its stations.
Holding ==
  \A w \in Workers :
    /\ peer[w] = NoPeer <=> pc[w] \notin Serving
    /\ IF pc[w] \in Idle THEN job[w] = NoJob /\ gone[w] = {} ELSE job[w] \in 1 .. cursor
    /\ pc[w] \notin Racing => race[w] = NoRace
    /\ pc[w] \in Racing => race[w].rival \in Peers /\ race[w].first \notin {"idle", "pacing"}
    /\ pc[w] = "racing" => race[w].first # "good" /\ race[w].second # "good"
    /\ pc[w] = "settling" => race[w].result # "none"
    /\ thrown[w] = "none" <=> pc[w] # "throwing"

\* Workers exist while the call is at work.
Staffed ==
  /\ phase # "working" => \A w \in Workers : pc[w] = "ended"
  /\ active = Cardinality({w \in Workers : job[w] # NoJob})

\* A pacing queue holds those who wait in it, once.
Waits(u, p) ==
  IF u[2] = "first" THEN pc[u[1]] = "pacing" /\ peer[u[1]] = p
  ELSE race[u[1]].second = "pacing" /\ race[u[1]].rival = p
Queued ==
  \A p \in Peers :
    /\ \A i \in 1 .. Len(pace[p]) : Waits(pace[p][i], p)
    /\ \A i, j \in 1 .. Len(pace[p]) : pace[p][i] = pace[p][j] => i = j

Counted == \A p \in Peers : inFlight[p] = Cardinality(Uses(p))

\* Why workers stop.
Stopping ==
  /\ phase \notin {"working", "over"} => firstError = "none"
  /\ aborted => cancelled \/ firstError # "none"
  /\ stopped => firstError # "none"
  /\ \A w \in Workers : thrown[w] = "cancelled" => cancelled \/ firstError # "none"
  /\ firstError = "cancelled" => cancelled
  /\ outcome = "cancelled" => cancelled
  /\ \A w \in Workers :
       /\ pc[w] = "racing" => race[w].result = "none" /\ (race[w].first = "cancelled" => aborted)
       /\ pc[w] = "settling" /\ race[w].result = "cancelled" => aborted

\* No dependable peer has the chunk.
Lacking(c) == \A p \in Reliable : c \notin Holds[p]
Hopeless == Reliable = {} \/ \E i \in 1 .. Len(scheduled) : Lacking(scheduled[i])
MayFail(w) == peer[w] \notin Reliable \/ Chunk(w) \notin Holds[peer[w]]

GivingUp ==
  /\ exhausted \cap Reliable = {}
  /\ phase \in {"caching", "working"} =>
       \A p \in Reliable : inventory[p] = Known(Holds[p])
  /\ \A w \in Workers : \A p \in gone[w] \cap Reliable : Chunk(w) \notin Holds[p]
  /\ \A w \in Workers :
       /\ pc[w] = "racing" /\ race[w].first \in Failures => MayFail(w)
       /\ pc[w] = "settling" /\ race[w].result \in Failures => MayFail(w)
  /\ \A w \in Workers : thrown[w] = "unavailable" => Hopeless
  /\ firstError = "unavailable" => Hopeless
  /\ outcome = "unavailable" => Hopeless

\* Every chunk is counted, still to be claimed, or in the hands of a worker; unless
\* the download is going to fail.
Carrying == {w \in Workers : job[w] # NoJob /\ pc[w] # "announcing"}
Failing ==
  \/ firstError # "none"
  \/ \E w \in Workers : pc[w] = "throwing" \/ (aborted /\ pc[w] = "claim")
Balanced ==
  /\ phase \in {"discovering", "inventory"} => completed = 0 /\ scheduled = <<>> /\ left = Chunks
  /\ phase \in {"discovering", "inventory", "caching"} =>
       /\ cursor = 0
       /\ completed + Len(scheduled) + Cardinality(left) = ChunkCount
  /\ phase = "working" =>
       /\ Failing \/ completed + (Len(scheduled) - cursor) + Cardinality(Carrying) = ChunkCount
       /\ \/ cursor = Len(scheduled)
          \/ firstError # "none"
          \/ \E w \in Workers : pc[w] # "ended"
  /\ phase = "verifying" \/ outcome = "complete" =>
       /\ completed = ChunkCount
  /\ phase = "verifying" => \A c \in Chunks \ left : store[c] = "good" \/ c \in late
  /\ outcome = "complete" => \A c \in Chunks : store[c] = "good" \/ c \in late
  /\ phase = "over" <=> outcome # "none"

IInv ==
  /\ CallTypes /\ WorkerTypes /\ Holding /\ Staffed /\ Queued /\ Counted
  /\ Stopping /\ GivingUp /\ Balanced

-----------------------------------------------------------------------------
(* Numbers, bounds and orders of chunks.                                   *)

LEMMA NatOrder ==
  \E R : IsWellFoundedOn(R, Nat) /\ \A x, y \in Nat : x < y => <<x, y>> \in R
<1> DEFINE less == OpToRel(<, Nat)
<1>1. IsWellFoundedOn(less, Nat)
  BY NatLessThanWellFounded
<1>2. \A x, y \in Nat : x < y => <<x, y>> \in less
  BY DEF OpToRel
<1> HIDE DEF less
<1> QED
  BY <1>1, <1>2

LEMMA LeastNat ==
  ASSUME NEW T \in SUBSET Nat, T # {}
  PROVE  \E x \in T : \A y \in T : x <= y
<1>1. PICK R : IsWellFoundedOn(R, Nat) /\ \A x, y \in Nat : x < y => <<x, y>> \in R
  BY NatOrder
<1>2. PICK x \in T : \A y \in T : ~ (<<y, x>> \in R)
  <2>1. IsWellFoundedOn(R, Nat) /\ T \subseteq Nat /\ T # {}
    BY <1>1
  <2> QED
    BY <2>1, WFMin
<1>3. \A y \in T : ~(y < x)
  BY <1>1, <1>2
<1>4. \A y \in T : y \in Nat
  OBVIOUS
<1> QED
  BY <1>3, <1>4

LEMMA Next1IsLeft ==
  ASSUME left \subseteq Chunks, left # {}
  PROVE  Next1 \in left
<1>1. left \subseteq Nat
  BY DEF Chunks
<1>2. \E c \in left : \A d \in left : c <= d
  BY <1>1, LeastNat
<1> QED
  BY <1>2 DEF Next1

LEMMA CeilingIsPositive ==
  ASSUME NEW n \in Nat
  PROVE  Ceiling(n) \in Nat /\ 1 <= Ceiling(n)
<1> DEFINE m == Max({1, n})
<1>1. m \in Nat /\ 1 <= m
  <2>1. \E x \in {1, n} : \A y \in {1, n} : x >= y
    OBVIOUS
  <2> QED
    BY <2>1 DEF Max
<1>2. Cardinality(Workers) \in Nat /\ 1 <= Cardinality(Workers)
  BY ParametersAreSane, FS_CardinalityType, FS_EmptySet
<1> HIDE DEF m
<1>3. \E x \in {Cardinality(Workers), m} : \A y \in {Cardinality(Workers), m} : x <= y
  BY <1>1, <1>2
<1> QED
  BY <1>1, <1>2, <1>3 DEF Ceiling, Min, m

LEMMA OrdersAreSequences ==
  ASSUME NEW s \in Seq(Chunks), NEW t \in Orders(s)
  PROVE  t \in Seq(Chunks) /\ Len(t) = Len(s)
<1>1. CASE RarestFirst
  <2>1. t \in [1 .. Len(s) -> Chunks] /\ Len(s) \in Nat
    BY <1>1 DEF Orders
  <2> QED
    BY <2>1
<1>2. CASE ~RarestFirst
  BY <1>2 DEF Orders
<1> QED
  BY <1>1, <1>2

LEMMA ChunksAreFinite ==
  /\ IsFiniteSet(Chunks) /\ Cardinality(Chunks) = ChunkCount /\ ChunkCount \in Nat
BY ParametersAreSane, FS_Interval DEF Chunks

-----------------------------------------------------------------------------
(* What a step of a worker comes to.                                       *)

otherVars == <<phase, outcome, attempts, exhausted, inventory, left, scheduled, cancelled,
               meddled, stopped>>
othersAsWell == <<otherVars, aborted, firstError, cursor, completed, store, late>>

\* It gives the peer and the slot back, having failed, been stopped or got through.
Ending(w) ==
  \E to \in {"claim", "throwing"}, error \in Errors :
    /\ EndsJob(w, to, error)
    /\ pc[w] \in Serving \cup {"pick"} /\ Open(race[w]) = {}
    /\ error = "none" <=> to = "claim"
    /\ to = "claim" => stopped \/ aborted \/ pc[w] = "announcing"
    /\ error = "cancelled" => aborted
    /\ error = "unavailable" => pc[w] = "pick" /\ Candidates(w) = {}
    /\ IF pc[w] = "pacing" THEN AtHead(peer[w], w, "first") /\ Released(peer[w])
       ELSE UNCHANGED pace
    /\ UNCHANGED othersAsWell

\* It takes a peer and a place in that peer's queue.
Picking(w) ==
  /\ pc[w] = "pick"
  /\ \E p \in Peers :
       /\ p \in Candidates(w)
       /\ peer' = [peer EXCEPT ![w] = p]
       /\ inFlight' = [inFlight EXCEPT ![p] = @ + 1]
       /\ pace' = [pace EXCEPT ![p] = Append(@, <<w, "first">>)]
  /\ Goes(w, "pacing") /\ UNCHANGED <<othersAsWell, active, thrown, job, gone, race>>

\* Its turn has come: it asks one peer, or one with another in reserve.
Asking(w) ==
  /\ pc[w] = "pacing" /\ AtHead(peer[w], w, "first") /\ Released(peer[w])
  /\ \/ Goes(w, "asking") /\ UNCHANGED race
     \/ /\ Goes(w, "racing")
        /\ \E alt \in Peers :
             race' = [race EXCEPT ![w] = [NoRace EXCEPT !.rival = alt, !.first = "open"]]
  /\ UNCHANGED <<othersAsWell, active, thrown, job, gone, peer, inFlight>>

\* It blames the peer and looks for another one.
Blaming(w) ==
  /\ pc[w] \in {"asking", "settling"} /\ Open(race[w]) = {} /\ MayFail(w)
  /\ gone' \in {gone, [gone EXCEPT ![w] = @ \cup {peer[w]}]}
  /\ inFlight' = [inFlight EXCEPT ![peer[w]] = @ - 1]
  /\ peer' = [peer EXCEPT ![w] = NoPeer]
  /\ race' = [race EXCEPT ![w] = NoRace]
  /\ Goes(w, "pick")
  /\ UNCHANGED <<othersAsWell, active, thrown, job, pace>>

\* It has the chunk's bytes.
Receiving(w) ==
  /\ pc[w] \in {"asking", "settling"} /\ Open(race[w]) = {}
  /\ Goes(w, "writing") /\ race' = [race EXCEPT ![w] = NoRace]
  /\ UNCHANGED <<othersAsWell, active, thrown, job, gone, peer, inFlight, pace>>

Writing(w) ==
  /\ pc[w] = "writing"
  /\ store' = [store EXCEPT ![Chunk(w)] = "good"] /\ Goes(w, "checking")
  /\ late' = late \ {Chunk(w)}
  /\ UNCHANGED <<otherVars, aborted, firstError, cursor, completed, active, thrown, job, gone, peer,
                 race, inFlight, pace>>

\* It counts the chunk, and may wake the others.
Counting(w) ==
  /\ pc[w] = "checking"
  /\ completed' = completed + 1
  /\ pc' \in {[pc EXCEPT ![w] = "announcing"], Woken([pc EXCEPT ![w] = "announcing"])}
  /\ UNCHANGED <<otherVars, aborted, firstError, cursor, store, late, active, thrown, job, gone, peer,
                 race, inFlight, pace>>

Moves(w) ==
  \/ Claim(w) \/ Caught(w) \/ Ending(w) \/ Picking(w) \/ Asking(w) \/ Blaming(w)
  \/ Receiving(w) \/ HedgeStarts(w) \/ SecondPaced(w)
  \/ (\E s \in Slots : SlotSettles(w, s)) \/ GraceCancelled(w)
  \/ Writing(w) \/ Counting(w)

LEMMA WorkerStepKinds ==
  ASSUME WorkerTypes, Holding, Stopping, GivingUp, NEW w \in Workers, WorkerStep(w)
  PROVE  Moves(w)
<1> USE DEF callVars, storeVars, limitVars, stopVars, otherVars, othersAsWell, Moves
<1>1. pc[w] \notin Racing => race[w] = NoRace
  BY DEF Holding
<1>2. Open(NoRace) = {}
  BY DEF Open, NoRace, Slots
<1>3. CASE Pick(w)
  <2>1. pc[w] = "pick" /\ Open(race[w]) = {}
    BY <1>1, <1>2, <1>3 DEF Pick, Racing
  <2>2. CASE stopped /\ EndsJob(w, "claim", "none") /\ UNCHANGED pace
    BY <1>3, <2>1, <2>2 DEF Pick, Ending, Errors
  <2>3. CASE Candidates(w) = {} /\ EndsJob(w, "throwing", "unavailable") /\ UNCHANGED pace
    BY <1>3, <2>1, <2>3 DEF Pick, Ending, Errors
  <2>4. CASE ~(stopped /\ EndsJob(w, "claim", "none") /\ UNCHANGED pace)
             /\ ~(Candidates(w) = {} /\ EndsJob(w, "throwing", "unavailable") /\ UNCHANGED pace)
    BY <1>3, <2>1, <2>4 DEF Pick, Picking, MayComeFirst, Candidates, Goes
  <2> QED
    BY <2>2, <2>3, <2>4
<1>4. CASE Ask(w)
  <2>1. pc[w] = "pacing" /\ Open(race[w]) = {} /\ AtHead(peer[w], w, "first") /\ Released(peer[w])
    BY <1>1, <1>2, <1>4 DEF Ask, Racing
  <2>2. CASE aborted /\ EndsJob(w, "throwing", "cancelled")
    BY <1>4, <2>1, <2>2 DEF Ask, Ending, Errors, Serving
  <2>3. CASE stopped /\ EndsJob(w, "claim", "none")
    BY <1>4, <2>1, <2>3 DEF Ask, Ending, Errors, Serving
  <2>4. CASE ~(aborted /\ EndsJob(w, "throwing", "cancelled")) /\ ~(stopped /\ EndsJob(w, "claim", "none"))
    BY <1>4, <2>1, <2>4 DEF Ask, Asking, MayComeFirst, Candidates, Goes
  <2> QED
    BY <2>2, <2>3, <2>4
<1>5. ASSUME NEW kind, Follows(w, kind), pc[w] \in {"asking", "settling"}, Open(race[w]) = {},
             kind = "cancelled" => aborted, kind \in Failures => MayFail(w), UNCHANGED othersAsWell,
             UNCHANGED pace
      PROVE  Ending(w) \/ Receiving(w) \/ Blaming(w)
  <2>1. CASE EndsJob(w, "claim", "none") /\ (stopped \/ aborted)
    BY <1>5, <2>1 DEF Ending, Errors, Serving
  <2>2. CASE EndsJob(w, "throwing", "cancelled") /\ kind = "cancelled"
    BY <1>5, <2>2 DEF Ending, Errors, Serving
  <2>3. CASE Blame(w, kind) /\ kind \in Failures
    BY <1>5, <2>3 DEF Blaming, Blame
  <2>4. CASE /\ kind = "good" /\ Goes(w, "writing") /\ race' = [race EXCEPT ![w] = NoRace]
             /\ UNCHANGED <<limitVars, thrown, job, tries, gone, peer, inFlight>>
    BY <1>5, <2>4 DEF Receiving
  <2> QED
    BY <1>5, <2>1, <2>2, <2>3, <2>4 DEF Follows
<1>6. CASE Answer(w)
  <2>1. PICK kind \in Settled(peer[w], Chunk(w)) : Follows(w, kind)
    BY <1>6 DEF Answer
  <2>2. kind = "cancelled" => aborted
    BY <2>1 DEF Settled, Answers, Failures
  <2>3. kind \in Failures => MayFail(w)
    BY <2>1 DEF Settled, Answers, Failures, MayFail
  <2> QED
    BY <1>1, <1>2, <1>5, <1>6, <2>1, <2>2, <2>3 DEF Answer, Racing
<1>7. CASE RaceReturns(w)
  <2>1. pc[w] = "settling" /\ Open(race[w]) = {} /\ Follows(w, race[w].result)
    BY <1>7 DEF RaceReturns
  <2> QED
    BY <1>5, <1>7, <2>1 DEF RaceReturns, Stopping, GivingUp
<1>8. CASE Write(w)
  BY <1>1, <1>2, <1>8 DEF Write, Writing, Ending, Errors, Serving, Racing, Goes
<1>9. CASE Accept(w)
  <2>1. pc[w] = "checking" /\ Open(race[w]) = {}
    BY <1>1, <1>2, <1>9 DEF Accept, Racing
  <2>2. CASE stopped \/ aborted
    BY <1>9, <2>1, <2>2 DEF Accept, Ending, Errors, Serving
  <2>3. CASE ~(stopped \/ aborted)
    BY <1>9, <2>1, <2>3 DEF Accept, Counting, Goes, jobVars
  <2> QED
    BY <2>2, <2>3
<1>10. CASE Reject(w)
  BY <1>1, <1>2, <1>10 DEF Reject, Ending, Errors, Serving, Racing
<1>11. CASE Announced(w)
  BY <1>1, <1>2, <1>11 DEF Announced, Ending, Errors, Serving, Racing
<1> QED
  BY <1>3, <1>4, <1>6, <1>7, <1>8, <1>9, <1>10, <1>11 DEF WorkerStep

\* A step of w leaves the others alone, except that it may wake them.
OthersKept(w) ==
  \A v \in Workers \ {w} :
    /\ job'[v] = job[v] /\ gone'[v] = gone[v] /\ peer'[v] = peer[v]
    /\ race'[v] = race[v] /\ thrown'[v] = thrown[v]
    /\ pc'[v] = pc[v] \/ (pc[v] = "waiting" /\ pc'[v] = "claim")

LEMMA MovesAreLocal ==
  ASSUME WorkerTypes, NEW w \in Workers, Moves(w)
  PROVE  OthersKept(w)
<1> USE DEF WorkerTypes, OthersKept, jobVars
<1>1. CASE Claim(w)
  BY <1>1 DEF Claim, Goes
<1>2. CASE Caught(w)
  BY <1>2 DEF Caught, Woken
<1>3. CASE Ending(w)
  BY <1>3 DEF Ending, EndsJob, Woken
<1>4. CASE Picking(w)
  BY <1>4 DEF Picking, Goes
<1>5. CASE Asking(w)
  BY <1>5 DEF Asking, Goes
<1>6. CASE Blaming(w)
  BY <1>6 DEF Blaming, Goes
<1>7. CASE Receiving(w)
  BY <1>7 DEF Receiving, Goes
<1>8. CASE HedgeStarts(w)
  BY <1>8 DEF HedgeStarts
<1>9. CASE SecondPaced(w)
  BY <1>9 DEF SecondPaced, Decided, Goes
<1>10. CASE \E s \in Slots : SlotSettles(w, s)
  BY <1>10 DEF SlotSettles, Decided, Goes
<1>11. CASE GraceCancelled(w)
  BY <1>11 DEF GraceCancelled, Goes
<1>12. CASE Writing(w)
  BY <1>12 DEF Writing, Goes
<1>13. CASE Counting(w)
  BY <1>13 DEF Counting, Woken
<1> QED
  BY <1>1, <1>2, <1>3, <1>4, <1>5, <1>6, <1>7, <1>8, <1>9, <1>10, <1>11, <1>12, <1>13 DEF Moves

-----------------------------------------------------------------------------
(* Types.                                                                  *)

LEMMA NoRaceIsARace == NoRace \in Races /\ NoRace.rival = NoPeer
BY DEF NoRace, Races, SlotStates, Results

\* A race in which one slot changed, and what it is decided to be.
LEMMA SlotsOfARace ==
  ASSUME NEW r \in Races, NEW s \in Slots, NEW state \in SlotStates
  PROVE  /\ [r EXCEPT ![s] = state] \in Races
         /\ [r EXCEPT ![s] = state][s] = state
         /\ \A t \in Slots \ {s} : [r EXCEPT ![s] = state][t] = r[t]
         /\ [r EXCEPT ![s] = state].rival = r.rival
         /\ [r EXCEPT ![s] = state].result = r.result
<1>1. CASE s = "first"
  BY <1>1 DEF Races, Slots
<1>2. CASE s = "second"
  BY <1>2 DEF Races, Slots
<1> QED
  BY <1>1, <1>2 DEF Slots

LEMMA ResultOfARace ==
  ASSUME NEW r \in Races, Verdict(r) \in Results
  PROVE  [r EXCEPT !.result = Verdict(r)] \in Races
BY DEF Races

LEMMA VerdictOfARace ==
  ASSUME NEW r \in Races, r.first \notin {"idle", "pacing"}
  PROVE  /\ Verdict(r) \in Results
         /\ Verdict(r) # "good" => r.first # "good" /\ r.second # "good"
         /\ Verdict(r) \notin {"none", "good"} => Verdict(r) = r.first /\ Open(r) = {}
         /\ Verdict(r) = "none" => Open(r) # {}
BY DEF Races, Verdict, Open, Slots, SlotStates, Results

LEMMA AnswersAreStates ==
  ASSUME NEW p, NEW c, NEW kind \in Answers(p, c) \cup {"cancelled"}
  PROVE  /\ kind \in {"good", "retryable", "terminal", "cancelled"}
         /\ kind \in SlotStates /\ kind \in Results
         /\ kind \in Failures => p \notin Reliable \/ c \notin Holds[p]
BY DEF Answers, Failures, SlotStates, Results

\* What changes a race that is running.
RaceStep(w) ==
  \/ HedgeStarts(w) \/ SecondPaced(w) \/ (\E s \in Slots : SlotSettles(w, s)) \/ GraceCancelled(w)

LEMMA RacesStayRaces ==
  ASSUME WorkerTypes, Holding, NEW w \in Workers, RaceStep(w)
  PROVE  /\ pc[w] \in Racing
         /\ \E r \in Races :
              /\ race' = [race EXCEPT ![w] = r]
              /\ r.rival = race[w].rival /\ r.first \notin {"idle", "pacing"}
              /\ race[w].first # "open" => r.first = race[w].first
<1> USE DEF WorkerTypes, Racing
<1>1. race[w] \in Races
  OBVIOUS
<1>2. CASE HedgeStarts(w)
  <2> DEFINE r == [race[w] EXCEPT !.second = "pacing"]
  <2>1. race' = [race EXCEPT ![w] = r]
    BY <1>2 DEF HedgeStarts
  <2>2. r \in Races /\ r.rival = race[w].rival /\ r.first = race[w].first
    BY <1>1 DEF Races, SlotStates
  <2> QED
    BY <1>2, <2>1, <2>2 DEF HedgeStarts, Holding
<1>3. CASE SecondPaced(w)
  <2> DEFINE r(x) == [race[w] EXCEPT !["second"] = x]
  <2>1. ASSUME NEW x \in SlotStates
        PROVE  r(x) \in Races /\ r(x).rival = race[w].rival /\ r(x).first = race[w].first
    BY <1>1, SlotsOfARace DEF Slots
  <2>2. pc[w] \in Racing /\ race[w].first \notin {"idle", "pacing"}
    BY <1>3 DEF SecondPaced, Holding
  <2>3. CASE race' = [race EXCEPT ![w] = r("cancelled")]
    BY <2>1, <2>2, <2>3 DEF SlotStates
  <2>4. CASE race' = [race EXCEPT ![w] = r("open")]
    BY <2>1, <2>2, <2>4 DEF SlotStates
  <2>5. CASE Decided(w, r("cancelled"))
    <3> DEFINE q == [r("cancelled") EXCEPT !.result = Verdict(r("cancelled"))]
    <3>1. r("cancelled") \in Races /\ Verdict(r("cancelled")) \in Results
      BY <2>1, <2>2, VerdictOfARace DEF SlotStates
    <3>2. q \in Races
      BY <3>1, ResultOfARace
    <3>3. q.rival = r("cancelled").rival /\ q.first = r("cancelled").first
      BY <3>1 DEF Races
    <3>4. race' = [race EXCEPT ![w] = q]
      BY <2>5 DEF Decided
    <3> QED
      BY <2>1, <2>2, <3>2, <3>3, <3>4 DEF SlotStates
  <2> QED
    BY <1>3, <2>3, <2>4, <2>5 DEF SecondPaced
<1>4. CASE \E s \in Slots : SlotSettles(w, s)
  <2>1. PICK s \in Slots : SlotSettles(w, s)
    BY <1>4
  <2>2. PICK kind \in Answers(Asked(w, s), Chunk(w)) \cup {"cancelled"} :
          IF pc[w] = "settling" THEN race' = [race EXCEPT ![w][s] = kind]
                                ELSE Decided(w, [race[w] EXCEPT ![s] = kind])
    BY <2>1 DEF SlotSettles
  <2> DEFINE r == [race[w] EXCEPT ![s] = kind]
  <2>3. kind \in {"good", "retryable", "terminal", "cancelled"} /\ kind \in SlotStates
    BY <2>2, AnswersAreStates
  <2>4. /\ r \in Races /\ r.rival = race[w].rival
        /\ r[s] = kind /\ \A t \in Slots \ {s} : r[t] = race[w][t]
    BY <1>1, <2>3, SlotsOfARace
  <2>5. /\ pc[w] \in Racing /\ race[w].first \notin {"idle", "pacing"} /\ race[w][s] = "open"
    BY <2>1 DEF SlotSettles, Holding
  <2>6. /\ r.first \notin {"idle", "pacing"}
        /\ race[w].first # "open" => r.first = race[w].first
    <3>1. CASE s = "first"
      BY <2>3, <2>4, <2>5, <3>1
    <3>2. CASE s = "second"
      <4>1. "first" \in Slots \ {s}
        BY <3>2 DEF Slots
      <4>2. r["first"] = race[w]["first"]
        BY <2>4, <4>1
      <4> QED
        BY <2>5, <4>2
    <3> QED
      BY <3>1, <3>2 DEF Slots
  <2>7. CASE race' = [race EXCEPT ![w][s] = kind]
    BY <2>4, <2>5, <2>6, <2>7
  <2>8. CASE Decided(w, r)
    <3> DEFINE q == [r EXCEPT !.result = Verdict(r)]
    <3>1. q \in Races
      BY <2>4, <2>6, VerdictOfARace, ResultOfARace
    <3>2. q.rival = r.rival /\ q.first = r.first
      BY <2>4 DEF Races
    <3>3. race' = [race EXCEPT ![w] = q]
      BY <2>8 DEF Decided
    <3> QED
      BY <2>4, <2>5, <2>6, <3>1, <3>2, <3>3
  <2> QED
    BY <2>2, <2>7, <2>8
<1>5. CASE GraceCancelled(w)
  <2> DEFINE r == [race[w] EXCEPT !.result = "cancelled"]
  <2>1. r \in Races /\ r.rival = race[w].rival /\ r.first = race[w].first
    BY <1>1 DEF Races, Results
  <2>2. race' = [race EXCEPT ![w] = r]
    BY <1>5 DEF GraceCancelled
  <2> QED
    BY <1>5, <2>1, <2>2 DEF GraceCancelled, Holding
<1> QED
  BY <1>2, <1>3, <1>4, <1>5 DEF RaceStep

\* Whoever is served leaves the pacing queue.
LEMMA HeadLeaves ==
  ASSUME WorkerTypes, Holding, NEW w \in Workers, pc[w] \in Serving,
         AtHead(peer[w], w, "first"), Released(peer[w])
  PROVE  /\ peer[w] \in Peers /\ pace[peer[w]] \in Seq(Workers \X Slots)
         /\ pace' = [pace EXCEPT ![peer[w]] = Tail(@)]
         /\ pace' \in [Peers -> Seq(Workers \X Slots)]
<1>1. peer[w] \in Peers
  BY DEF Holding, WorkerTypes
<1>2. pace[peer[w]] # <<>> /\ pace[peer[w]] \in Seq(Workers \X Slots)
  BY <1>1 DEF AtHead, WorkerTypes
<1>3. Tail(pace[peer[w]]) \in Seq(Workers \X Slots)
  BY <1>2
<1> QED
  BY <1>1, <1>2, <1>3 DEF Released, WorkerTypes

LEMMA MovesKeepWorkerTypes ==
  ASSUME WorkerTypes, CallTypes, Holding, NEW w \in Workers, Moves(w)
  PROVE  WorkerTypes'
<1> USE DEF WorkerTypes, jobVars, limitVars, Goes
<1> USE NoRaceIsARace
<1>1. CASE Claim(w)
  <2>1. cursor \in Nat
    BY DEF CallTypes
  <2>2. pc' \in [Workers -> Idle \cup Serving \cup {"pick"}]
    BY <1>1 DEF Claim, Idle
  <2>3. thrown' \in [Workers -> Errors]
    BY <1>1 DEF Claim, Errors
  <2>4. job' \in [Workers -> Nat \cup {NoJob}] /\ active' \in Int
    <3>1. cursor + 1 \in Nat /\ active + 1 \in Int
      BY <2>1
    <3>2. \/ UNCHANGED <<job, active>>
          \/ job' = [job EXCEPT ![w] = cursor + 1] /\ active' = active + 1
      BY <1>1 DEF Claim
    <3> QED
      BY <3>1, <3>2
  <2> QED
    BY <1>1, <2>2, <2>3, <2>4 DEF Claim
<1>2. CASE Caught(w)
  BY <1>2 DEF Caught, Woken, Idle, Errors
<1>3. CASE Ending(w)
  <2>1. PICK to \in {"claim", "throwing"}, error \in Errors : EndsJob(w, to, error)
    BY <1>3 DEF Ending
  <2>2. pc' \in [Workers -> Idle \cup Serving \cup {"pick"}]
    BY <2>1 DEF EndsJob, Woken, Idle
  <2>3. /\ thrown' \in [Workers -> Errors] /\ job' \in [Workers -> Nat \cup {NoJob}]
        /\ gone' \in [Workers -> SUBSET Peers] /\ peer' \in [Workers -> Peers \cup {NoPeer}]
        /\ race' \in [Workers -> Races] /\ inFlight' \in [Peers -> Int] /\ active' \in Int
    BY <2>1 DEF EndsJob
  <2>4. pace' \in [Peers -> Seq(Workers \X Slots)]
    <3>1. CASE UNCHANGED pace
      BY <3>1
    <3>2. CASE AtHead(peer[w], w, "first") /\ Released(peer[w]) /\ pc[w] = "pacing"
      BY <3>2, HeadLeaves DEF Serving
    <3> QED
      BY <1>3, <3>1, <3>2 DEF Ending
  <2> QED
    BY <2>2, <2>3, <2>4
<1>4. CASE Picking(w)
  BY <1>4 DEF Picking, Serving, Slots
<1>5. CASE Asking(w)
  <2>1. \A alt \in Peers : [NoRace EXCEPT !.rival = alt, !.first = "open"] \in Races
    BY DEF NoRace, Races, SlotStates, Results
  <2>2. race' \in [Workers -> Races]
    BY <1>5, <2>1 DEF Asking
  <2>3. pc' \in [Workers -> Idle \cup Serving \cup {"pick"}]
    BY <1>5 DEF Asking, Serving
  <2>4. pace' \in [Peers -> Seq(Workers \X Slots)]
    BY <1>5, HeadLeaves DEF Asking, Serving
  <2> QED
    BY <1>5, <2>2, <2>3, <2>4 DEF Asking
<1>6. CASE Blaming(w)
  <2>1. peer[w] \in Peers
    BY <1>6 DEF Blaming, Holding, Serving
  <2>2. gone' \in [Workers -> SUBSET Peers]
    <3>1. gone \in [Workers -> SUBSET Peers]
      OBVIOUS
    <3>2. gone' \in {gone, [gone EXCEPT ![w] = gone[w] \cup {peer[w]}]}
      BY <1>6 DEF Blaming
    <3>3. CASE gone' = gone
      BY <3>1, <3>3
    <3>4. CASE gone' = [gone EXCEPT ![w] = gone[w] \cup {peer[w]}]
      <4>1. gone[w] \cup {peer[w]} \in SUBSET Peers
        BY <2>1, <3>1
      <4> HIDE DEF WorkerTypes, jobVars, limitVars, Goes
      <4> QED
        BY <3>1, <3>4, <4>1
    <3> QED
      BY <3>2, <3>3, <3>4
  <2>3. race' \in [Workers -> Races] /\ pc' \in [Workers -> Idle \cup Serving \cup {"pick"}]
    BY <1>6 DEF Blaming
  <2>4. inFlight' \in [Peers -> Int] /\ peer' \in [Workers -> Peers \cup {NoPeer}]
    BY <1>6, <2>1 DEF Blaming
  <2> QED
    BY <1>6, <2>2, <2>3, <2>4 DEF Blaming
<1>7. CASE Receiving(w)
  BY <1>7 DEF Receiving, Serving
<1>8. CASE RaceStep(w)
  <2>1. race' \in [Workers -> Races] /\ pc[w] \in Racing
    BY <1>8, RacesStayRaces
  <2>2. race[w].rival \in Peers
    BY <2>1 DEF Holding
  <2>3. inFlight' \in [Peers -> Int]
    BY <1>8, <2>2 DEF RaceStep, HedgeStarts, SecondPaced, SlotSettles, GraceCancelled
  <2>4. pc' \in [Workers -> Idle \cup Serving \cup {"pick"}]
    BY <1>8 DEF RaceStep, HedgeStarts, SecondPaced, SlotSettles, GraceCancelled, Decided, Serving
  <2>5. UNCHANGED <<active, job, gone, peer, thrown>>
    BY <1>8 DEF RaceStep, HedgeStarts, SecondPaced, SlotSettles, GraceCancelled
  <2>6. pace' \in [Peers -> Seq(Workers \X Slots)]
    <3>1. pace[race[w].rival] \in Seq(Workers \X Slots)
      BY <2>2
    <3>2. CASE UNCHANGED pace
      BY <3>2
    <3>3. CASE SecondPaced(w)
      <4>1. pace[race[w].rival] # <<>>
        BY <3>3 DEF SecondPaced, AtHead
      <4>2. Tail(pace[race[w].rival]) \in Seq(Workers \X Slots)
        BY <3>1, <4>1
      <4> QED
        BY <2>2, <3>3, <4>2 DEF SecondPaced, Released
    <3>4. CASE HedgeStarts(w)
      <4>1. Append(pace[race[w].rival], <<w, "second">>) \in Seq(Workers \X Slots)
        BY <3>1 DEF Slots
      <4> QED
        BY <2>2, <3>4, <4>1 DEF HedgeStarts
    <3> QED
      BY <1>8, <3>2, <3>3, <3>4 DEF RaceStep, SlotSettles, GraceCancelled
  <2> QED
    BY <2>1, <2>3, <2>4, <2>5, <2>6
<1>9. CASE Writing(w)
  BY <1>9 DEF Writing, Serving
<1>10. CASE Counting(w)
  BY <1>10 DEF Counting, Woken, Idle, Serving
<1> QED
  BY <1>1, <1>2, <1>3, <1>4, <1>5, <1>6, <1>7, <1>8, <1>9, <1>10 DEF Moves, RaceStep

LEMMA MovesKeepCallTypes ==
  ASSUME WorkerTypes, CallTypes, Holding, NEW w \in Workers, Moves(w)
  PROVE  CallTypes'
<1> USE DEF CallTypes, otherVars, othersAsWell, callVars, storeVars, limitVars
<1>1. CASE Claim(w)
  <2>1. cursor' \in 0 .. Len(scheduled)
    <3>1. Len(scheduled) \in Nat
      OBVIOUS
    <3>2. cursor' = cursor \/ (cursor' = cursor + 1 /\ cursor < Len(scheduled))
      BY <1>1 DEF Claim
    <3> QED
      BY <3>1, <3>2
  <2> QED
    BY <1>1, <2>1 DEF Claim, stopVars
<1>2. CASE Caught(w)
  <2>1. firstError' \in Errors
    BY <1>2 DEF Caught, WorkerTypes
  <2> QED
    BY <1>2, <2>1 DEF Caught
<1>3. CASE Ending(w)
  BY <1>3 DEF Ending
<1>4. CASE Picking(w)
  BY <1>4 DEF Picking
<1>5. CASE Asking(w)
  BY <1>5 DEF Asking
<1>6. CASE Blaming(w)
  BY <1>6 DEF Blaming
<1>7. CASE Receiving(w)
  BY <1>7 DEF Receiving
<1>8. CASE RaceStep(w)
  BY <1>8 DEF RaceStep, HedgeStarts, SecondPaced, SlotSettles, GraceCancelled, stopVars
<1>9. CASE Writing(w)
  BY <1>9 DEF Writing
<1>10. CASE Counting(w)
  BY <1>10 DEF Counting
<1> QED
  BY <1>1, <1>2, <1>3, <1>4, <1>5, <1>6, <1>7, <1>8, <1>9, <1>10 DEF Moves, RaceStep

-----------------------------------------------------------------------------
(* The steps of the call itself.                                           *)

\* No worker takes part.
Quiet == UNCHANGED <<active, inFlight, pace, pc, job, gone, peer, race, thrown, cursor>>

CallAlone ==
  \/ (\E p \in Peers : DiscoverFails(p) \/ DiscoverFinds(p))
  \/ TakeInventories \/ LookInStore \/ AllSettled \/ VerifyNext \/ Complete \/ StopsAsCancelled
  \/ (\E c \in Chunks : Meddle(c)) \/ UNCHANGED vars

LEMMA NextKinds ==
  ASSUME IInv, [Next]_vars
  PROVE  \/ CallAlone \/ StartWorkers \/ Cancel
         \/ \E w \in Workers : Moves(w)
BY WorkerStepKinds DEF Next, CallStep, Over, CallAlone, IInv

LEMMA CallAloneIsQuiet ==
  ASSUME CallAlone
  PROVE  Quiet
<1> USE DEF Quiet, workerVars, limitVars, callVars
<1>1. CASE \E p \in Peers : DiscoverFails(p) \/ DiscoverFinds(p)
  BY <1>1 DEF DiscoverFails, DiscoverFinds
<1>2. CASE TakeInventories \/ LookInStore \/ AllSettled
  BY <1>2 DEF TakeInventories, LookInStore, AllSettled
<1>3. CASE VerifyNext \/ Complete \/ StopsAsCancelled
  BY <1>3 DEF VerifyNext, Complete, StopsAsCancelled
<1>4. CASE \E c \in Chunks : Meddle(c)
  BY <1>4 DEF Meddle
<1>5. CASE UNCHANGED vars
  BY <1>5 DEF vars
<1> QED
  BY <1>1, <1>2, <1>3, <1>4, <1>5 DEF CallAlone

LEMMA CallKeepsWorkerTypes ==
  ASSUME WorkerTypes, CallTypes, CallAlone \/ StartWorkers \/ Cancel
  PROVE  WorkerTypes'
<1> USE DEF WorkerTypes, workerVars, limitVars
<1>1. CASE CallAlone
  BY <1>1, CallAloneIsQuiet DEF Quiet
<1>2. CASE StartWorkers
  BY <1>2 DEF StartWorkers, Idle
<1>3. CASE Cancel
  BY <1>3 DEF Cancel, Woken, Idle
<1> QED
  BY <1>1, <1>2, <1>3

LEMMA CallKeepsCallTypes ==
  ASSUME CallTypes, WorkerTypes, CallAlone \/ StartWorkers \/ Cancel
  PROVE  CallTypes'
<1> USE DEF CallTypes, workerVars, limitVars, callVars, storeVars, stopVars, Ends, Phases
<1>1. CASE \E p \in Peers : DiscoverFails(p)
  BY <1>1 DEF DiscoverFails
<1>2. CASE (\E p \in Peers : DiscoverFinds(p)) \/ TakeInventories
  BY <1>2 DEF DiscoverFinds, TakeInventories
<1>3. CASE LookInStore
  <2>1. Next1 \in Chunks
    BY <1>3, Next1IsLeft DEF LookInStore
  <2>2. scheduled' \in Seq(Chunks) /\ Len(scheduled') >= Len(scheduled) /\ completed' \in Nat
    BY <1>3, <2>1 DEF LookInStore
  <2>3. cursor' \in 0 .. Len(scheduled')
    BY <1>3, <2>2 DEF LookInStore
  <2> QED
    BY <1>3, <2>2, <2>3 DEF LookInStore
<1>4. CASE StartWorkers
  <2>1. scheduled' \in Seq(Chunks) /\ Len(scheduled') = Len(scheduled)
    BY <1>4, OrdersAreSequences DEF StartWorkers
  <2>2. cursor' \in 0 .. Len(scheduled')
    BY <1>4, <2>1 DEF StartWorkers
  <2> QED
    BY <1>4, <2>1, <2>2 DEF StartWorkers
<1>5. CASE AllSettled
  BY <1>5 DEF AllSettled
<1>6. CASE VerifyNext \/ Complete \/ StopsAsCancelled
  BY <1>6 DEF VerifyNext, Complete, StopsAsCancelled
<1>7. CASE Cancel
  BY <1>7 DEF Cancel
<1>8. CASE \E c \in Chunks : Meddle(c)
  BY <1>8 DEF Meddle
<1>9. CASE UNCHANGED vars
  BY <1>9 DEF vars
<1> QED
  BY <1>1, <1>2, <1>3, <1>4, <1>5, <1>6, <1>7, <1>8, <1>9 DEF CallAlone

-----------------------------------------------------------------------------
(* What a worker holds.                                                    *)

\* Holding, for one worker.
HoldingAt(w) ==
  /\ peer[w] = NoPeer <=> pc[w] \notin Serving
  /\ IF pc[w] \in Idle THEN job[w] = NoJob /\ gone[w] = {} ELSE job[w] \in 1 .. cursor
  /\ pc[w] \notin Racing => race[w] = NoRace
  /\ pc[w] \in Racing => race[w].rival \in Peers /\ race[w].first \notin {"idle", "pacing"}
  /\ pc[w] = "racing" => race[w].first # "good" /\ race[w].second # "good"
  /\ pc[w] = "settling" => race[w].result # "none"
  /\ thrown[w] = "none" <=> pc[w] # "throwing"

LEMMA OthersHold ==
  ASSUME CallTypes, CallTypes', Holding, NEW w \in Workers, Moves(w), OthersKept(w),
         NEW v \in Workers \ {w}
  PROVE  HoldingAt(v)'
<1>1. cursor \in Nat /\ cursor' \in Nat
  BY DEF CallTypes
<1>2. cursor' = cursor \/ cursor' = cursor + 1
  BY DEF Moves, Claim, Caught, Ending, Picking, Asking, Blaming, Receiving, HedgeStarts, SecondPaced,
         SlotSettles, GraceCancelled, Writing, Counting, othersAsWell
<1>3. 1 .. cursor \subseteq 1 .. cursor'
  BY <1>1, <1>2
<1>4. HoldingAt(v)
  BY DEF Holding, HoldingAt
<1>5. /\ job'[v] = job[v] /\ gone'[v] = gone[v] /\ peer'[v] = peer[v]
      /\ race'[v] = race[v] /\ thrown'[v] = thrown[v]
      /\ pc'[v] = pc[v] \/ (pc[v] = "waiting" /\ pc'[v] = "claim")
  BY DEF OthersKept
<1> QED
  BY <1>3, <1>4, <1>5 DEF HoldingAt, Serving, Idle, Racing

\* What a step of the race leaves of it.
LEMMA RaceStepHolds ==
  ASSUME WorkerTypes, Holding, Stopping, NEW w \in Workers, RaceStep(w)
  PROVE  /\ race'[w].rival \in Peers /\ race'[w].first \notin {"idle", "pacing"}
         /\ pc'[w] \in Racing
         /\ pc'[w] = "racing" => race'[w].first # "good" /\ race'[w].second # "good"
         /\ pc'[w] = "settling" => race'[w].result # "none"
<1> USE DEF WorkerTypes
<1>1. PICK r \in Races :
        /\ race' = [race EXCEPT ![w] = r]
        /\ r.rival = race[w].rival /\ r.first \notin {"idle", "pacing"}
  BY RacesStayRaces
<1>2. race'[w] = r /\ pc[w] \in Racing /\ race[w].rival \in Peers /\ race[w] \in Races
  BY <1>1, RacesStayRaces DEF Holding
<1>3. CASE HedgeStarts(w)
  <2>1. race'[w] = [race[w] EXCEPT !.second = "pacing"]
    BY <1>3 DEF HedgeStarts
  <2>2. race'[w].first = race[w].first /\ race'[w].second = "pacing"
    BY <1>2, <2>1 DEF Races
  <2> QED
    BY <1>1, <1>2, <1>3, <2>2 DEF HedgeStarts, Racing, Holding
<1>4. ASSUME NEW q \in Races, Decided(w, q), pc[w] = "racing"
      PROVE  /\ pc'[w] \in Racing
             /\ pc'[w] = "racing" => race'[w].first # "good" /\ race'[w].second # "good"
             /\ pc'[w] = "settling" => race'[w].result # "none"
  <2>1. race'[w] = [q EXCEPT !.result = Verdict(q)]
    BY <1>4 DEF Decided
  <2>2. race'[w].first = q.first /\ race'[w].second = q.second /\ race'[w].result = Verdict(q)
    BY <2>1 DEF Races
  <2>3. IF Verdict(q) = "none" THEN pc'[w] = pc[w] ELSE pc'[w] = "settling"
    BY <1>4 DEF Decided, Goes
  <2>4. Verdict(q) = "none" => q.first # "good" /\ q.second # "good"
    BY DEF Verdict
  <2> QED
    BY <1>4, <2>2, <2>3, <2>4 DEF Racing
<1>5. CASE SecondPaced(w)
  <2> DEFINE q == [race[w] EXCEPT !.second = "cancelled"]
  <2>1. q \in Races
    BY <1>2 DEF Races, SlotStates
  <2>2. CASE Decided(w, q) /\ pc[w] = "racing"
    <3> HIDE DEF q
    <3> QED
      BY <1>1, <1>2, <1>4, <2>1, <2>2
  <2>3. CASE race' = [race EXCEPT ![w].second = "cancelled"] /\ UNCHANGED pc /\ pc[w] = "settling"
    <3>1. race'[w].result = race[w].result
      BY <1>2, <2>3 DEF Races
    <3> QED
      BY <1>1, <1>2, <2>3, <3>1 DEF Holding, Racing
  <2>4. CASE race' = [race EXCEPT ![w].second = "open"] /\ UNCHANGED pc /\ pc[w] = "racing"
    <3>1. race'[w].first = race[w].first /\ race'[w].second = "open"
      BY <1>2, <2>4 DEF Races
    <3> QED
      BY <1>1, <1>2, <2>4, <3>1 DEF Holding, Racing
  <2> QED
    BY <1>5, <2>2, <2>3, <2>4 DEF SecondPaced
<1>6. CASE \E s \in Slots : SlotSettles(w, s)
  <2>1. PICK s \in Slots : SlotSettles(w, s)
    BY <1>6
  <2>2. PICK kind \in Answers(Asked(w, s), Chunk(w)) \cup {"cancelled"} :
          IF pc[w] = "settling" THEN race' = [race EXCEPT ![w][s] = kind] /\ UNCHANGED pc
                                ELSE Decided(w, [race[w] EXCEPT ![s] = kind])
    BY <2>1 DEF SlotSettles
  <2> DEFINE q == [race[w] EXCEPT ![s] = kind]
  <2>3. q \in Races /\ q.result = race[w].result
    <3>1. kind \in SlotStates
      BY <2>2, AnswersAreStates
    <3> QED
      BY <1>2, <3>1, SlotsOfARace
  <2>4. CASE pc[w] = "settling"
    <3>1. race'[w] = q /\ pc' = pc
      BY <2>2, <2>4
    <3> QED
      BY <1>1, <1>2, <2>3, <2>4, <3>1 DEF Holding, Racing
  <2>5. CASE pc[w] = "racing"
    <3>1. Decided(w, q)
      BY <2>2, <2>5
    <3> HIDE DEF q
    <3> QED
      BY <1>1, <1>2, <1>4, <2>3, <2>5, <3>1
  <2> QED
    BY <2>1, <2>4, <2>5 DEF SlotSettles
<1>7. CASE GraceCancelled(w)
  <2>1. race'[w].result = "cancelled"
    BY <1>2, <1>7 DEF GraceCancelled, Races
  <2> QED
    BY <1>1, <1>2, <1>7, <2>1 DEF GraceCancelled, Goes, Racing
<1> QED
  BY <1>3, <1>5, <1>6, <1>7 DEF RaceStep

LEMMA MoverHolds ==
  ASSUME WorkerTypes, WorkerTypes', CallTypes, CallTypes', Holding, Stopping,
         NEW w \in Workers, Moves(w)
  PROVE  HoldingAt(w)'
<1> USE DEF WorkerTypes, HoldingAt, Idle, Serving, Racing
<1>1. HoldingAt(w)
  BY DEF Holding
<1>2. CASE Claim(w)
  <2>1. cursor \in Nat
    BY DEF CallTypes
  <2>2. cursor + 1 \in 1 .. cursor + 1
    BY <2>1
  <2>3. CASE Goes(w, "ended") \/ Goes(w, "waiting")
    BY <1>1, <1>2, <2>3 DEF Claim, Goes, jobVars
  <2>4. CASE Goes(w, "throwing") /\ thrown' = [thrown EXCEPT ![w] = "cancelled"]
    BY <1>1, <1>2, <2>4 DEF Claim, Goes, jobVars
  <2>5. CASE /\ Goes(w, "pick") /\ UNCHANGED <<thrown, gone, peer, race>>
             /\ cursor' = cursor + 1 /\ job' = [job EXCEPT ![w] = cursor']
    BY <1>1, <1>2, <2>2, <2>5 DEF Claim, Goes
  <2> QED
    BY <1>2, <2>3, <2>4, <2>5 DEF Claim
<1>3. CASE Caught(w)
  <2>1. pc'[w] = "ended" /\ thrown'[w] = "none"
    BY <1>3 DEF Caught, Woken
  <2> QED
    BY <1>1, <1>3, <2>1 DEF Caught, jobVars
<1>4. CASE Ending(w)
  <2>1. PICK to \in {"claim", "throwing"}, error \in Errors :
          EndsJob(w, to, error) /\ (error = "none" <=> to = "claim")
    BY <1>4 DEF Ending
  <2>2. pc'[w] = to /\ thrown'[w] = error
    BY <2>1 DEF EndsJob, Woken
  <2>3. peer'[w] = NoPeer /\ job'[w] = NoJob /\ gone'[w] = {} /\ race'[w] = NoRace
    BY <2>1 DEF EndsJob
  <2> QED
    BY <2>1, <2>2, <2>3
<1>5. CASE Picking(w)
  <2>1. peer'[w] # NoPeer
    BY <1>5, ParametersAreSane DEF Picking
  <2> QED
    BY <1>1, <1>5, <2>1 DEF Picking, Goes, othersAsWell
<1>6. CASE Asking(w)
  <2>1. CASE Goes(w, "asking") /\ UNCHANGED race
    BY <1>1, <1>6, <2>1 DEF Asking, Goes, othersAsWell
  <2>2. CASE ~(Goes(w, "asking") /\ UNCHANGED race)
    <3>1. PICK alt \in Peers :
            race' = [race EXCEPT ![w] = [NoRace EXCEPT !.rival = alt, !.first = "open"]]
      BY <1>6, <2>2 DEF Asking
    <3>2. race'[w].rival \in Peers /\ race'[w].first = "open" /\ race'[w].second = "idle"
      BY <3>1 DEF NoRace
    <3>3. pc'[w] = "racing"
      BY <1>6, <2>2 DEF Asking, Goes
    <3> QED
      BY <1>1, <1>6, <3>2, <3>3 DEF Asking, othersAsWell
  <2> QED
    BY <2>1, <2>2
<1>7. CASE Blaming(w)
  BY <1>1, <1>7 DEF Blaming, Goes, othersAsWell
<1>8. CASE Receiving(w)
  BY <1>1, <1>8 DEF Receiving, Goes, othersAsWell
<1>9. CASE RaceStep(w)
  <2>1. /\ race'[w].rival \in Peers /\ race'[w].first \notin {"idle", "pacing"}
        /\ pc'[w] \in Racing /\ pc[w] \in Racing
        /\ pc'[w] = "racing" => race'[w].first # "good" /\ race'[w].second # "good"
        /\ pc'[w] = "settling" => race'[w].result # "none"
    BY <1>9, RaceStepHolds, RacesStayRaces
  <2>2. UNCHANGED <<job, gone, peer, thrown, cursor>>
    BY <1>9 DEF RaceStep, HedgeStarts, SecondPaced, SlotSettles, GraceCancelled
  <2> QED
    BY <1>1, <2>1, <2>2
<1>10. CASE Writing(w)
  BY <1>1, <1>10 DEF Writing, Goes
<1>11. CASE Counting(w)
  <2>1. pc'[w] = "announcing"
    BY <1>11 DEF Counting, Woken
  <2> QED
    BY <1>1, <1>11, <2>1 DEF Counting
<1> QED
  BY <1>2, <1>3, <1>4, <1>5, <1>6, <1>7, <1>8, <1>9, <1>10, <1>11 DEF Moves, RaceStep

LEMMA NextHolds ==
  ASSUME IInv, [Next]_vars, WorkerTypes', CallTypes'
  PROVE  Holding'
<1> USE DEF IInv
<1>1. CASE Quiet
  BY <1>1 DEF Quiet, Holding
<1>2. CASE StartWorkers
  <2>1. \A w \in Workers : pc[w] = "ended" /\ pc'[w] \in {"claim", "ended"}
    BY <1>2 DEF Staffed, StartWorkers
  <2>2. UNCHANGED <<peer, job, gone, race, thrown>>
    BY <1>2 DEF StartWorkers
  <2> QED
    BY <2>1, <2>2 DEF Holding, Idle, Serving, Racing
<1>3. CASE Cancel
  <2>1. \A w \in Workers : pc'[w] = pc[w] \/ (pc[w] = "waiting" /\ pc'[w] = "claim")
    BY <1>3 DEF Cancel, Woken, WorkerTypes
  <2>2. UNCHANGED <<peer, job, gone, race, thrown, cursor>>
    BY <1>3 DEF Cancel
  <2> QED
    BY <2>1, <2>2 DEF Holding, Idle, Serving, Racing
<1>4. ASSUME NEW w \in Workers, Moves(w)
      PROVE  Holding'
  <2>1. \A v \in Workers : HoldingAt(v)'
    BY <1>4, MoverHolds, OthersHold, MovesAreLocal
  <2> QED
    BY <2>1 DEF Holding, HoldingAt
<1> QED
  BY <1>1, <1>2, <1>3, <1>4, NextKinds, CallAloneIsQuiet

-----------------------------------------------------------------------------
(* Who is at work.                                                         *)

LEMMA MoversWork ==
  ASSUME Staffed, NEW w \in Workers, Moves(w)
  PROVE  phase = "working" /\ phase' = phase /\ pc[w] # "ended"
<1>1. pc[w] # "ended"
  BY DEF Moves, Claim, Caught, Ending, Picking, Asking, Blaming, Receiving, HedgeStarts, SecondPaced,
         SlotSettles, GraceCancelled, Writing, Counting, Serving
<1>2. phase' = phase
  BY DEF Moves, Claim, Caught, Ending, Picking, Asking, Blaming, Receiving, HedgeStarts, SecondPaced,
         SlotSettles, GraceCancelled, Writing, Counting, othersAsWell, otherVars, callVars
<1> QED
  BY <1>1, <1>2 DEF Staffed

AtWork == {w \in Workers : job[w] # NoJob}

LEMMA AtWorkIsFinite == IsFiniteSet(AtWork) /\ Cardinality(AtWork) \in Nat
BY ParametersAreSane, FS_Subset, FS_CardinalityType DEF AtWork

LEMMA NextStaffed ==
  ASSUME IInv, [Next]_vars, WorkerTypes', Holding'
  PROVE  Staffed'
<1> USE DEF IInv
<1>1. CASE CallAlone
  <2>1. UNCHANGED <<active, job, pc>>
    BY <1>1, CallAloneIsQuiet DEF Quiet
  <2>2. phase' # "working" => phase # "working" \/ AllSettled
    BY <1>1 DEF CallAlone, DiscoverFails, DiscoverFinds, TakeInventories, LookInStore, VerifyNext,
                Complete, StopsAsCancelled, Meddle, callVars, vars
  <2>3. AllSettled => \A w \in Workers : pc[w] = "ended"
    BY DEF AllSettled
  <2> QED
    BY <2>1, <2>2, <2>3 DEF Staffed
<1>2. CASE StartWorkers
  BY <1>2 DEF StartWorkers, Staffed
<1>3. CASE Cancel
  BY <1>3 DEF Cancel, Staffed, callVars, limitVars
<1>4. ASSUME NEW w \in Workers, Moves(w)
      PROVE  Staffed'
  <2>1. phase' = "working"
    BY <1>4, MoversWork
  <2>2. OthersKept(w) /\ IsFiniteSet(AtWork) /\ active = Cardinality(AtWork)
    BY <1>4, MovesAreLocal, AtWorkIsFinite DEF Staffed, AtWork
  <2>3. active' = Cardinality(AtWork')
    <3>1. CASE UNCHANGED <<job, active>>
      BY <2>2, <3>1 DEF AtWork
    <3>2. CASE Ending(w)
      <4>1. active' = active - 1 /\ job'[w] = NoJob
        BY <3>2 DEF Ending, EndsJob, WorkerTypes
      <4>2. w \in AtWork
        BY <3>2, ParametersAreSane DEF Ending, Holding, AtWork, Serving, Idle
      <4>3. AtWork' = AtWork \ {w}
        BY <2>2, <4>1 DEF OthersKept, AtWork
      <4> QED
        BY <2>2, <4>1, <4>2, <4>3, FS_RemoveElement
    <3>3. CASE Claim(w) /\ job' = [job EXCEPT ![w] = cursor + 1] /\ active' = active + 1
      <4>1. w \notin AtWork
        BY <3>3 DEF Claim, Holding, AtWork, Idle
      <4>2. job'[w] # NoJob
        BY <3>3, ParametersAreSane DEF CallTypes, WorkerTypes
      <4>3. AtWork' = AtWork \cup {w}
        BY <2>2, <4>2 DEF OthersKept, AtWork
      <4> QED
        BY <2>2, <3>3, <4>1, <4>3, FS_AddElement
    <3>4. CASE Claim(w)
      BY <3>1, <3>3, <3>4 DEF Claim, jobVars
    <3>5. CASE ~(Claim(w) \/ Ending(w))
      <4>1. UNCHANGED <<job, active>>
        BY <1>4, <3>5 DEF Moves, Caught, Picking, Asking, Blaming, Receiving, HedgeStarts,
             SecondPaced, SlotSettles, GraceCancelled, Writing, Counting, jobVars, limitVars
      <4> QED
        BY <3>1, <4>1
    <3> QED
      BY <3>2, <3>4, <3>5
  <2> QED
    BY <2>1, <2>3 DEF Staffed, AtWork
<1> QED
  BY <1>1, <1>2, <1>3, <1>4, NextKinds

-----------------------------------------------------------------------------
(* What is out at a peer.                                                  *)

LEMMA UsesAreFinite ==
  ASSUME NEW p
  PROVE  IsFiniteSet(Uses(p)) /\ Cardinality(Uses(p)) \in Nat
<1>1. IsFiniteSet(Slots)
  <2>1. IsFiniteSet({"first"} \cup {"second"})
    BY FS_Singleton, FS_Union
  <2>2. Slots = {"first"} \cup {"second"}
    BY DEF Slots
  <2> QED
    BY <2>1, <2>2
<1>2. IsFiniteSet(Workers \X Slots)
  BY <1>1, ParametersAreSane, FS_Product
<1>3. Uses(p) \in SUBSET (Workers \X Slots)
  BY DEF Uses
<1>4. IsFiniteSet(Uses(p))
  BY <1>2, <1>3, FS_Subset
<1> QED
  BY <1>4, FS_CardinalityType

UsesFirst(w, p) == peer[w] = p
UsesSecond(w, p) == race[w].rival = p /\ race[w].second \in {"pacing", "open"}

LEMMA UsesOfAWorker ==
  ASSUME NEW w \in Workers, NEW p
  PROVE  /\ <<w, "first">> \in Uses(p) <=> UsesFirst(w, p)
         /\ <<w, "second">> \in Uses(p) <=> UsesSecond(w, p)
BY DEF Uses, UsesFirst, UsesSecond, Slots

\* One worker's request at p begins, ends or stays.
LEMMA UsesChange ==
  ASSUME NEW w \in Workers, NEW p, OthersKept(w)
  PROVE  /\ UsesSecond(w, p)' = UsesSecond(w, p) =>
              Uses(p)' = IF UsesFirst(w, p)' THEN Uses(p) \cup {<<w, "first">>}
                                             ELSE Uses(p) \ {<<w, "first">>}
         /\ UsesFirst(w, p)' = UsesFirst(w, p) =>
              Uses(p)' = IF UsesSecond(w, p)' THEN Uses(p) \cup {<<w, "second">>}
                                              ELSE Uses(p) \ {<<w, "second">>}
<1>1. \A v \in Workers \ {w}, s \in Slots : <<v, s>> \in Uses(p)' <=> <<v, s>> \in Uses(p)
  BY DEF OthersKept, Uses
<1>2. /\ <<w, "first">> \in Uses(p)' <=> UsesFirst(w, p)'
      /\ <<w, "second">> \in Uses(p)' <=> UsesSecond(w, p)'
      /\ <<w, "first">> \in Uses(p) <=> UsesFirst(w, p)
      /\ <<w, "second">> \in Uses(p) <=> UsesSecond(w, p)
  BY DEF Uses, UsesFirst, UsesSecond, Slots
<1>3. Uses(p) \subseteq Workers \X Slots /\ Uses(p)' \subseteq Workers \X Slots
  BY DEF Uses
<1>4. ASSUME UsesSecond(w, p)' = UsesSecond(w, p)
      PROVE  Uses(p)' = IF UsesFirst(w, p)' THEN Uses(p) \cup {<<w, "first">>}
                                             ELSE Uses(p) \ {<<w, "first">>}
  <2> DEFINE after == IF UsesFirst(w, p)' THEN Uses(p) \cup {<<w, "first">>}
                                          ELSE Uses(p) \ {<<w, "first">>}
  <2>1. after \subseteq Workers \X Slots
    BY <1>3 DEF Slots
  <2>2. ASSUME NEW v \in Workers, NEW s \in Slots
        PROVE  <<v, s>> \in Uses(p)' <=> <<v, s>> \in after
    <3>1. CASE v # w
      BY <1>1, <3>1
    <3>2. CASE v = w /\ s = "second"
      BY <1>2, <1>4, <3>2
    <3>3. CASE v = w /\ s = "first"
      BY <1>2, <3>3
    <3> QED
      BY <3>1, <3>2, <3>3 DEF Slots
  <2> HIDE DEF after
  <2>3. Uses(p)' = after
    BY <1>3, <2>1, <2>2
  <2> QED
    BY <2>3 DEF after
<1>5. ASSUME UsesFirst(w, p)' = UsesFirst(w, p)
      PROVE  Uses(p)' = IF UsesSecond(w, p)' THEN Uses(p) \cup {<<w, "second">>}
                                             ELSE Uses(p) \ {<<w, "second">>}
  <2> DEFINE after == IF UsesSecond(w, p)' THEN Uses(p) \cup {<<w, "second">>}
                                          ELSE Uses(p) \ {<<w, "second">>}
  <2>1. after \subseteq Workers \X Slots
    BY <1>3 DEF Slots
  <2>2. ASSUME NEW v \in Workers, NEW s \in Slots
        PROVE  <<v, s>> \in Uses(p)' <=> <<v, s>> \in after
    <3>1. CASE v # w
      BY <1>1, <3>1
    <3>2. CASE v = w /\ s = "first"
      BY <1>2, <1>5, <3>2
    <3>3. CASE v = w /\ s = "second"
      BY <1>2, <3>3
    <3> QED
      BY <3>1, <3>2, <3>3 DEF Slots
  <2> HIDE DEF after
  <2>3. Uses(p)' = after
    BY <1>3, <2>1, <2>2
  <2> QED
    BY <2>3 DEF after
<1> QED
  BY <1>4, <1>5

\* How a count changes with what it counts.
Shift(before, after) ==
  IF before /\ ~after THEN -1 ELSE IF ~before /\ after THEN 1 ELSE 0

LEMMA CountFollows ==
  ASSUME NEW w \in Workers, NEW p \in Peers, OthersKept(w), Counted,
         \/ /\ UsesSecond(w, p)' = UsesSecond(w, p)
            /\ inFlight'[p] = inFlight[p] + Shift(UsesFirst(w, p), UsesFirst(w, p)')
         \/ /\ UsesFirst(w, p)' = UsesFirst(w, p)
            /\ inFlight'[p] = inFlight[p] + Shift(UsesSecond(w, p), UsesSecond(w, p)')
  PROVE  inFlight'[p] = Cardinality(Uses(p)')
<1>1. IsFiniteSet(Uses(p)) /\ Cardinality(Uses(p)) \in Nat /\ inFlight[p] = Cardinality(Uses(p))
  BY UsesAreFinite DEF Counted
<1>2. ASSUME NEW u, NEW before \in BOOLEAN, NEW after \in BOOLEAN, before <=> u \in Uses(p),
             inFlight'[p] = inFlight[p] + Shift(before, after),
             Uses(p)' = IF after THEN Uses(p) \cup {u} ELSE Uses(p) \ {u}
      PROVE  inFlight'[p] = Cardinality(Uses(p)')
  <2>1. CASE after
    <3>1. Cardinality(Uses(p)') = IF u \in Uses(p) THEN Cardinality(Uses(p)) ELSE Cardinality(Uses(p)) + 1
      BY <1>1, <1>2, <2>1, FS_AddElement
    <3> QED
      BY <1>1, <1>2, <2>1, <3>1 DEF Shift
  <2>2. CASE ~after
    <3>1. Cardinality(Uses(p)') = IF u \in Uses(p) THEN Cardinality(Uses(p)) - 1 ELSE Cardinality(Uses(p))
      BY <1>1, <1>2, <2>2, FS_RemoveElement
    <3> QED
      BY <1>1, <1>2, <2>2, <3>1 DEF Shift
  <2> QED
    BY <2>1, <2>2
<1>3. /\ UsesFirst(w, p) \in BOOLEAN /\ UsesSecond(w, p) \in BOOLEAN
      /\ UsesFirst(w, p)' \in BOOLEAN /\ UsesSecond(w, p)' \in BOOLEAN
  BY DEF UsesFirst, UsesSecond
<1>4. CASE /\ UsesSecond(w, p)' = UsesSecond(w, p)
           /\ inFlight'[p] = inFlight[p] + Shift(UsesFirst(w, p), UsesFirst(w, p)')
  <2>1. Uses(p)' = IF UsesFirst(w, p)' THEN Uses(p) \cup {<<w, "first">>}
                                       ELSE Uses(p) \ {<<w, "first">>}
    BY <1>4, UsesChange
  <2>2. UsesFirst(w, p) <=> <<w, "first">> \in Uses(p)
    BY UsesOfAWorker
  <2> QED
    BY <1>2, <1>3, <1>4, <2>1, <2>2
<1>5. CASE /\ UsesFirst(w, p)' = UsesFirst(w, p)
           /\ inFlight'[p] = inFlight[p] + Shift(UsesSecond(w, p), UsesSecond(w, p)')
  <2>1. Uses(p)' = IF UsesSecond(w, p)' THEN Uses(p) \cup {<<w, "second">>}
                                        ELSE Uses(p) \ {<<w, "second">>}
    BY <1>5, UsesChange
  <2>2. UsesSecond(w, p) <=> <<w, "second">> \in Uses(p)
    BY UsesOfAWorker
  <2> QED
    BY <1>2, <1>3, <1>5, <2>1, <2>2
<1> QED
  BY <1>4, <1>5

LEMMA CountStays ==
  ASSUME NEW w \in Workers, NEW p \in Peers, WorkerTypes, OthersKept(w), Counted,
         UsesFirst(w, p)' = UsesFirst(w, p), UsesSecond(w, p)' = UsesSecond(w, p),
         inFlight'[p] = inFlight[p]
  PROVE  inFlight'[p] = Cardinality(Uses(p)')
<1>1. Shift(UsesFirst(w, p), UsesFirst(w, p)') = 0
  BY DEF Shift
<1>2. inFlight'[p] = inFlight[p] + Shift(UsesFirst(w, p), UsesFirst(w, p)')
  BY <1>1 DEF WorkerTypes
<1> QED
  BY <1>2, CountFollows

LEMMA NextCounted ==
  ASSUME IInv, [Next]_vars, WorkerTypes', Holding'
  PROVE  Counted'
<1> USE DEF IInv
<1>1. CASE UNCHANGED <<inFlight, peer, race>>
  BY <1>1 DEF Counted, Uses
<1>2. ASSUME NEW w \in Workers, Moves(w), NEW p \in Peers
      PROVE  inFlight'[p] = Cardinality(Uses(p)')
  <2> USE DEF WorkerTypes
  <2>1. OthersKept(w) /\ inFlight[p] \in Int /\ NoPeer # p
    BY <1>2, MovesAreLocal, ParametersAreSane
  <2>2. HoldingAt(w) /\ race[w] \in Races
    BY DEF Holding, HoldingAt
  <2>3. CASE Claim(w) \/ Caught(w) \/ Writing(w) \/ Counting(w) \/ GraceCancelled(w)
    <3>1. /\ UsesFirst(w, p)' = UsesFirst(w, p) /\ UsesSecond(w, p)' = UsesSecond(w, p)
          /\ inFlight'[p] = inFlight[p]
      BY <2>2, <2>3 DEF UsesFirst, UsesSecond, Claim, Caught, Writing, Counting, GraceCancelled, jobVars,
           Races
    <3> QED
      BY <2>1, <3>1, CountStays
  <2>4. CASE Ending(w) \/ Blaming(w)
    <3>1. Open(race[w]) = {} /\ race[w].second \notin {"pacing", "open"}
      BY <2>4 DEF Ending, Blaming, Open, Slots
    <3>2. peer'[w] = NoPeer /\ race'[w] = NoRace
      BY <2>4 DEF Ending, Blaming, EndsJob
    <3>3. inFlight'[p] = IF peer[w] = p THEN inFlight[p] - 1 ELSE inFlight[p]
      BY <2>1, <2>4 DEF Ending, Blaming, EndsJob
    <3>4. UsesSecond(w, p)' = UsesSecond(w, p) /\ ~UsesFirst(w, p)'
      BY <2>1, <3>1, <3>2 DEF UsesFirst, UsesSecond, NoRace
    <3> QED
      BY <1>2, <2>1, <3>3, <3>4, CountFollows DEF Shift, UsesFirst
  <2>5. CASE Picking(w)
    <3>1. peer[w] = NoPeer /\ UNCHANGED race
      BY <2>2, <2>5 DEF Picking, HoldingAt, Serving
    <3>2. inFlight'[p] = IF peer'[w] = p THEN inFlight[p] + 1 ELSE inFlight[p]
      BY <2>1, <2>5 DEF Picking
    <3>3. UsesSecond(w, p)' = UsesSecond(w, p) /\ ~UsesFirst(w, p)
      BY <2>1, <3>1 DEF UsesFirst, UsesSecond
    <3> QED
      BY <1>2, <2>1, <3>2, <3>3, CountFollows DEF Shift, UsesFirst
  <2>6. CASE Asking(w) \/ Receiving(w)
    <3>1. race[w].second \notin {"pacing", "open"}
      <4>1. CASE Asking(w)
        <5>1. race[w] = NoRace
          BY <2>2, <4>1 DEF Asking, HoldingAt, Racing
        <5> QED
          BY <5>1 DEF NoRace
      <4>2. CASE Receiving(w)
        BY <4>2 DEF Receiving, Open, Slots
      <4> QED
        BY <2>6, <4>1, <4>2
    <3>2. UNCHANGED <<inFlight, peer>>
      BY <2>6 DEF Asking, Receiving
    <3>3. race'[w].second \notin {"pacing", "open"}
      <4>1. CASE UNCHANGED race
        BY <3>1, <4>1
      <4>2. CASE race' = [race EXCEPT ![w] = NoRace]
        BY <4>2 DEF NoRace
      <4>3. CASE \E alt \in Peers :
                   race' = [race EXCEPT ![w] = [NoRace EXCEPT !.rival = alt, !.first = "open"]]
        BY <4>3 DEF NoRace
      <4> QED
        BY <2>6, <4>1, <4>2, <4>3 DEF Asking, Receiving
    <3>4. UsesSecond(w, p)' = UsesSecond(w, p) /\ UsesFirst(w, p)' = UsesFirst(w, p)
      BY <3>1, <3>2, <3>3 DEF UsesFirst, UsesSecond
    <3> QED
      BY <2>1, <3>2, <3>4, CountStays
  <2>7. CASE HedgeStarts(w)
    <3>1. race[w].second = "idle" /\ race'[w].second = "pacing" /\ race'[w].rival = race[w].rival
      BY <2>2, <2>7 DEF HedgeStarts, Races
    <3>2. inFlight'[p] = IF race[w].rival = p THEN inFlight[p] + 1 ELSE inFlight[p]
      BY <2>7 DEF HedgeStarts
    <3>3. /\ UsesFirst(w, p)' = UsesFirst(w, p) /\ ~UsesSecond(w, p)
          /\ UsesSecond(w, p)' <=> race[w].rival = p
      BY <2>7, <3>1 DEF HedgeStarts, UsesFirst, UsesSecond
    <3> QED
      BY <1>2, <2>1, <3>2, <3>3, CountFollows DEF Shift
  <2>8. ASSUME NEW q \in Races, Decided(w, q)
        PROVE  race'[w].second = q.second
    BY <2>8 DEF Decided, Races
  <2>9. CASE SecondPaced(w)
    <3> DEFINE q == [race[w] EXCEPT !.second = "cancelled"]
    <3>1. q \in Races /\ q.second = "cancelled"
      BY <2>2 DEF Races, SlotStates
    <3>2. race'[w].rival = race[w].rival /\ UNCHANGED peer
      BY <1>2, <2>9, RacesStayRaces DEF RaceStep, SecondPaced
    <3>3. CASE aborted \/ pc[w] = "settling"
      <4>1. race'[w].second = "cancelled"
        <5>1. CASE race' = [race EXCEPT ![w].second = "cancelled"]
          BY <2>2, <5>1 DEF Races
        <5>2. CASE Decided(w, q)
          <6> HIDE DEF q
          <6> QED
            BY <2>8, <3>1, <5>2
        <5> QED
          BY <2>9, <3>3, <5>1, <5>2 DEF SecondPaced
      <4>2. inFlight'[p] = IF race[w].rival = p THEN inFlight[p] - 1 ELSE inFlight[p]
        BY <2>9, <3>3 DEF SecondPaced
      <4>3. /\ UsesFirst(w, p)' = UsesFirst(w, p) /\ ~UsesSecond(w, p)'
            /\ UsesSecond(w, p) <=> race[w].rival = p
        BY <2>9, <3>2, <4>1 DEF SecondPaced, UsesFirst, UsesSecond
      <4> QED
        BY <1>2, <2>1, <4>2, <4>3, CountFollows DEF Shift
    <3>4. CASE ~(aborted \/ pc[w] = "settling")
      <4>1. race'[w].second = "open" /\ race[w].second = "pacing" /\ UNCHANGED inFlight
        BY <2>2, <2>9, <3>4 DEF SecondPaced, Races
      <4>2. UsesSecond(w, p)' = UsesSecond(w, p) /\ UsesFirst(w, p)' = UsesFirst(w, p)
        BY <3>2, <4>1 DEF UsesFirst, UsesSecond
      <4> QED
        BY <2>1, <4>1, <4>2, CountStays
    <3> QED
      BY <3>3, <3>4
  <2>10. CASE \E s \in Slots : SlotSettles(w, s)
    <3>1. PICK s \in Slots : SlotSettles(w, s)
      BY <2>10
    <3>2. PICK kind \in Answers(Asked(w, s), Chunk(w)) \cup {"cancelled"} :
            IF pc[w] = "settling" THEN race' = [race EXCEPT ![w][s] = kind] /\ UNCHANGED pc
                                  ELSE Decided(w, [race[w] EXCEPT ![s] = kind])
      BY <3>1 DEF SlotSettles
    <3> DEFINE q == [race[w] EXCEPT ![s] = kind]
    <3>3. kind \in SlotStates /\ kind \notin {"pacing", "open"}
      BY <3>2, AnswersAreStates
    <3>4. q \in Races /\ q[s] = kind /\ \A t \in Slots \ {s} : q[t] = race[w][t]
      BY <2>2, <3>3, SlotsOfARace
    <3>5. race'[w].second = q.second
      <4>1. CASE pc[w] = "settling"
        BY <3>2, <4>1
      <4>2. CASE Decided(w, q)
        <5> HIDE DEF q
        <5> QED
          BY <2>8, <3>4, <4>2
      <4> QED
        BY <3>2, <4>1, <4>2
    <3> HIDE DEF q
    <3>6. race'[w].rival = race[w].rival /\ UNCHANGED peer
      BY <1>2, <2>10, <3>1, RacesStayRaces DEF RaceStep, SlotSettles
    <3>7. CASE s = "first"
      <4>1. q.second = race[w].second
        <5>1. "second" \in Slots \ {s}
          BY <3>7 DEF Slots
        <5>2. q["second"] = race[w]["second"]
          BY <3>4, <5>1
        <5> QED
          BY <5>2
      <4>2. UNCHANGED inFlight
        BY <3>1, <3>7 DEF SlotSettles
      <4>3. UsesSecond(w, p)' = UsesSecond(w, p) /\ UsesFirst(w, p)' = UsesFirst(w, p)
        BY <3>5, <3>6, <4>1 DEF UsesFirst, UsesSecond
      <4> QED
        BY <2>1, <4>2, <4>3, CountStays
    <3>8. CASE s = "second"
      <4>1. race'[w].second = kind /\ race[w].second = "open"
        BY <3>1, <3>4, <3>5, <3>8 DEF SlotSettles
      <4>2. inFlight'[p] = IF race[w].rival = p THEN inFlight[p] - 1 ELSE inFlight[p]
        BY <3>1, <3>8 DEF SlotSettles
      <4>3. /\ UsesFirst(w, p)' = UsesFirst(w, p) /\ ~UsesSecond(w, p)'
            /\ UsesSecond(w, p) <=> race[w].rival = p
        BY <3>3, <3>6, <4>1 DEF UsesFirst, UsesSecond
      <4> QED
        BY <1>2, <2>1, <4>2, <4>3, CountFollows DEF Shift
    <3> QED
      BY <3>7, <3>8 DEF Slots
  <2> QED
    BY <1>2, <2>3, <2>4, <2>5, <2>6, <2>7, <2>9, <2>10 DEF Moves
<1>3. CASE CallAlone
  BY <1>1, <1>3, CallAloneIsQuiet DEF Quiet
<1>4. CASE StartWorkers \/ Cancel
  BY <1>1, <1>4 DEF StartWorkers, Cancel
<1> QED
  BY <1>2, <1>3, <1>4, NextKinds DEF Counted

-----------------------------------------------------------------------------
(* The pacing queues.                                                      *)

\* Queued, for one peer.
QueuedAt(p) ==
  /\ \A i \in 1 .. Len(pace[p]) : Waits(pace[p][i], p)
  /\ \A i, j \in 1 .. Len(pace[p]) : pace[p][i] = pace[p][j] => i = j

\* Its entries keep waiting, and it is as it was, ...
LEMMA QueueStays ==
  ASSUME NEW p, QueuedAt(p), NEW E, pace[p] \in Seq(E), pace'[p] = pace[p],
         \A u \in E : Waits(u, p) => Waits(u, p)'
  PROVE  QueuedAt(p)'
<1>1. \A i \in 1 .. Len(pace[p]) : pace[p][i] \in E
  OBVIOUS
<1>2. ASSUME NEW i \in 1 .. Len(pace'[p])
      PROVE  Waits(pace[p][i], p)'
  <2>1. PICK u \in E : u = pace[p][i] /\ Waits(u, p)
    BY <1>1, <1>2 DEF QueuedAt
  <2>2. pace'[p][i] = u /\ Waits(u, p)'
    BY <2>1
  <2> QED
    BY <2>2 DEF Waits
<1> QED
  BY <1>2 DEF QueuedAt

\* ... or its head leaves, ...
LEMMA QueueAdvances ==
  ASSUME NEW p, QueuedAt(p), NEW E, pace[p] \in Seq(E), pace[p] # <<>>, pace'[p] = Tail(pace[p]),
         \A u \in E : Waits(u, p) => u = Head(pace[p]) \/ Waits(u, p)'
  PROVE  QueuedAt(p)'
<1> DEFINE s == pace[p]  t == pace'[p]
<1>1. Len(t) = Len(s) - 1 /\ Len(s) \in Nat \ {0} /\ Head(s) = s[1]
  OBVIOUS
<1>2. ASSUME NEW i \in 1 .. Len(t)
      PROVE  t[i] = s[i + 1] /\ i + 1 \in 1 .. Len(s) /\ i + 1 # 1
  BY <1>1, <1>2
<1>3. ASSUME NEW i \in 1 .. Len(t)
      PROVE  Waits(pace[p][i], p)'
  <2>1. PICK u \in E : u = s[i + 1] /\ u # Head(s) /\ Waits(u, p)
    BY <1>1, <1>2, <1>3 DEF QueuedAt
  <2>2. pace'[p][i] = u /\ Waits(u, p)'
    BY <1>2, <1>3, <2>1
  <2> QED
    BY <2>2 DEF Waits
<1>4. ASSUME NEW i \in 1 .. Len(t), NEW j \in 1 .. Len(t), t[i] = t[j]
      PROVE  i = j
  <2>1. i + 1 = j + 1
    BY <1>2, <1>4 DEF QueuedAt
  <2> QED
    BY <1>1, <2>1
<1> QED
  BY <1>3, <1>4 DEF QueuedAt

\* ... or somebody who did not wait there joins it.
LEMMA QueueGrows ==
  ASSUME NEW p, QueuedAt(p), NEW E, pace[p] \in Seq(E), NEW u \in E, pace'[p] = Append(pace[p], u),
         ~Waits(u, p), Waits(u, p)',
         \A v \in E : Waits(v, p) => Waits(v, p)'
  PROVE  QueuedAt(p)'
<1> DEFINE s == pace[p]  t == pace'[p]
<1>1. /\ Len(t) = Len(s) + 1 /\ Len(s) \in Nat /\ t[Len(t)] = u
      /\ \A i \in 1 .. Len(s) : t[i] = s[i] /\ t[i] # u
  BY DEF QueuedAt
<1>2. \A i \in 1 .. Len(t) : i = Len(t) \/ i \in 1 .. Len(s)
  BY <1>1
<1>3. ASSUME NEW i \in 1 .. Len(t)
      PROVE  Waits(pace[p][i], p)'
  <2>1. CASE i = Len(t)
    BY <1>1, <2>1 DEF Waits
  <2>2. CASE i \in 1 .. Len(s)
    <3>1. PICK v \in E : v = s[i] /\ Waits(v, p)
      BY <2>2 DEF QueuedAt
    <3>2. pace'[p][i] = v /\ Waits(v, p)'
      BY <1>1, <2>2, <3>1
    <3> QED
      BY <3>2 DEF Waits
  <2> QED
    BY <1>2, <1>3, <2>1, <2>2
<1>4. ASSUME NEW i \in 1 .. Len(t), NEW j \in 1 .. Len(t), t[i] = t[j]
      PROVE  i = j
  BY <1>1, <1>2, <1>4 DEF QueuedAt
<1> QED
  BY <1>3, <1>4 DEF QueuedAt

WaitsFirst(w, p) == pc[w] = "pacing" /\ peer[w] = p
WaitsSecond(w, p) == race[w].second = "pacing" /\ race[w].rival = p

LEMMA WaitsOfAWorker ==
  ASSUME NEW w \in Workers, NEW p
  PROVE  /\ Waits(<<w, "first">>, p) <=> WaitsFirst(w, p)
         /\ Waits(<<w, "second">>, p) <=> WaitsSecond(w, p)
         /\ Waits(<<w, "first">>, p)' <=> WaitsFirst(w, p)'
         /\ Waits(<<w, "second">>, p)' <=> WaitsSecond(w, p)'
BY DEF Waits, WaitsFirst, WaitsSecond

\* A step of w takes at most one place, x, out of a queue.
LEMMA OthersWait ==
  ASSUME NEW w \in Workers, NEW p, OthersKept(w), NEW x,
         WaitsFirst(w, p) => x = <<w, "first">> \/ WaitsFirst(w, p)',
         WaitsSecond(w, p) => x = <<w, "second">> \/ WaitsSecond(w, p)'
  PROVE  \A u \in Workers \X Slots : Waits(u, p) => u = x \/ Waits(u, p)'
<1> SUFFICES ASSUME NEW v \in Workers, NEW s \in Slots, Waits(<<v, s>>, p), <<v, s>> # x
             PROVE  Waits(<<v, s>>, p)'
  OBVIOUS
<1>1. CASE v = w
  <2>1. s = "first" \/ s = "second"
    BY DEF Slots
  <2> QED
    BY <1>1, <2>1, WaitsOfAWorker
<1>2. CASE v # w
  <2>1. /\ peer'[v] = peer[v] /\ race'[v] = race[v]
        /\ pc'[v] = pc[v] \/ (pc[v] = "waiting" /\ pc'[v] = "claim")
    BY <1>2 DEF OthersKept
  <2> QED
    BY <2>1 DEF Waits
<1> QED
  BY <1>1, <1>2

\* No set holds everything.
LEMMA SomethingElse ==
  ASSUME NEW S
  PROVE  \E x : x \notin S
<1>1. {y \in S : y \notin y} \notin S
  OBVIOUS
<1> QED
  BY <1>1

\* The ways in which a step of w may treat the queue at p.
LEMMA QueueOfAMove ==
  ASSUME NEW w \in Workers, NEW p \in Peers, WorkerTypes, OthersKept(w), QueuedAt(p),
         \/ /\ pace'[p] = pace[p]
            /\ WaitsFirst(w, p) => WaitsFirst(w, p)'
            /\ WaitsSecond(w, p) => WaitsSecond(w, p)'
         \/ /\ AtHead(p, w, "first") /\ pace'[p] = Tail(pace[p])
            /\ WaitsSecond(w, p) => WaitsSecond(w, p)'
         \/ /\ AtHead(p, w, "second") /\ pace'[p] = Tail(pace[p])
            /\ WaitsFirst(w, p) => WaitsFirst(w, p)'
         \/ /\ pace'[p] = Append(pace[p], <<w, "first">>) /\ ~WaitsFirst(w, p) /\ WaitsFirst(w, p)'
            /\ WaitsSecond(w, p) => WaitsSecond(w, p)'
         \/ /\ pace'[p] = Append(pace[p], <<w, "second">>) /\ ~WaitsSecond(w, p) /\ WaitsSecond(w, p)'
            /\ WaitsFirst(w, p) => WaitsFirst(w, p)'
  PROVE  QueuedAt(p)'
<1> DEFINE E == Workers \X Slots
<1>1. pace[p] \in Seq(E) /\ <<w, "first">> \in E /\ <<w, "second">> \in E
  BY DEF WorkerTypes, Slots
<1>2. CASE /\ pace'[p] = pace[p]
           /\ WaitsFirst(w, p) => WaitsFirst(w, p)'
           /\ WaitsSecond(w, p) => WaitsSecond(w, p)'
  <2>1. PICK x : x \notin E
    BY SomethingElse
  <2>2. \A u \in E : Waits(u, p) => Waits(u, p)'
    BY <1>2, <2>1, OthersWait
  <2> QED
    BY <1>1, <1>2, <2>2, QueueStays
<1>3. ASSUME NEW s \in Slots, AtHead(p, w, s), pace'[p] = Tail(pace[p]),
             \A u \in E : Waits(u, p) => u = <<w, s>> \/ Waits(u, p)'
      PROVE  QueuedAt(p)'
  <2>1. pace[p] # <<>> /\ Head(pace[p]) = <<w, s>>
    BY <1>3 DEF AtHead
  <2> QED
    BY <1>1, <1>3, <2>1, QueueAdvances
<1>4. ASSUME NEW s \in Slots, pace'[p] = Append(pace[p], <<w, s>>),
             ~Waits(<<w, s>>, p), Waits(<<w, s>>, p)',
             \A u \in E : Waits(u, p) => u = <<w, s>> \/ Waits(u, p)'
      PROVE  QueuedAt(p)'
  <2>1. \A u \in E : Waits(u, p) => Waits(u, p)'
    BY <1>4
  <2> QED
    BY <1>1, <1>4, <2>1, QueueGrows
<1>5. "first" \in Slots /\ "second" \in Slots
  BY DEF Slots
<1> HIDE DEF E
<1>6. ASSUME WaitsSecond(w, p) => WaitsSecond(w, p)'
      PROVE  \A u \in E : Waits(u, p) => u = <<w, "first">> \/ Waits(u, p)'
  BY <1>6, OthersWait DEF E
<1>7. ASSUME WaitsFirst(w, p) => WaitsFirst(w, p)'
      PROVE  \A u \in E : Waits(u, p) => u = <<w, "second">> \/ Waits(u, p)'
  BY <1>7, OthersWait DEF E
<1> QED
  BY <1>2, <1>3, <1>4, <1>5, <1>6, <1>7, WaitsOfAWorker

\* When the first request of a race settles, the second is as it was.
LEMMA FirstSettles ==
  ASSUME WorkerTypes, NEW w \in Workers, SlotSettles(w, "first")
  PROVE  race'[w].second = race[w].second
<1>1. race[w] \in Races
  BY DEF WorkerTypes
<1>2. PICK kind \in Answers(Asked(w, "first"), Chunk(w)) \cup {"cancelled"} :
        IF pc[w] = "settling" THEN race' = [race EXCEPT ![w]["first"] = kind] /\ UNCHANGED pc
                              ELSE Decided(w, [race[w] EXCEPT !["first"] = kind])
  BY DEF SlotSettles
<1> DEFINE q == [race[w] EXCEPT !.first = kind]
<1>3. q.second = race[w].second /\ q \in Races
  <2>1. kind \in SlotStates
    BY <1>2, AnswersAreStates
  <2> QED
    BY <1>1, <2>1 DEF Races
<1>4. CASE pc[w] = "settling"
  <2>1. race'[w] = q
    BY <1>2, <1>4 DEF WorkerTypes
  <2> QED
    BY <1>3, <2>1
<1>5. CASE Decided(w, q)
  <2>1. race'[w] = [q EXCEPT !.result = Verdict(q)]
    BY <1>5 DEF Decided, WorkerTypes
  <2> HIDE DEF q
  <2> QED
    BY <1>3, <2>1 DEF Races
<1> QED
  BY <1>2, <1>4, <1>5

LEMMA NextQueued ==
  ASSUME IInv, [Next]_vars, WorkerTypes', Holding'
  PROVE  Queued'
<1> USE DEF IInv
<1>1. CASE UNCHANGED <<pace, peer, race>> /\ \A w \in Workers : pc'[w] = "pacing" <=> pc[w] = "pacing"
  <2>1. ASSUME NEW p \in Peers
        PROVE  QueuedAt(p)'
    <3>1. \A u \in Workers \X Slots : Waits(u, p) => Waits(u, p)'
      BY <1>1 DEF Waits
    <3>2. QueuedAt(p) /\ pace[p] \in Seq(Workers \X Slots) /\ pace'[p] = pace[p]
      BY <1>1 DEF Queued, QueuedAt, WorkerTypes
    <3> QED
      BY <3>1, <3>2, QueueStays
  <2> QED
    BY <2>1 DEF Queued, QueuedAt
<1>2. ASSUME NEW w \in Workers, Moves(w), NEW p \in Peers
      PROVE  QueuedAt(p)'
  <2> USE DEF WorkerTypes
  <2>1. OthersKept(w) /\ NoPeer # p /\ QueuedAt(p)
    BY <1>2, MovesAreLocal, ParametersAreSane DEF Queued, QueuedAt
  <2>2. HoldingAt(w) /\ race[w] \in Races /\ WorkerTypes
    BY DEF Holding, HoldingAt
  <2>3. race[w] = NoRace => ~WaitsSecond(w, p)
    BY DEF NoRace, WaitsSecond
  <2>4. CASE Claim(w) \/ Caught(w) \/ Writing(w) \/ Counting(w) \/ Blaming(w) \/ Receiving(w)
    <3>1. pace'[p] = pace[p] /\ ~WaitsFirst(w, p)
      BY <2>4 DEF Claim, Caught, Writing, Counting, Blaming, Receiving, WaitsFirst
    <3>2. ~WaitsSecond(w, p)
      <4>1. CASE Open(race[w]) = {}
        BY <4>1 DEF Open, WaitsSecond, Slots
      <4>2. CASE pc[w] \notin Racing
        BY <2>2, <2>3, <4>2 DEF HoldingAt
      <4> QED
        BY <2>4, <4>1, <4>2 DEF Claim, Caught, Writing, Counting, Blaming, Receiving, Racing
    <3> QED
      BY <2>1, <2>2, <3>1, <3>2, QueueOfAMove
  <2>5. CASE Ending(w) \/ Asking(w)
    <3>1. ~WaitsSecond(w, p)
      <4>1. CASE Open(race[w]) = {}
        BY <4>1 DEF Open, WaitsSecond, Slots
      <4>2. CASE pc[w] \notin Racing
        BY <2>2, <2>3, <4>2 DEF HoldingAt
      <4> QED
        BY <2>5, <4>1, <4>2 DEF Ending, Asking, Racing
    <3>2. CASE pc[w] # "pacing"
      <4>1. pace'[p] = pace[p] /\ ~WaitsFirst(w, p)
        BY <2>5, <3>2 DEF Ending, Asking, WaitsFirst
      <4> QED
        BY <2>1, <2>2, <3>1, <4>1, QueueOfAMove
    <3>3. CASE pc[w] = "pacing" /\ peer[w] = p
      <4>1. AtHead(p, w, "first") /\ pace'[p] = Tail(pace[p])
        BY <2>5, <3>3 DEF Ending, Asking, Released
      <4> QED
        BY <2>1, <2>2, <3>1, <4>1, QueueOfAMove
    <3>4. CASE pc[w] = "pacing" /\ peer[w] # p
      <4>1. pace'[p] = pace[p] /\ ~WaitsFirst(w, p)
        BY <2>5, <3>4 DEF Ending, Asking, Released, WaitsFirst
      <4> QED
        BY <2>1, <2>2, <3>1, <4>1, QueueOfAMove
    <3> QED
      BY <3>2, <3>3, <3>4
  <2>6. CASE Picking(w)
    <3>1. ~WaitsFirst(w, p) /\ ~WaitsSecond(w, p) /\ pc'[w] = "pacing"
      BY <2>2, <2>3, <2>6 DEF Picking, HoldingAt, Racing, WaitsFirst, Goes
    <3>2. IF peer'[w] = p THEN pace'[p] = Append(pace[p], <<w, "first">>) ELSE pace'[p] = pace[p]
      BY <2>6 DEF Picking
    <3>3. peer'[w] = p => WaitsFirst(w, p)'
      BY <3>1 DEF WaitsFirst
    <3> QED
      BY <2>1, <2>2, <3>1, <3>2, <3>3, QueueOfAMove
  <2>7. CASE HedgeStarts(w)
    <3>1. race[w].second = "idle" /\ race'[w].second = "pacing" /\ race'[w].rival = race[w].rival
      BY <2>2, <2>7 DEF HedgeStarts, Races
    <3>2. ~WaitsFirst(w, p) /\ ~WaitsSecond(w, p) /\ (race[w].rival = p => WaitsSecond(w, p)')
      BY <2>7, <3>1 DEF HedgeStarts, WaitsFirst, WaitsSecond
    <3>3. IF race[w].rival = p THEN pace'[p] = Append(pace[p], <<w, "second">>)
                               ELSE pace'[p] = pace[p]
      BY <2>7 DEF HedgeStarts
    <3> QED
      BY <2>1, <2>2, <3>2, <3>3, QueueOfAMove
  <2>8. CASE SecondPaced(w)
    <3>1. ~WaitsFirst(w, p) /\ (WaitsSecond(w, p) <=> race[w].rival = p)
      BY <2>8 DEF SecondPaced, WaitsFirst, WaitsSecond
    <3>2. CASE race[w].rival = p
      <4>1. AtHead(p, w, "second") /\ pace'[p] = Tail(pace[p])
        BY <2>8, <3>2 DEF SecondPaced, Released
      <4> QED
        BY <2>1, <2>2, <3>1, <4>1, QueueOfAMove
    <3>3. CASE race[w].rival # p
      <4>1. pace'[p] = pace[p]
        BY <2>8, <3>3 DEF SecondPaced, Released
      <4> QED
        BY <2>1, <2>2, <3>1, <3>3, <4>1, QueueOfAMove
    <3> QED
      BY <3>2, <3>3
  <2>9. CASE GraceCancelled(w)
    <3>1. pace'[p] = pace[p] /\ ~WaitsFirst(w, p) /\ ~WaitsSecond(w, p)
      BY <2>9 DEF GraceCancelled, WaitsFirst, WaitsSecond
    <3> QED
      BY <2>1, <2>2, <3>1, QueueOfAMove
  <2>10. CASE \E s \in Slots : SlotSettles(w, s)
    <3>1. PICK s \in Slots : SlotSettles(w, s)
      BY <2>10
    <3>2. pace'[p] = pace[p] /\ ~WaitsFirst(w, p) /\ race[w][s] = "open"
      BY <3>1 DEF SlotSettles, WaitsFirst
    <3>3. CASE s = "second"
      <4>1. ~WaitsSecond(w, p)
        BY <3>2, <3>3 DEF WaitsSecond
      <4> QED
        BY <2>1, <2>2, <3>2, <4>1, QueueOfAMove
    <3>4. CASE s = "first"
      <4>1. race'[w].second = race[w].second /\ race'[w].rival = race[w].rival
        BY <1>2, <2>2, <3>1, <3>4, FirstSettles, RacesStayRaces DEF RaceStep
      <4>2. WaitsSecond(w, p) => WaitsSecond(w, p)'
        BY <4>1 DEF WaitsSecond
      <4> QED
        BY <2>1, <2>2, <3>2, <4>2, QueueOfAMove
    <3> QED
      BY <3>3, <3>4 DEF Slots
  <2> QED
    BY <1>2, <2>4, <2>5, <2>6, <2>7, <2>8, <2>9, <2>10 DEF Moves
<1>3. CASE CallAlone
  BY <1>1, <1>3, CallAloneIsQuiet DEF Quiet
<1>4. CASE StartWorkers
  <2>1. \A w \in Workers : pc[w] = "ended" /\ pc'[w] \in {"claim", "ended"}
    BY <1>4 DEF Staffed, StartWorkers
  <2> QED
    BY <1>1, <1>4, <2>1 DEF StartWorkers
<1>5. CASE Cancel
  <2>1. \A w \in Workers : pc'[w] = "pacing" <=> pc[w] = "pacing"
    BY <1>5 DEF Cancel, Woken, WorkerTypes
  <2> QED
    BY <1>1, <1>5, <2>1 DEF Cancel
<1> QED
  BY <1>2, <1>3, <1>4, <1>5, NextKinds DEF Queued, QueuedAt

-----------------------------------------------------------------------------
(* Why workers stop, and why they give up.                                 *)

\* What Stopping and GivingUp say of one worker's race.
RaceSound(w) ==
  /\ pc[w] = "racing" => race[w].result = "none" /\ (race[w].first = "cancelled" => aborted)
  /\ pc[w] = "settling" /\ race[w].result = "cancelled" => aborted
  /\ pc[w] = "racing" /\ race[w].first \in Failures => MayFail(w)
  /\ pc[w] = "settling" /\ race[w].result \in Failures => MayFail(w)

LEMMA RaceStepIsSound ==
  ASSUME WorkerTypes, Holding, NEW w \in Workers, RaceStep(w), RaceSound(w)
  PROVE  RaceSound(w)'
<1> USE DEF WorkerTypes
<1>1. /\ aborted' = aborted /\ (MayFail(w)' <=> MayFail(w))
  BY DEF RaceStep, HedgeStarts, SecondPaced, SlotSettles, GraceCancelled, MayFail, Chunk, callVars, stopVars
<1>2. race[w] \in Races /\ "cancelled" \notin Failures /\ "none" \notin Failures /\ "good" \notin Failures
  BY DEF Failures
<1>3. ASSUME NEW q \in Races, q.first \notin {"idle", "pacing"}, Decided(w, q), pc[w] = "racing",
             q.first = "cancelled" => aborted, q.first \in Failures => MayFail(w)
      PROVE  RaceSound(w)'
  <2>1. race'[w].first = q.first /\ race'[w].result = Verdict(q)
    BY <1>3 DEF Decided, Races
  <2>2. IF Verdict(q) = "none" THEN pc'[w] = pc[w] ELSE pc'[w] = "settling"
    BY <1>3 DEF Decided, Goes
  <2>3. Verdict(q) \notin {"none", "good"} => Verdict(q) = q.first
    BY <1>3, VerdictOfARace
  <2> QED
    BY <1>1, <1>2, <1>3, <2>1, <2>2, <2>3 DEF RaceSound
<1>4. ASSUME UNCHANGED pc, race'[w].result = race[w].result,
             pc[w] = "settling" \/ race'[w].first = race[w].first
      PROVE  RaceSound(w)'
  BY <1>1, <1>4 DEF RaceSound
<1>5. CASE HedgeStarts(w)
  <2>1. race'[w].first = race[w].first /\ race'[w].result = race[w].result
    BY <1>2, <1>5 DEF HedgeStarts, Races
  <2> QED
    BY <1>4, <1>5, <2>1 DEF HedgeStarts
<1>6. CASE SecondPaced(w)
  <2> DEFINE q == [race[w] EXCEPT !.second = "cancelled"]
  <2>1. q \in Races /\ q.first = race[w].first /\ q.result = race[w].result
    BY <1>2 DEF Races, SlotStates
  <2>2. race[w].first \notin {"idle", "pacing"}
    BY <1>6 DEF SecondPaced, Holding, Racing
  <2>3. CASE Decided(w, q) /\ pc[w] = "racing"
    <3> HIDE DEF q
    <3> QED
      BY <1>3, <2>1, <2>2, <2>3 DEF RaceSound
  <2>4. CASE race' = [race EXCEPT ![w].second = "cancelled"] /\ UNCHANGED pc
    <3>1. race'[w] = q
      BY <2>4
    <3> QED
      BY <1>4, <2>1, <2>4, <3>1
  <2>5. CASE race' = [race EXCEPT ![w].second = "open"] /\ UNCHANGED pc
    <3>1. race'[w].first = race[w].first /\ race'[w].result = race[w].result
      BY <1>2, <2>5 DEF Races
    <3> QED
      BY <1>4, <2>5, <3>1
  <2> QED
    BY <1>6, <2>3, <2>4, <2>5 DEF SecondPaced
<1>7. CASE \E s \in Slots : SlotSettles(w, s)
  <2>1. PICK s \in Slots : SlotSettles(w, s)
    BY <1>7
  <2>2. PICK kind \in Answers(Asked(w, s), Chunk(w)) \cup {"cancelled"} :
          /\ kind = "cancelled" => aborted \/ pc[w] = "settling"
          /\ IF pc[w] = "settling" THEN race' = [race EXCEPT ![w][s] = kind] /\ UNCHANGED pc
                                   ELSE Decided(w, [race[w] EXCEPT ![s] = kind])
    BY <2>1 DEF SlotSettles
  <2> DEFINE q == [race[w] EXCEPT ![s] = kind]
  <2>3. /\ kind \in SlotStates /\ kind \notin {"idle", "pacing"}
        /\ kind \in Failures => Asked(w, s) \notin Reliable \/ Chunk(w) \notin Holds[Asked(w, s)]
    BY <2>2, AnswersAreStates DEF Failures
  <2>4. /\ q \in Races /\ q.result = race[w].result
        /\ q[s] = kind /\ \A t \in Slots \ {s} : q[t] = race[w][t]
    BY <1>2, <2>3, SlotsOfARace
  <2>5. CASE pc[w] = "settling"
    <3>1. race'[w] = q /\ UNCHANGED pc
      BY <2>2, <2>5
    <3> QED
      BY <1>4, <2>4, <2>5, <3>1
  <2>6. CASE pc[w] = "racing"
    <3>1. Decided(w, q) /\ (kind = "cancelled" => aborted)
      BY <2>2, <2>6
    <3> HIDE DEF q
    <3>2. CASE s = "first"
      <4>1. q.first = kind
        BY <2>4, <3>2
      <4>2. kind \in Failures => MayFail(w)
        BY <2>3, <3>2 DEF MayFail, Asked
      <4> QED
        BY <1>3, <2>3, <2>4, <2>6, <3>1, <4>1, <4>2
    <3>3. CASE s = "second"
      <4>1. "first" \in Slots \ {s}
        BY <3>3 DEF Slots
      <4>2. q["first"] = race[w]["first"]
        BY <2>4, <4>1
      <4>3. q.first = race[w].first /\ race[w].first \notin {"idle", "pacing"}
        BY <2>6, <4>2 DEF Holding, Racing
      <4> QED
        BY <1>3, <2>4, <2>6, <3>1, <4>3 DEF RaceSound
    <3> QED
      BY <3>2, <3>3 DEF Slots
  <2> QED
    BY <2>1, <2>5, <2>6 DEF SlotSettles
<1>8. CASE GraceCancelled(w)
  <2>1. race'[w].result = "cancelled" /\ pc'[w] = "settling" /\ aborted
    BY <1>2, <1>8 DEF GraceCancelled, Races, Goes
  <2> QED
    BY <1>1, <1>2, <2>1 DEF RaceSound
<1> QED
  BY <1>5, <1>6, <1>7, <1>8 DEF RaceStep

\* A step of a worker never takes back a reason to stop.
LEMMA ReasonsStay ==
  ASSUME Holding, NEW w \in Workers, Moves(w)
  PROVE  /\ UNCHANGED <<scheduled, cancelled, outcome, inventory, exhausted, left>>
         /\ aborted => aborted'
         /\ \/ UNCHANGED <<aborted, stopped, firstError>>
            \/ /\ Caught(w) /\ aborted' = TRUE /\ stopped' = TRUE
               /\ firstError' = IF firstError = "none" THEN thrown[w] ELSE firstError
               /\ thrown[w] # "none"
<1>1. CASE Caught(w)
  BY <1>1 DEF Caught, Holding, callVars, stopVars
<1>2. CASE RaceStep(w)
  BY <1>2 DEF RaceStep, HedgeStarts, SecondPaced, SlotSettles, GraceCancelled, callVars, stopVars
<1>3. CASE Claim(w)
  BY <1>3 DEF Claim, callVars, stopVars
<1>4. CASE Ending(w) \/ Picking(w) \/ Asking(w)
  <2>1. UNCHANGED othersAsWell
    BY <1>4 DEF Ending, Picking, Asking
  <2> QED
    BY <2>1 DEF othersAsWell, otherVars
<1>5. CASE Blaming(w) \/ Receiving(w) \/ Writing(w) \/ Counting(w)
  BY <1>5 DEF Blaming, Receiving, Writing, Counting, othersAsWell, otherVars
<1> QED
  BY <1>1, <1>2, <1>3, <1>4, <1>5 DEF Moves, RaceStep

LEMMA NextRacesSound ==
  ASSUME IInv, [Next]_vars, NEW v \in Workers
  PROVE  RaceSound(v)'
<1> USE DEF IInv
<1>0. RaceSound(v)
  BY DEF RaceSound, Stopping, GivingUp
<1>1. ASSUME NEW w \in Workers, Moves(w)
      PROVE  RaceSound(v)'
  <2>1. OthersKept(w) /\ (aborted => aborted') /\ UNCHANGED scheduled
    BY <1>1, MovesAreLocal, ReasonsStay
  <2>2. CASE v # w
    <3>1. job'[v] = job[v] /\ peer'[v] = peer[v] /\ race'[v] = race[v]
      BY <2>1, <2>2 DEF OthersKept
    <3>2. pc'[v] = pc[v] \/ pc'[v] = "claim"
      BY <2>1, <2>2 DEF OthersKept
    <3>3. MayFail(v)' <=> MayFail(v)
      BY <2>1, <3>1 DEF MayFail, Chunk
    <3> QED
      BY <1>0, <2>1, <3>1, <3>2, <3>3 DEF RaceSound
  <2>3. CASE v = w /\ RaceStep(w)
    BY <1>0, <2>3, RaceStepIsSound
  <2>4. CASE v = w /\ Asking(w)
    <3>1. CASE pc'[w] = "racing"
      <4>1. PICK alt \in Peers :
              race' = [race EXCEPT ![w] = [NoRace EXCEPT !.rival = alt, !.first = "open"]]
        BY <2>4, <3>1 DEF Asking, Goes, WorkerTypes
      <4>2. race'[w].result = "none" /\ race'[w].first = "open"
        BY <4>1 DEF WorkerTypes, NoRace
      <4> QED
        BY <2>4, <3>1, <4>2 DEF RaceSound, Failures
    <3>2. CASE pc'[w] = "asking"
      BY <2>4, <3>2 DEF RaceSound
    <3> QED
      BY <2>4, <3>1, <3>2 DEF Asking, Goes, WorkerTypes
  <2>5. CASE ~RaceStep(w) /\ ~Asking(w) /\ v = w
    <3>1. pc'[w] \notin Racing
      <4>1. CASE Claim(w) \/ Picking(w) \/ Blaming(w) \/ Receiving(w) \/ Writing(w)
        BY <4>1 DEF Claim, Picking, Blaming, Receiving, Writing, Goes, Racing, WorkerTypes
      <4>2. CASE Caught(w) \/ Counting(w)
        BY <4>2 DEF Caught, Counting, Woken, Racing, WorkerTypes
      <4>3. CASE Ending(w)
        BY <4>3 DEF Ending, EndsJob, Woken, Racing, WorkerTypes
      <4> QED
        BY <1>1, <2>5, <4>1, <4>2, <4>3 DEF Moves, RaceStep
    <3> QED
      BY <2>5, <3>1 DEF RaceSound, Racing
  <2> QED
    BY <2>2, <2>3, <2>4, <2>5
<1>2. CASE StartWorkers
  <2>1. pc'[v] \in {"claim", "ended"}
    BY <1>2 DEF StartWorkers
  <2> QED
    BY <2>1 DEF RaceSound
<1>3. CASE Cancel \/ CallAlone
  <2>1. UNCHANGED <<race, peer, job>> /\ (pc'[v] = pc[v] \/ pc'[v] = "claim")
    <3>1. CASE Cancel
      BY <3>1 DEF Cancel, Woken
    <3>2. CASE CallAlone
      BY <3>2, CallAloneIsQuiet DEF Quiet
    <3> QED
      BY <1>3, <3>1, <3>2
  <2>2. aborted => aborted'
    BY <1>3 DEF Cancel, CallAlone, DiscoverFails, DiscoverFinds, TakeInventories, LookInStore, AllSettled,
          VerifyNext, Complete, StopsAsCancelled, Meddle, stopVars, vars
  <2>3. pc[v] # "ended" => UNCHANGED scheduled
    <3>1. CASE Cancel
      BY <3>1 DEF Cancel, callVars
    <3>2. CASE phase = "working" /\ CallAlone
      BY <3>2 DEF CallAlone, DiscoverFails, DiscoverFinds, TakeInventories, LookInStore, AllSettled,
          VerifyNext, Complete, StopsAsCancelled, Meddle, callVars, vars
    <3> QED
      BY <1>3, <3>1, <3>2 DEF Staffed
  <2>4. pc[v] # "ended" => (MayFail(v)' <=> MayFail(v))
    BY <2>1, <2>3 DEF MayFail, Chunk
  <2> QED
    BY <1>0, <2>1, <2>2, <2>4 DEF RaceSound
<1> QED
  BY <1>1, <1>2, <1>3, NextKinds

LEMMA NextStopping ==
  ASSUME IInv, [Next]_vars, Holding'
  PROVE  Stopping'
<1> USE DEF IInv
<1>0. /\ phase \notin {"working", "over"} => firstError = "none"
      /\ aborted => cancelled \/ firstError # "none"
      /\ stopped => firstError # "none"
      /\ \A w \in Workers : thrown[w] = "cancelled" => cancelled \/ firstError # "none"
      /\ firstError = "cancelled" => cancelled
      /\ outcome = "cancelled" => cancelled
  BY DEF Stopping
<1>1. SUFFICES
        (/\ phase \notin {"working", "over"} => firstError = "none"
         /\ aborted => cancelled \/ firstError # "none"
         /\ stopped => firstError # "none"
         /\ \A w \in Workers : thrown[w] = "cancelled" => cancelled \/ firstError # "none"
         /\ firstError = "cancelled" => cancelled
         /\ outcome = "cancelled" => cancelled)'
  BY NextRacesSound DEF Stopping, RaceSound
<1>2. ASSUME NEW w \in Workers, Moves(w)
      PROVE  (/\ phase \notin {"working", "over"} => firstError = "none"
              /\ aborted => cancelled \/ firstError # "none"
              /\ stopped => firstError # "none"
              /\ \A v \in Workers : thrown[v] = "cancelled" => cancelled \/ firstError # "none"
              /\ firstError = "cancelled" => cancelled
              /\ outcome = "cancelled" => cancelled)'
  <2>1. /\ UNCHANGED <<cancelled, outcome>>
        /\ \/ UNCHANGED <<aborted, stopped, firstError>>
           \/ /\ Caught(w) /\ aborted' = TRUE /\ stopped' = TRUE
              /\ firstError' = IF firstError = "none" THEN thrown[w] ELSE firstError
              /\ thrown[w] # "none"
    BY <1>2, ReasonsStay
  <2>2. phase' = "working"
    BY <1>2, MoversWork
  <2>3. OthersKept(w)
    BY <1>2, MovesAreLocal
  <2>4. thrown'[w] = "cancelled" => thrown[w] = "cancelled" \/ aborted
    <3>1. CASE Ending(w)
      BY <3>1 DEF Ending, EndsJob, WorkerTypes
    <3>2. CASE Claim(w) \/ Caught(w)
      BY <3>2 DEF Claim, Caught, WorkerTypes
    <3>3. CASE ~(Ending(w) \/ Claim(w) \/ Caught(w))
      BY <1>2, <3>3 DEF Moves, Picking, Asking, Blaming, Receiving, HedgeStarts, SecondPaced, SlotSettles,
           GraceCancelled, Writing, Counting
    <3> QED
      BY <3>1, <3>2, <3>3
  <2>5. cancelled \/ firstError # "none" => cancelled' \/ firstError' # "none"
    BY <2>1
  <2>6. \A v \in Workers : thrown'[v] = "cancelled" => thrown[v] = "cancelled" \/ aborted
    BY <2>3, <2>4 DEF OthersKept
  <2> QED
    BY <1>0, <2>1, <2>2, <2>5, <2>6
<1>3. CASE StartWorkers
  BY <1>0, <1>3 DEF StartWorkers
<1>4. CASE Cancel
  BY <1>0, <1>4 DEF Cancel, callVars
<1>5. CASE CallAlone
  <2>1. UNCHANGED <<aborted, stopped, firstError, thrown, cancelled>>
    BY <1>5 DEF CallAlone, DiscoverFails, DiscoverFinds, TakeInventories, LookInStore, AllSettled,
          VerifyNext, Complete, StopsAsCancelled, Meddle, stopVars, workerVars, vars
  <2>2. outcome' = "cancelled" => outcome = "cancelled" \/ cancelled \/ firstError = "cancelled"
    BY <1>5 DEF CallAlone, DiscoverFails, DiscoverFinds, TakeInventories, LookInStore, AllSettled,
          VerifyNext, Complete, StopsAsCancelled, Meddle, callVars, vars, Ends
  <2>3. phase' \notin {"working", "over"} => firstError = "none"
    <3>1. CASE AllSettled
      BY <3>1 DEF AllSettled, Ends
    <3>2. CASE ~AllSettled
      <4>1. phase' \in {"working", "over"} \/ phase \notin {"working", "over"}
        BY <1>5, <3>2 DEF CallAlone, DiscoverFails, DiscoverFinds, TakeInventories, LookInStore,
             VerifyNext, Complete, StopsAsCancelled, Meddle, callVars, vars, Ends
      <4> QED
        BY <1>0, <4>1
    <3> QED
      BY <3>1, <3>2
  <2> QED
    BY <1>0, <2>1, <2>2, <2>3
<1> QED
  BY <1>2, <1>3, <1>4, <1>5, NextKinds

\* What makes GivingUp, but for the races.
GaveUp ==
  /\ exhausted \cap Reliable = {}
  /\ phase \in {"caching", "working"} => \A p \in Reliable : inventory[p] = Known(Holds[p])
  /\ \A w \in Workers : \A p \in gone[w] \cap Reliable : Chunk(w) \notin Holds[p]
  /\ \A w \in Workers : thrown[w] = "unavailable" => Hopeless
  /\ firstError = "unavailable" => Hopeless
  /\ outcome = "unavailable" => Hopeless

\* A worker without a candidate has a chunk that no dependable peer has.
LEMMA NobodyHasIt ==
  ASSUME CallTypes, Holding, Staffed, GaveUp, NEW w \in Workers, pc[w] = "pick", Candidates(w) = {}
  PROVE  Hopeless
<1>1. job[w] \in 1 .. cursor /\ cursor \in 0 .. Len(scheduled)
  BY DEF Holding, Idle, CallTypes
<1>2. job[w] \in 1 .. Len(scheduled)
  BY <1>1 DEF CallTypes
<1>3. ASSUME NEW p \in Reliable
      PROVE  Chunk(w) \notin Holds[p]
  <2>1. p \in Peers
    BY ParametersAreSane
  <2>2. CASE p \in gone[w]
    BY <2>2 DEF GaveUp
  <2>3. CASE p \notin gone[w]
    <3>1. inventory[p] = Known(Holds[p])
      BY DEF GaveUp, Staffed
    <3>2. inventory[p].status = "known" /\ inventory[p].has = Holds[p]
      BY <3>1 DEF Known
    <3> QED
      BY <2>1, <2>3, <3>2 DEF Candidates
  <2> QED
    BY <2>2, <2>3
<1> QED
  BY <1>2, <1>3 DEF Hopeless, Lacking, Chunk

LEMMA NextGaveUp ==
  ASSUME IInv, [Next]_vars
  PROVE  GaveUp'
<1> USE DEF IInv
<1>1. GaveUp
  BY DEF GivingUp, GaveUp
<1>2. ASSUME NEW w \in Workers, Moves(w)
      PROVE  GaveUp'
  <2>1. /\ UNCHANGED <<scheduled, cancelled, outcome, inventory, exhausted>>
        /\ firstError' \in {firstError, thrown[w]}
    BY <1>2, ReasonsStay
  <2>2. OthersKept(w) /\ UNCHANGED phase
    BY <1>2, MovesAreLocal, MoversWork
  <2>3. Hopeless' = Hopeless
    BY <2>1 DEF Hopeless, Lacking
  <2>4. ASSUME NEW v \in Workers, NEW p \in gone'[v] \cap Reliable
        PROVE  (Chunk(v) \notin Holds[p])'
    <3>1. CASE gone'[v] = gone[v] /\ job'[v] = job[v]
      BY <1>1, <2>1, <2>4, <3>1 DEF GaveUp, Chunk
    <3>2. CASE v # w
      BY <2>2, <3>1, <3>2 DEF OthersKept
    <3>3. CASE v = w /\ Claim(w)
      <4>1. gone'[w] = {}
        BY <3>3 DEF Claim, Holding, Idle, jobVars
      <4> QED
        BY <2>4, <3>3, <4>1
    <3>4. CASE v = w /\ Ending(w)
      <4>1. gone'[w] = {}
        BY <3>4 DEF Ending, EndsJob, WorkerTypes
      <4> QED
        BY <2>4, <3>4, <4>1
    <3>5. CASE v = w /\ Blaming(w)
      <4>1. MayFail(w) /\ job' = job /\ p \in gone[w] \cup {peer[w]}
        BY <2>4, <3>5 DEF Blaming, WorkerTypes
      <4>2. p = peer[w] => Chunk(w) \notin Holds[p]
        BY <2>4, <4>1 DEF MayFail
      <4> QED
        BY <1>1, <2>1, <2>4, <3>5, <4>1, <4>2 DEF GaveUp, Chunk
    <3>6. CASE ~(Claim(w) \/ Ending(w) \/ Blaming(w))
      <4>1. UNCHANGED <<gone, job>>
        BY <1>2, <3>6 DEF Moves, Caught, Picking, Asking, Receiving, HedgeStarts, SecondPaced, SlotSettles,
             GraceCancelled, Writing, Counting, jobVars
      <4> QED
        BY <3>1, <4>1
    <3> QED
      BY <3>2, <3>3, <3>4, <3>5, <3>6
  <2>5. thrown'[w] = "unavailable" => thrown[w] = "unavailable" \/ Hopeless
    <3>1. CASE Ending(w)
      <4>1. thrown'[w] = "unavailable" => pc[w] = "pick" /\ Candidates(w) = {}
        BY <3>1 DEF Ending, EndsJob, WorkerTypes
      <4> QED
        BY <1>1, <4>1, NobodyHasIt
    <3>2. CASE Claim(w) \/ Caught(w)
      BY <3>2 DEF Claim, Caught, WorkerTypes
    <3>3. CASE ~(Ending(w) \/ Claim(w) \/ Caught(w))
      BY <1>2, <3>3 DEF Moves, Picking, Asking, Blaming, Receiving, HedgeStarts, SecondPaced, SlotSettles,
           GraceCancelled, Writing, Counting
    <3> QED
      BY <3>1, <3>2, <3>3
  <2>6. \A v \in Workers : thrown'[v] = "unavailable" => Hopeless
    BY <1>1, <2>2, <2>5 DEF OthersKept, GaveUp
  <2> QED
    BY <1>1, <2>1, <2>2, <2>3, <2>4, <2>6 DEF GaveUp
<1>3. CASE StartWorkers \/ CallAlone \/ Cancel
  <2>1. UNCHANGED <<gone, job, thrown, firstError>>
    <3>1. CASE CallAlone
      BY <3>1, CallAloneIsQuiet DEF Quiet, CallAlone, DiscoverFails, DiscoverFinds, TakeInventories,
         LookInStore, AllSettled, VerifyNext, Complete, StopsAsCancelled, Meddle, stopVars, vars
    <3>2. CASE StartWorkers \/ Cancel
      BY <3>2 DEF StartWorkers, Cancel
    <3> QED
      BY <1>3, <3>1, <3>2
  <2>2. (exhausted \cap Reliable = {})'
    <3>1. CASE \E p \in Peers : DiscoverFails(p)
      BY <1>1, <3>1 DEF DiscoverFails, GaveUp
    <3>2. exhausted' \in {exhausted, {}} \/ \E p \in Peers : DiscoverFails(p)
      BY <1>3 DEF StartWorkers, CallAlone, Cancel, DiscoverFinds, TakeInventories, LookInStore, AllSettled,
            VerifyNext, Complete, StopsAsCancelled, Meddle, callVars, vars
    <3> QED
      BY <1>1, <3>1, <3>2 DEF GaveUp
  <2>3. (phase \in {"caching", "working"} => \A p \in Reliable : inventory[p] = Known(Holds[p]))'
    <3>1. CASE TakeInventories
      BY <3>1, ParametersAreSane DEF TakeInventories
    <3>2. CASE ~TakeInventories
      <4>1. UNCHANGED inventory /\ (phase' \in {"caching", "working"} => phase \in {"caching", "working"})
        BY <1>3, <3>2 DEF StartWorkers, CallAlone, Cancel, DiscoverFails, DiscoverFinds, LookInStore,
             AllSettled, VerifyNext, Complete, StopsAsCancelled, Meddle, callVars, vars, Ends
      <4> QED
        BY <1>1, <4>1 DEF GaveUp
    <3> QED
      BY <3>1, <3>2
  <2>4. CASE phase \in {"working", "over"} /\ ~AllSettled
    <3>1. UNCHANGED <<scheduled, outcome>>
      BY <1>3, <2>4 DEF StartWorkers, CallAlone, Cancel, DiscoverFails, DiscoverFinds, TakeInventories,
           LookInStore, VerifyNext, Complete, StopsAsCancelled, Meddle, callVars, vars, Ends
    <3> QED
      BY <1>1, <2>1, <2>2, <2>3, <3>1 DEF GaveUp, Hopeless, Lacking, Chunk
  <2>5. CASE AllSettled
    <3>1. UNCHANGED scheduled /\ outcome' \in {outcome, firstError}
      BY <2>5 DEF AllSettled, Ends
    <3> QED
      BY <1>1, <2>1, <2>2, <2>3, <3>1 DEF GaveUp, Hopeless, Lacking, Chunk
  <2>6. CASE phase \notin {"working", "over"}
    <3>1. /\ \A w \in Workers : pc[w] = "ended" /\ gone[w] = {} /\ thrown[w] = "none"
          /\ firstError = "none" /\ outcome = "none"
      BY <2>6 DEF Staffed, Holding, Idle, Stopping, Balanced
    <3>2. outcome' = "unavailable" => Reliable = {}
      <4>1. CASE \E p \in Peers : DiscoverFails(p)
        BY <2>2, <3>1, <4>1, ParametersAreSane DEF DiscoverFails, Ends
      <4>2. CASE ~ \E p \in Peers : DiscoverFails(p)
        BY <1>3, <2>6, <3>1, <4>2 DEF StartWorkers, CallAlone, Cancel, DiscoverFinds, TakeInventories,
             LookInStore, AllSettled, VerifyNext, Complete, StopsAsCancelled, Meddle, callVars, vars, Ends
      <4> QED
        BY <4>1, <4>2
    <3> QED
      BY <2>1, <2>2, <2>3, <3>1, <3>2 DEF GaveUp, Hopeless
  <2> QED
    BY <2>4, <2>5, <2>6
<1> QED
  BY <1>2, <1>3, NextKinds

LEMMA NextGivingUp ==
  ASSUME IInv, [Next]_vars
  PROVE  GivingUp'
BY NextGaveUp, NextRacesSound DEF GivingUp, GaveUp, RaceSound

-----------------------------------------------------------------------------
(* Every chunk is accounted for.                                           *)

BalancedBefore ==
  /\ phase \in {"discovering", "inventory"} => completed = 0 /\ scheduled = <<>> /\ left = Chunks
  /\ phase \in {"discovering", "inventory", "caching"} =>
       /\ cursor = 0
       /\ completed + Len(scheduled) + Cardinality(left) = ChunkCount

Accounted ==
  Failing \/ completed + (Len(scheduled) - cursor) + Cardinality(Carrying) = ChunkCount

SomeoneClaims ==
  cursor = Len(scheduled) \/ firstError # "none" \/ \E w \in Workers : pc[w] # "ended"

BalancedAfter ==
  /\ phase = "verifying" \/ outcome = "complete" => completed = ChunkCount
  /\ phase = "verifying" => \A c \in Chunks \ left : store[c] = "good" \/ c \in late
  /\ outcome = "complete" => \A c \in Chunks : store[c] = "good" \/ c \in late
  /\ phase = "over" <=> outcome # "none"

LEMMA BalancedParts ==
  Balanced <=> BalancedBefore /\ (phase = "working" => Accounted /\ SomeoneClaims) /\ BalancedAfter
BY DEF Balanced, BalancedBefore, Accounted, SomeoneClaims, BalancedAfter

LEMMA CarryingIsFinite == IsFiniteSet(Carrying) /\ Cardinality(Carrying) \in Nat
BY ParametersAreSane, FS_Subset, FS_CardinalityType DEF Carrying

\* The part each step of a worker has in the account.
LEMMA MovesAccount ==
  ASSUME IInv, NEW w \in Workers, Moves(w), CallTypes', phase = "working", Accounted
  PROVE  Accounted'
<1> USE DEF IInv, WorkerTypes
<1>1. OthersKept(w) /\ UNCHANGED scheduled /\ (aborted => aborted')
  BY MovesAreLocal, ReasonsStay
<1>2. HoldingAt(w)
  BY DEF Holding, HoldingAt
<1>3. /\ completed \in Nat /\ cursor \in Nat /\ Len(scheduled) \in Nat /\ NoJob \notin Nat
      /\ IsFiniteSet(Carrying) /\ Cardinality(Carrying) \in Nat /\ ChunkCount \in Nat
  BY CarryingIsFinite, ParametersAreSane DEF CallTypes
<1>4. ASSUME firstError # "none"
      PROVE  Accounted'
  BY <1>4, ReasonsStay DEF Accounted, Failing
<1>5. ASSUME NEW v \in Workers \ {w}, pc[v] = "throwing" \/ (aborted /\ pc[v] = "claim")
      PROVE  Accounted'
  BY <1>1, <1>5 DEF OthersKept, Accounted, Failing
<1>6. CASE pc[w] = "throwing" \/ (aborted /\ pc[w] = "claim")
  <2>1. CASE Caught(w)
    <3>1. firstError' # "none"
      BY <2>1, <1>2 DEF Caught, HoldingAt
    <3> QED
      BY <3>1 DEF Accounted, Failing
  <2>2. CASE Claim(w)
    <3>1. CASE stopped
      BY <1>4, <3>1 DEF Stopping
    <3>2. CASE ~stopped
      <4>1. pc'[w] = "throwing"
        BY <1>6, <2>2, <3>2 DEF Claim, Goes
      <4> QED
        BY <4>1 DEF Accounted, Failing
    <3> QED
      BY <3>1, <3>2
  <2>3. Claim(w) \/ Caught(w)
    BY <1>6 DEF Moves, Ending, Picking, Asking, Blaming, Receiving, HedgeStarts, SecondPaced, SlotSettles,
         GraceCancelled, Writing, Counting, Serving
  <2> QED
    BY <2>1, <2>2, <2>3
<1>7. CASE ~Failing
  <2>1. completed + (Len(scheduled) - cursor) + Cardinality(Carrying) = ChunkCount
    BY <1>7 DEF Accounted
  <2>2. ~aborted \/ pc[w] # "claim"
    BY <1>7 DEF Failing
  <2>3. CASE Carrying' = Carrying /\ UNCHANGED <<completed, cursor>>
    BY <1>1, <2>1, <2>3 DEF Accounted
  <2>4. CASE Ending(w)
    <3>1. PICK to \in {"claim", "throwing"}, error \in Errors :
            /\ EndsJob(w, to, error)
            /\ to = "claim" => stopped \/ aborted \/ pc[w] = "announcing"
      BY <2>4 DEF Ending
    <3>2. pc'[w] = to /\ job'[w] = NoJob
      BY <3>1 DEF EndsJob, Woken
    <3>3. CASE to = "throwing"
      BY <3>2, <3>3 DEF Accounted, Failing
    <3>4. CASE stopped
      BY <1>4, <3>4 DEF Stopping
    <3>5. CASE to = "claim" /\ aborted
      BY <1>1, <3>2, <3>5 DEF Accounted, Failing
    <3>6. CASE to = "claim" /\ pc[w] = "announcing"
      <4>1. Carrying' = Carrying
        BY <1>1, <3>2, <3>6 DEF Carrying, OthersKept
      <4> QED
        BY <2>3, <2>4, <4>1 DEF Ending, othersAsWell
    <3> QED
      BY <3>1, <3>3, <3>4, <3>5, <3>6
  <2>5. CASE Counting(w)
    <3>1. pc[w] = "checking" /\ pc'[w] = "announcing" /\ UNCHANGED <<job, cursor>> /\ completed' = completed + 1
      BY <2>5 DEF Counting, Woken
    <3>2. w \in Carrying
      BY <1>2, <1>3, <3>1 DEF HoldingAt, Carrying, Idle
    <3>3. Carrying' = Carrying \ {w}
      BY <1>1, <3>1 DEF Carrying, OthersKept
    <3>4. Cardinality(Carrying') = Cardinality(Carrying) - 1
      BY <1>3, <3>2, <3>3, FS_RemoveElement
    <3> QED
      BY <1>1, <1>3, <2>1, <3>1, <3>4 DEF Accounted
  <2>6. CASE Claim(w)
    <3>1. CASE job' = [job EXCEPT ![w] = cursor + 1] /\ cursor' = cursor + 1 /\ pc' = [pc EXCEPT ![w] = "pick"]
      <4>1. w \notin Carrying
        BY <1>2, <2>6 DEF Claim, HoldingAt, Carrying, Idle
      <4>2. job'[w] # NoJob /\ pc'[w] = "pick"
        BY <1>3, <3>1
      <4>3. Carrying' = Carrying \cup {w}
        BY <1>1, <4>2 DEF Carrying, OthersKept
      <4>4. Cardinality(Carrying') = Cardinality(Carrying) + 1
        BY <1>3, <4>1, <4>3, FS_AddElement
      <4>5. completed' = completed
        BY <2>6 DEF Claim
      <4> QED
        BY <1>1, <1>3, <2>1, <3>1, <4>4, <4>5 DEF Accounted
    <3>2. CASE UNCHANGED <<job, cursor>>
      <4>1. job[w] = NoJob
        BY <1>2, <2>6 DEF Claim, HoldingAt, Idle
      <4>2. Carrying' = Carrying
        BY <1>1, <3>2, <4>1 DEF Carrying, OthersKept
      <4> QED
        BY <2>3, <2>6, <3>2, <4>2 DEF Claim
    <3> QED
      BY <2>6, <3>1, <3>2 DEF Claim, Goes, jobVars
  <2>7. CASE ~(Ending(w) \/ Counting(w) \/ Claim(w))
    <3>1. UNCHANGED <<job, completed, cursor>>
      BY <2>7 DEF Moves, Caught, Picking, Asking, Blaming, Receiving, HedgeStarts, SecondPaced, SlotSettles,
           GraceCancelled, Writing, othersAsWell, jobVars
    <3>2. pc[w] # "announcing"
      BY <2>7 DEF Moves, Caught, Picking, Asking, Blaming, Receiving, HedgeStarts, SecondPaced, SlotSettles,
           GraceCancelled, Writing
    <3>3. job'[w] # NoJob => pc'[w] # "announcing"
      <4>1. CASE Caught(w)
        BY <4>1 DEF Caught, Woken
      <4>2. CASE RaceStep(w)
        BY <3>2, <4>2 DEF RaceStep, HedgeStarts, SecondPaced, SlotSettles, GraceCancelled, Decided, Goes
      <4>3. CASE Picking(w) \/ Asking(w) \/ Blaming(w) \/ Receiving(w) \/ Writing(w)
        BY <4>3 DEF Picking, Asking, Blaming, Receiving, Writing, Goes
      <4> QED
        BY <2>7, <4>1, <4>2, <4>3 DEF Moves, RaceStep
    <3>4. Carrying' = Carrying
      BY <1>1, <3>1, <3>2, <3>3 DEF Carrying, OthersKept
    <3> QED
      BY <2>3, <3>1, <3>4
  <2> QED
    BY <2>4, <2>5, <2>6, <2>7
<1> QED
  BY <1>4, <1>5, <1>6, <1>7 DEF Failing

LEMMA MovesLeaveAClaimant ==
  ASSUME IInv, NEW w \in Workers, Moves(w), CallTypes', phase = "working", SomeoneClaims
  PROVE  SomeoneClaims'
<1> USE DEF IInv, WorkerTypes
<1>1. CASE pc'[w] # "ended"
  BY <1>1 DEF SomeoneClaims
<1>2. CASE pc'[w] = "ended"
  <2>1. Claim(w) \/ Caught(w)
    <3>1. CASE Ending(w) \/ Counting(w)
      BY <1>2, <3>1 DEF Ending, EndsJob, Counting, Woken
    <3>2. CASE RaceStep(w)
      BY <1>2, <3>2 DEF RaceStep, HedgeStarts, SecondPaced, SlotSettles, GraceCancelled, Decided, Goes
    <3>3. CASE Picking(w) \/ Asking(w) \/ Blaming(w) \/ Receiving(w) \/ Writing(w)
      BY <1>2, <3>3 DEF Picking, Asking, Blaming, Receiving, Writing, Goes
    <3> QED
      BY <3>1, <3>2, <3>3 DEF Moves, RaceStep
  <2>2. CASE Caught(w)
    BY <2>2 DEF Caught, Holding, SomeoneClaims
  <2>3. CASE Claim(w)
    <3>1. stopped \/ cursor >= Len(scheduled)
      BY <1>2, <2>3 DEF Claim, Goes
    <3>2. UNCHANGED <<cursor, scheduled, firstError>>
      BY <1>2, <2>3 DEF Claim, Goes, callVars, stopVars
    <3>3. stopped => firstError # "none"
      BY DEF Stopping
    <3>4. cursor >= Len(scheduled) => cursor = Len(scheduled)
      BY DEF CallTypes
    <3> QED
      BY <3>1, <3>2, <3>3, <3>4 DEF SomeoneClaims
  <2> QED
    BY <2>1, <2>2, <2>3
<1> QED
  BY <1>1, <1>2

LEMMA NextBalanced ==
  ASSUME IInv, [Next]_vars, CallTypes'
  PROVE  Balanced'
<1> USE DEF IInv
<1>1. BalancedBefore /\ (phase = "working" => Accounted /\ SomeoneClaims) /\ BalancedAfter
  BY BalancedParts
<1>2. SUFFICES (BalancedBefore /\ (phase = "working" => Accounted /\ SomeoneClaims) /\ BalancedAfter)'
  BY DEF Balanced, BalancedBefore, Accounted, SomeoneClaims, BalancedAfter
<1>3. ASSUME NEW w \in Workers, Moves(w)
      PROVE  (BalancedBefore /\ (phase = "working" => Accounted /\ SomeoneClaims) /\ BalancedAfter)'
  <2>1. phase = "working" /\ phase' = "working" /\ UNCHANGED outcome
    BY <1>3, MoversWork, ReasonsStay
  <2>2. outcome = "none"
    BY <1>1, <2>1 DEF BalancedAfter
  <2>3. Accounted' /\ SomeoneClaims'
    BY <1>1, <1>3, <2>1, MovesAccount, MovesLeaveAClaimant
  <2> QED
    BY <2>1, <2>2, <2>3 DEF BalancedBefore, BalancedAfter
<1>4. CASE Cancel
  <2>1. UNCHANGED <<phase, completed, scheduled, left, cursor, job, store, late, outcome, firstError>>
    BY <1>4 DEF Cancel, callVars, storeVars
  <2>2. \A w \in Workers : pc'[w] = pc[w] \/ (pc[w] = "waiting" /\ pc'[w] = "claim")
    BY <1>4 DEF Cancel, Woken, WorkerTypes
  <2>3. aborted => aborted'
    BY <1>4 DEF Cancel
  <2>4. SomeoneClaims => SomeoneClaims'
    BY <2>1, <2>2 DEF SomeoneClaims
  <2>5. Accounted => Accounted'
    <3>1. Carrying' = Carrying
      BY <2>1, <2>2 DEF Carrying
    <3>2. Failing => Failing'
      BY <2>1, <2>2, <2>3 DEF Failing
    <3> QED
      BY <2>1, <3>1, <3>2 DEF Accounted
  <2> QED
    BY <1>1, <2>1, <2>4, <2>5 DEF BalancedBefore, BalancedAfter
<1>5. CASE StartWorkers
  <2>1. Len(scheduled') = Len(scheduled) /\ Len(scheduled) \in Nat /\ completed \in Nat
    BY <1>5, OrdersAreSequences DEF StartWorkers, CallTypes
  <2>2. completed + Len(scheduled) = ChunkCount /\ cursor = 0
    <3>1. Cardinality(left) = 0
      BY <1>5, FS_EmptySet DEF StartWorkers
    <3> QED
      BY <1>1, <1>5, <2>1, <3>1 DEF BalancedBefore, StartWorkers
  <2>3. Cardinality(Carrying') = 0
    <3>1. \A w \in Workers : job'[w] = NoJob
      BY <1>5 DEF StartWorkers, Staffed, Holding, Idle
    <3>2. Carrying' = {}
      BY <3>1 DEF Carrying
    <3> QED
      BY <3>2, FS_EmptySet
  <2>4. Accounted'
    <3>1. completed' = completed /\ cursor' = cursor
      BY <1>5 DEF StartWorkers
    <3> QED
      BY <2>1, <2>2, <2>3, <3>1, ParametersAreSane DEF Accounted
  <2>5. SomeoneClaims'
    <3>1. PICK started \in SUBSET Workers :
            /\ Cardinality(started) = Ceiling(Len(scheduled))
            /\ pc' = [w \in Workers |-> IF w \in started THEN "claim" ELSE "ended"]
      BY <1>5 DEF StartWorkers
    <3>2. started # {}
      BY <2>1, <3>1, CeilingIsPositive, FS_EmptySet
    <3> QED
      BY <3>1, <3>2 DEF SomeoneClaims
  <2>6. phase' = "working" /\ outcome' = "none"
    BY <1>1, <1>5 DEF StartWorkers, BalancedAfter
  <2> QED
    BY <2>4, <2>5, <2>6 DEF BalancedBefore, BalancedAfter
<1>6. CASE \E p \in Peers : DiscoverFails(p) \/ DiscoverFinds(p)
  BY <1>1, <1>6 DEF DiscoverFails, DiscoverFinds, Ends, BalancedBefore, BalancedAfter
<1>7. CASE TakeInventories
  BY <1>1, <1>7 DEF TakeInventories, BalancedBefore, BalancedAfter
<1>8. CASE LookInStore
  <2>1. Next1 \in left /\ IsFiniteSet(left) /\ Cardinality(left) \in Nat
    BY <1>8, Next1IsLeft, ChunksAreFinite, FS_Subset, FS_CardinalityType DEF LookInStore, CallTypes
  <2>2. Cardinality(left') = Cardinality(left) - 1
    BY <1>8, <2>1, FS_RemoveElement DEF LookInStore
  <2>3. completed' + Len(scheduled') = completed + Len(scheduled) + 1
    <3>1. Len(scheduled) \in Nat /\ completed \in Nat /\ Len(Append(scheduled, Next1)) = Len(scheduled) + 1
      BY <2>1 DEF CallTypes
    <3> QED
      BY <1>8, <3>1 DEF LookInStore
  <2>4. completed + Len(scheduled) + Cardinality(left) = ChunkCount /\ cursor = 0
    BY <1>1, <1>8 DEF LookInStore, BalancedBefore
  <2>5. completed' + Len(scheduled') + Cardinality(left') = ChunkCount
    <3>1. /\ Len(scheduled) \in Nat /\ completed \in Nat /\ ChunkCount \in Nat
          /\ Len(scheduled') \in Nat /\ completed' \in Nat
      BY ParametersAreSane DEF CallTypes
    <3> QED
      BY <2>1, <2>2, <2>3, <2>4, <3>1
  <2>6. phase' = "caching" /\ phase = "caching" /\ UNCHANGED <<outcome, cursor>>
    BY <1>8 DEF LookInStore
  <2> QED
    BY <1>1, <2>4, <2>5, <2>6 DEF BalancedBefore, BalancedAfter
<1>9. CASE AllSettled
  <2>1. CASE firstError = "none"
    <3>1. /\ ~Failing
          /\ cursor = Len(scheduled)
      BY <1>1, <1>9, <2>1 DEF AllSettled, Failing, SomeoneClaims
    <3>2. Cardinality(Carrying) = 0
      <4>1. \A w \in Workers : job[w] = NoJob
        BY <1>9 DEF AllSettled, Holding, Idle
      <4>2. Carrying = {}
        BY <4>1 DEF Carrying
      <4> QED
        BY <4>2, FS_EmptySet
    <3>3. completed = ChunkCount
      <4>1. completed \in Nat /\ Len(scheduled) \in Nat
        BY DEF CallTypes
      <4> QED
        BY <1>1, <1>9, <3>1, <3>2, <4>1 DEF Accounted, AllSettled
    <3> QED
      BY <1>1, <1>9, <2>1, <3>3 DEF AllSettled, BalancedBefore, BalancedAfter
  <2>2. CASE firstError # "none"
    <3>1. firstError # "complete"
      BY DEF CallTypes, Errors
    <3> QED
      BY <1>9, <2>2, <3>1 DEF AllSettled, Ends, BalancedBefore, BalancedAfter
  <2> QED
    BY <2>1, <2>2
<1>10. CASE VerifyNext
  <2>1. Next1 \in left
    BY <1>10, Next1IsLeft DEF VerifyNext, CallTypes
  <2> QED
    BY <1>1, <1>10, <2>1 DEF VerifyNext, Ends, BalancedBefore, BalancedAfter, storeVars
<1>11. CASE Complete
  BY <1>1, <1>11 DEF Complete, Ends, BalancedBefore, BalancedAfter, storeVars
<1>12. CASE StopsAsCancelled
  BY <1>12 DEF StopsAsCancelled, Ends, BalancedBefore, BalancedAfter
<1>13. CASE \E c \in Chunks : Meddle(c)
  <2>1. PICK c \in Chunks : Meddle(c)
    BY <1>13
  <2>2. UNCHANGED <<phase, outcome, completed, scheduled, left, cursor, job, pc, firstError, aborted>>
    BY <2>1 DEF Meddle, callVars, stopVars, workerVars
  <2>3. phase # "over" /\ outcome = "none"
    BY <1>1, <2>1 DEF Meddle, BalancedAfter
  <2>4. phase = "verifying" => \A d \in Chunks \ left : store'[d] = "good" \/ d \in late'
    <3> SUFFICES ASSUME phase = "verifying", NEW d \in Chunks \ left
                 PROVE  store'[d] = "good" \/ d \in late'
      OBVIOUS
    <3>1. store[d] = "good" \/ d \in late
      BY <1>1 DEF BalancedAfter
    <3>2. CASE d = c
      BY <2>1, <3>2 DEF Meddle
    <3>3. CASE d # c
      BY <2>1, <3>1, <3>3 DEF Meddle, CallTypes
    <3> QED
      BY <3>2, <3>3
  <2>5. Accounted => Accounted'
    BY <2>2 DEF Accounted, Failing, Carrying
  <2>6. SomeoneClaims => SomeoneClaims'
    BY <2>2 DEF SomeoneClaims
  <2> QED
    BY <1>1, <2>2, <2>3, <2>4, <2>5, <2>6 DEF BalancedBefore, BalancedAfter
<1>14. CASE UNCHANGED vars
  BY <1>1, <1>14 DEF vars, callVars, storeVars, stopVars, workerVars, BalancedBefore, BalancedAfter,
        Accounted, SomeoneClaims, Failing, Carrying
<1> QED
  BY <1>3, <1>4, <1>5, <1>6, <1>7, <1>8, <1>9, <1>10, <1>11, <1>12, <1>13, <1>14, NextKinds DEF CallAlone

-----------------------------------------------------------------------------
(* The theorems.                                                           *)

LEMMA InitIsInv ==
  ASSUME Init
  PROVE  IInv
<1>1. CallTypes
  <2>1. store \in [Chunks -> {"missing", "good", "bad"}]
    BY DEF Init
  <2>2. scheduled \in Seq(Chunks) /\ cursor \in 0 .. Len(scheduled) /\ completed \in Nat
    BY DEF Init
  <2> QED
    BY <2>1, <2>2 DEF Init, CallTypes, Phases, Errors
<1>2. WorkerTypes
  BY NoRaceIsARace DEF Init, WorkerTypes, Idle, Errors
<1>3. Holding
  BY DEF Init, Holding, Idle, Serving, Racing
<1>4. Staffed
  <2>1. {w \in Workers : job[w] # NoJob} = {}
    BY DEF Init
  <2> QED
    BY <2>1, FS_EmptySet DEF Init, Staffed
<1>5. Queued
  BY DEF Init, Queued
<1>6. Counted
  <2>1. ASSUME NEW p \in Peers
        PROVE  inFlight[p] = Cardinality(Uses(p))
    <3>1. Uses(p) = {}
      BY NoRaceIsARace, ParametersAreSane DEF Init, Uses
    <3> QED
      BY <3>1, FS_EmptySet DEF Init
  <2> QED
    BY <2>1 DEF Counted
<1>7. Stopping
  BY DEF Init, Stopping
<1>8. GivingUp
  BY DEF Init, GivingUp
<1>9. Balanced
  <2>1. Cardinality(left) = ChunkCount /\ ChunkCount \in Nat
    BY ChunksAreFinite DEF Init
  <2> QED
    BY <2>1 DEF Init, Balanced
<1> QED
  BY <1>1, <1>2, <1>3, <1>4, <1>5, <1>6, <1>7, <1>8, <1>9 DEF IInv

LEMMA NextKeepsInv ==
  ASSUME IInv, [Next]_vars
  PROVE  IInv'
<1>1. WorkerTypes' /\ CallTypes'
  BY NextKinds, MovesKeepWorkerTypes, MovesKeepCallTypes, CallKeepsWorkerTypes, CallKeepsCallTypes DEF IInv
<1>2. Holding'
  BY <1>1, NextHolds
<1> QED
  BY <1>1, <1>2, NextStaffed, NextQueued, NextCounted, NextStopping, NextGivingUp, NextBalanced DEF IInv

\* Every state of a download satisfies the inductive invariant, whatever workers,
\* peers, store and caller do between two awaits of swarm-downloader.mjs.
THEOREM SwarmInvariant == Spec => []IInv
<1>1. Init => IInv
  BY InitIsInv
<1>2. IInv /\ [Next]_vars => IInv'
  BY NextKeepsInv
<1> QED
  BY <1>1, <1>2, PTL DEF Spec

\* The counts of what is out at a peer are right at every moment, and a call that
\* is over has left nothing behind.
THEOREM CallsLeaveNothing == Spec => []NothingOutlivesTheCall
<1>1. IInv => NothingOutlivesTheCall
  <2> SUFFICES ASSUME IInv
               PROVE  NothingOutlivesTheCall
    OBVIOUS
  <2> USE DEF IInv
  <2>1. \A p \in Peers : inFlight[p] = Cardinality(Uses(p))
    BY DEF Counted
  <2>2. SUFFICES ASSUME phase \in {"verifying", "over"}
                 PROVE  /\ active = 0
                        /\ \A p \in Peers : inFlight[p] = 0 /\ pace[p] = <<>>
                        /\ \A w \in Workers : pc[w] = "ended"
    BY <2>1 DEF NothingOutlivesTheCall
  <2>3. \A w \in Workers : pc[w] = "ended" /\ job[w] = NoJob /\ peer[w] = NoPeer /\ race[w] = NoRace
    BY <2>2 DEF Staffed, Holding, Idle, Serving, Racing
  <2>4. active = 0
    <3>1. {w \in Workers : job[w] # NoJob} = {}
      BY <2>3
    <3> QED
      BY <3>1, FS_EmptySet DEF Staffed
  <2>5. ASSUME NEW p \in Peers
        PROVE  inFlight[p] = 0 /\ pace[p] = <<>>
    <3>1. Uses(p) = {}
      BY <2>3, NoRaceIsARace, ParametersAreSane DEF Uses
    <3>2. inFlight[p] = 0
      BY <2>1, <3>1, FS_EmptySet
    <3>3. pace[p] \in Seq(Workers \X Slots)
      BY DEF WorkerTypes
    <3>4. \A u \in Workers \X Slots : ~Waits(u, p)
      BY <2>3, NoRaceIsARace, ParametersAreSane DEF Waits
    <3>5. \A i \in 1 .. Len(pace[p]) : Waits(pace[p][i], p) /\ pace[p][i] \in Workers \X Slots
      BY <3>3 DEF Queued
    <3>6. ~ (1 \in 1 .. Len(pace[p]))
      BY <3>4, <3>5
    <3> QED
      BY <3>2, <3>3, <3>6
  <2> QED
    BY <2>3, <2>4, <2>5
<1> QED
  BY <1>1, SwarmInvariant, PTL

\* Whatever the peers, the store and the caller do, a download says that it was
\* cancelled, that the baseline is unavailable or that it is complete only when
\* that is so.
THEOREM OutcomesAreTrue == Spec => []OutcomeIsJustified
<1>1. IInv => OutcomeIsJustified
  <2> SUFFICES ASSUME IInv
               PROVE  OutcomeIsJustified
    OBVIOUS
  <2> USE DEF IInv
  <2>1. outcome = "cancelled" => cancelled
    BY DEF Stopping
  <2>2. outcome = "unavailable" =>
          \/ Reliable = {}
          \/ \E i \in DOMAIN scheduled : \A p \in Reliable : scheduled[i] \notin Holds[p]
    <3>1. DOMAIN scheduled = 1 .. Len(scheduled)
      BY DEF CallTypes
    <3> QED
      BY <3>1 DEF GivingUp, Hopeless, Lacking
  <2>3. outcome = "complete" =>
          completed = ChunkCount /\ \A c \in Chunks : store[c] = "good" \/ c \in late
    BY DEF Balanced
  <2> QED
    BY <2>1, <2>2, <2>3 DEF OutcomeIsJustified
<1> QED
  BY <1>1, SwarmInvariant, PTL

=============================================================================
