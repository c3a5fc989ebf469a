------------------------- MODULE SeedPublicationProofs -------------------------
(***************************************************************************)
(* Whatever machines crash, connections break, Coordinators restart and    *)
(* source descriptors return to an older revision: what is recorded,       *)
(* offered or Active was approved, the ranks agree with the baseline, and  *)
(* a Seed that was asked to stop stays silent.                             *)
(***************************************************************************)
EXTENDS SeedPublication, TLAPS

-----------------------------------------------------------------------------
(* The inductive invariant.                                                 *)

Documents == Baselines \cup {NoBaseline}

Steps == {"idle", "connect", "publish", "published?", "mark", "locked", "describe",
          "announce", "announced?", "activate", "serving"}

Runs == [cmd : {"none", "publish", "seed", "sync", "repair"}, step : Steps,
         base : Documents, expected : Documents,
         retrying : BOOLEAN, timer : BOOLEAN, stopped : BOOLEAN]

Links == {"none", "open", "lost"}

Requests == [kind : {"none", "publish", "announce"}, base : Documents,
             share : Shares, proof : BOOLEAN]

Peers == [base : Documents, share : Shares, proof : BOOLEAN, rank : Nat]

(* From these steps on, a command has a baseline that was approved.         *)
Vetted == {"mark", "locked", "describe", "announce", "announced?", "activate", "serving"}

(* What a command, its socket and the request it left behind have to do     *)
(* with each other and with the approved baselines.                         *)
Sound(r, l, q, known) ==
  /\ r.step \in Vetted \/ r.retrying \/ r.cmd = "seed" => r.base \in known
  /\ r.cmd = "publish" => r.base \in Baselines
  /\ r.step \in {"publish", "published?"} => r.cmd = "publish"
  /\ r.step = "connect" /\ ~r.retrying => r.cmd \in {"publish", "seed", "sync"}
  /\ r.timer => r.step = "serving"
  /\ r.step = "idle" => l = "none"
  /\ r.stopped => l = "none" /\ ~r.timer
  /\ q.kind = "publish" =>
       q.base \in Baselines /\ (l = "open" => r.step = "published?" /\ r.base = q.base)
  /\ q.kind = "announce" => q.base \in known /\ (l = "open" => r.step = "announced?")

MachinesOK ==
  /\ run \in [Machines -> Runs]
  /\ link \in [Machines -> Links]
  /\ pending \in [Machines -> Requests]
  /\ \A m \in Machines : Sound(run[m], link[m], pending[m], approved)

DisksOK ==
  /\ docs \in [Machines -> SUBSET Baselines]
  /\ published \in [Machines -> approved \cup {NoBaseline}]
  /\ current \in [Machines -> approved \cup {NoBaseline}]
  /\ source \in approved \cup {NoBaseline}

(* A registry without a baseline has no peers.                              *)
RegistryOK ==
  /\ project \in approved \cup {NoBaseline}
  /\ bootstrap \in Machines \cup {NoOne}
  /\ members \subseteq Machines
  /\ announced \in [Machines -> Peers]
  /\ \A m \in Machines : announced[m].base \in approved \cup {NoBaseline}
  /\ project = NoBaseline => \A m \in Machines : ~HasPeer(m)
  /\ RanksAgree

Inv == approved \subseteq Baselines /\ MachinesOK /\ DisksOK /\ RegistryOK

-----------------------------------------------------------------------------
LEMMA NoBaselineFacts ==
  /\ NoBaseline \in Documents /\ NoBaseline \notin Baselines
  /\ \A d \in Documents : d.rev \in Nat /\ (d.rev = 0 <=> d = NoBaseline)
BY DEF Documents, Baselines, NoBaseline

LEMMA InitialRecords ==
  Idle \in Runs /\ Nothing \in Requests /\ NoPeer \in Peers
BY NoBaselineFacts DEF Idle, Runs, Steps, Nothing, Requests, NoPeer, Peers, Shares

LEMMA InvInit == Init => Inv
<1> SUFFICES ASSUME Init PROVE Inv
  OBVIOUS
<1>1. MachinesOK
  BY InitialRecords DEF Init, MachinesOK, Links, Sound, Idle, Nothing, Vetted
<1>2. DisksOK
  BY DEF Init, DisksOK
<1>3. RegistryOK
  BY InitialRecords DEF Init, RegistryInit, RegistryOK, RanksAgree, HasPeer, NoPeer
<1> QED BY <1>1, <1>2, <1>3 DEF Inv, Init

-----------------------------------------------------------------------------
(* The registry.                                                            *)

(* What stays as it is stays right when more is approved.                   *)
LEMMA RegistryStays ==
  ASSUME RegistryOK, UNCHANGED registryVars, approved \subseteq approved'
  PROVE  RegistryOK'
BY DEF RegistryOK, registryVars, RanksAgree, HasPeer

LEMMA DisksStay ==
  ASSUME DisksOK, UNCHANGED <<docs, published, current, source>>, approved \subseteq approved'
  PROVE  DisksOK'
BY DEF DisksOK

(* A connection goes: with its record its peer goes, and nobody else's rank *)
(* depends on it.                                                           *)
LEMMA GoneStep ==
  ASSUME RegistryOK, NEW m \in Machines, Gone(m), project' = project,
         members' \subseteq Machines, members \ {m} \subseteq members',
         approved' = approved
  PROVE  RegistryOK'
<1> USE DEF RegistryOK
<1>1. announced' = [announced EXCEPT ![m] = NoPeer] /\ bootstrap' \in {bootstrap, NoOne}
  BY DEF Gone
<1>2. \A n \in Machines : announced'[n] = IF n = m THEN NoPeer ELSE announced[n]
  BY <1>1
<1>3. bootstrap' # bootstrap => bootstrap = m
  BY DEF Gone
<1>4. announced' \in [Machines -> Peers]
  BY <1>1, InitialRecords
<1>5. \A n \in Machines : announced'[n].base \in approved \cup {NoBaseline}
  BY <1>2 DEF NoPeer
<1>6. project = NoBaseline => \A n \in Machines : ~(HasPeer(n))'
  BY <1>2 DEF HasPeer
<1>7. RanksAgree'
  <2> SUFFICES ASSUME NEW n \in Machines
               PROVE  /\ n \notin members' => announced'[n] = NoPeer
                      /\ announced'[n] # NoPeer => announced'[n].rank =
                           calculateSeedRank(n, announced'[n], project, bootstrap')
    BY DEF RanksAgree, HasPeer, calculateSeedRank
  <2>1. CASE n = m
    BY <1>2, <2>1
  <2>2. CASE n # m
    <3>1. announced'[n] = announced[n] /\ (n \in members => n \in members')
      BY <1>2, <2>2
    <3>2. n = bootstrap' <=> n = bootstrap
      BY <1>1, <1>3, <2>2, RegistryParameters
    <3> QED BY <3>1, <3>2 DEF RanksAgree, HasPeer, calculateSeedRank
  <2> QED BY <2>1, <2>2
<1> QED BY <1>1, <1>4, <1>5, <1>6, <1>7

LEMMA RankType ==
  ASSUME NEW m \in Machines, NEW peer \in Peers, NEW baseline, NEW first
  PROVE  /\ Ranked(m, peer, baseline, first) \in Peers
         /\ Ranked(m, peer, baseline, first).base = peer.base
         /\ Ranked(m, peer, baseline, first).rank =
              calculateSeedRank(m, Ranked(m, peer, baseline, first), baseline, first)
<1>1. calculateSeedRank(m, peer, baseline, first) \in Nat
  BY DEF calculateSeedRank, Peers, Shares
<1> DEFINE rank == calculateSeedRank(m, peer, baseline, first)
           after == [peer EXCEPT !.rank = rank]
<1>2. /\ after.base = peer.base /\ after.share = peer.share /\ after.proof = peer.proof
      /\ after.rank = rank
  BY DEF Peers
<1>3. calculateSeedRank(m, after, baseline, first) = rank
  BY <1>2 DEF calculateSeedRank
<1>4. after \in Peers
  BY <1>1 DEF Peers
<1> QED BY <1>2, <1>3, <1>4 DEF Ranked

LEMMA AnnounceStep ==
  ASSUME RegistryOK, NEW m \in Machines, NEW d \in approved, approved \subseteq Baselines,
         NEW share \in Shares, NEW proof \in BOOLEAN, Announce(m, d, share, proof),
         approved' = approved
  PROVE  RegistryOK'
<1> USE DEF RegistryOK
<1> DEFINE base == IF project = NoBaseline THEN d ELSE project
           peer == [base |-> d, share |-> share, proof |-> proof, rank |-> 99]
           ranked == Ranked(m, peer, base, bootstrap)
<1>1. /\ m \in members /\ members' = members /\ bootstrap' = bootstrap /\ project' = base
      /\ announced' = [announced EXCEPT ![m] = ranked]
  BY DEF Announce
<1>2. peer \in Peers
  BY DEF Peers, Documents
<1>3. ranked \in Peers /\ ranked.base = d
      /\ ranked.rank = calculateSeedRank(m, ranked, base, bootstrap)
  <2> HIDE DEF base
  <2>1. peer.base = d
    OBVIOUS
  <2> HIDE DEF peer
  <2> QED BY <1>2, <2>1, RankType
<1>4. base \in approved /\ base # NoBaseline
  BY NoBaselineFacts
<1> HIDE DEF ranked
<1>5. \A n \in Machines : announced'[n] = IF n = m THEN ranked ELSE announced[n]
  BY <1>1
<1>6. \A n \in Machines : HasPeer(n) => base = project
  OBVIOUS
<1> HIDE DEF base
<1>7. RanksAgree'
  <2> SUFFICES ASSUME NEW n \in Machines
               PROVE  /\ n \notin members => announced'[n] = NoPeer
                      /\ announced'[n] # NoPeer => announced'[n].rank =
                           calculateSeedRank(n, announced'[n], base, bootstrap)
    BY <1>1 DEF RanksAgree, HasPeer, calculateSeedRank
  <2>1. CASE n = m
    BY <1>1, <1>3, <1>5, <2>1
  <2>2. CASE n # m
    BY <1>5, <1>6, <2>2 DEF RanksAgree, HasPeer
  <2> QED BY <2>1, <2>2
<1>8. announced' \in [Machines -> Peers]
  BY <1>1, <1>3
<1>9. \A n \in Machines : announced'[n].base \in approved \cup {NoBaseline}
  BY <1>3, <1>5
<1> QED BY <1>1, <1>4, <1>7, <1>8, <1>9

(* A publication that is accepted is approved by that, and every peer is    *)
(* ranked again.                                                            *)
LEMMA PublishStep ==
  ASSUME RegistryOK, approved \subseteq Baselines, NEW m \in Machines, NEW d \in Baselines,
         Publish(m, d),
         approved' = IF PublishVerdict(d) = "accepted" THEN approved \cup {d} ELSE approved
  PROVE  /\ RegistryOK'
         /\ approved \subseteq approved' /\ approved' \subseteq Baselines
         /\ PublishVerdict(d) \in {"accepted", "idempotent"} => d \in approved'
<1> USE DEF RegistryOK
<1>1. approved \subseteq approved' /\ approved' \subseteq Baselines
  OBVIOUS
<1>2. CASE PublishVerdict(d) # "accepted"
  <2>1. UNCHANGED registryVars /\ approved' = approved
    BY <1>2 DEF Publish, registryVars
  <2>2. PublishVerdict(d) = "idempotent" => d = project /\ project # NoBaseline
    <3>1. d # NoBaseline
      BY NoBaselineFacts
    <3>2. CASE project = NoBaseline
      BY <3>1, <3>2 DEF PublishVerdict
    <3>3. CASE project # NoBaseline
      BY <3>3 DEF PublishVerdict
    <3> QED BY <3>2, <3>3
  <2>3. PublishVerdict(d) = "idempotent" => d \in approved'
    BY <2>1, <2>2
  <2>4. /\ project' = project /\ bootstrap' = bootstrap
        /\ members' = members /\ announced' = announced
    BY <2>1 DEF registryVars
  <2>5. RanksAgree'
    BY <2>4 DEF RanksAgree, HasPeer
  <2> QED BY <1>1, <1>2, <2>1, <2>3, <2>4, <2>5 DEF HasPeer
<1>3. CASE PublishVerdict(d) = "accepted"
  <2>1. /\ project' = d /\ members' = members
        /\ bootstrap' \in Machines \cup {NoOne}
        /\ announced' = recalculateProjectPeers(d, bootstrap')
        /\ d \in approved'
    BY <1>3 DEF Publish
  <2>2. \A n \in Machines :
          announced'[n] = IF HasPeer(n) THEN Ranked(n, announced[n], d, bootstrap')
                          ELSE announced[n]
    BY <2>1 DEF recalculateProjectPeers
  <2>3. \A n \in Machines :
          /\ Ranked(n, announced[n], d, bootstrap') \in Peers
          /\ Ranked(n, announced[n], d, bootstrap').base = announced[n].base
          /\ Ranked(n, announced[n], d, bootstrap').rank =
               calculateSeedRank(n, Ranked(n, announced[n], d, bootstrap'), d, bootstrap')
    BY RankType
  <2>4. announced' \in [Machines -> Peers]
    BY <2>1, <2>3 DEF recalculateProjectPeers
  <2>5. \A n \in Machines : announced'[n].base \in approved' \cup {NoBaseline}
    BY <1>1, <2>2, <2>3
  <2>6. RanksAgree'
    <3> SUFFICES ASSUME NEW n \in Machines
                 PROVE  /\ n \notin members => announced'[n] = NoPeer
                        /\ announced'[n] # NoPeer => announced'[n].rank =
                             calculateSeedRank(n, announced'[n], d, bootstrap')
      BY <2>1 DEF RanksAgree, HasPeer, calculateSeedRank
    <3> QED BY <2>2, <2>3 DEF RanksAgree, HasPeer
  <2>7. d # NoBaseline
    BY NoBaselineFacts
  <2> QED BY <1>1, <2>1, <2>4, <2>5, <2>6, <2>7
<1> QED BY <1>2, <1>3

LEMMA ClearStep ==
  ASSUME Clear, approved' = approved
  PROVE  RegistryOK'
BY InitialRecords DEF Clear, RegistryOK, RanksAgree, HasPeer, NoPeer

-----------------------------------------------------------------------------
(* The machines: a step of one leaves the others alone.                     *)

LEMMA MachineStep ==
  ASSUME MachinesOK, approved \subseteq approved', NEW m \in Machines,
         NEW r \in Runs, NEW l \in Links, NEW q \in Requests,
         run' = [run EXCEPT ![m] = r],
         link' = [link EXCEPT ![m] = l],
         pending' = [pending EXCEPT ![m] = q],
         Sound(r, l, q, approved')
  PROVE  MachinesOK'
<1>1. /\ run' \in [Machines -> Runs] /\ link' \in [Machines -> Links]
      /\ pending' \in [Machines -> Requests]
  BY DEF MachinesOK
<1>2. ASSUME NEW n \in Machines
      PROVE  Sound(run'[n], link'[n], pending'[n], approved')
  <2>1. CASE n = m
    BY <2>1 DEF MachinesOK
  <2>2. CASE n # m
    <3>1. run'[n] = run[n] /\ link'[n] = link[n] /\ pending'[n] = pending[n]
      BY <2>2 DEF MachinesOK
    <3>2. Sound(run[n], link[n], pending[n], approved)
      BY DEF MachinesOK
    <3> QED BY <3>1, <3>2 DEF Sound
  <2> QED BY <2>1, <2>2
<1> QED BY <1>1, <1>2 DEF MachinesOK

LEMMA MachineFacts ==
  ASSUME MachinesOK, NEW m \in Machines
  PROVE  /\ run[m] \in Runs /\ link[m] \in Links /\ pending[m] \in Requests
         /\ Sound(run[m], link[m], pending[m], approved)
         /\ run = [run EXCEPT ![m] = run[m]]
         /\ link = [link EXCEPT ![m] = link[m]]
         /\ pending = [pending EXCEPT ![m] = pending[m]]
BY DEF MachinesOK

(* The command that ends, and the call that fails.                          *)
LEMMA EndsSound ==
  ASSUME NEW q \in Requests, NEW r, NEW l, NEW known, Sound(r, l, q, known)
  PROVE  Sound(Idle, "none", q, known)
BY DEF Sound, Idle, Vetted

FailedRun(r) ==
  IF ~r.retrying THEN Idle
  ELSE [r EXCEPT !.step = "serving", !.retrying = FALSE, !.timer = ~r.stopped]

LEMMA FailsSound ==
  ASSUME NEW r \in Runs, NEW l, NEW q \in Requests, NEW known, Sound(r, l, q, known)
  PROVE  FailedRun(r) \in Runs /\ Sound(FailedRun(r), "none", q, known)
<1>1. CASE ~r.retrying
  BY <1>1, InitialRecords, EndsSound DEF FailedRun
<1>2. CASE r.retrying
  BY <1>2 DEF FailedRun, Runs, Steps, Sound, Vetted
<1> QED BY <1>1, <1>2

LEMMA FailsStep ==
  ASSUME MachinesOK, NEW m \in Machines, Fails(m), UNCHANGED <<pending, approved>>
  PROVE  MachinesOK'
<1>1. /\ run' = [run EXCEPT ![m] = FailedRun(run[m])]
      /\ link' = [link EXCEPT ![m] = "none"]
  BY DEF Fails, FailedRun, MachinesOK
<1>2. /\ FailedRun(run[m]) \in Runs
      /\ Sound(FailedRun(run[m]), "none", pending[m], approved')
  BY MachineFacts, FailsSound
<1>3. pending' = [pending EXCEPT ![m] = pending[m]] /\ pending[m] \in Requests
  BY MachineFacts
<1> QED BY <1>1, <1>2, <1>3, MachineStep DEF Links

LEMMA EndsStep ==
  ASSUME MachinesOK, NEW m \in Machines, Ends(m), UNCHANGED <<pending, approved>>
  PROVE  MachinesOK'
<1>1. /\ run' = [run EXCEPT ![m] = Idle] /\ link' = [link EXCEPT ![m] = "none"]
      /\ pending' = [pending EXCEPT ![m] = pending[m]] /\ pending[m] \in Requests
  BY MachineFacts DEF Ends
<1>2. Idle \in Runs /\ Sound(Idle, "none", pending[m], approved')
  BY MachineFacts, InitialRecords, EndsSound
<1> QED BY <1>1, <1>2, MachineStep DEF Links

(* A command goes on to its next step, its socket and request as they were. *)
LEMMA GotoStep ==
  ASSUME MachinesOK, NEW m \in Machines,
         NEW step \in {"locked", "describe", "announce", "mark", "activate"}, Goto(m, step),
         run[m].step \in {"mark", "locked", "describe"},
         UNCHANGED <<link, pending, approved>>
  PROVE  MachinesOK'
<1> DEFINE r == [run[m] EXCEPT !.step = step]
<1>1. run[m] \in Runs /\ Sound(run[m], link[m], pending[m], approved)
  BY MachineFacts
<1>2. r \in Runs /\ Sound(r, link[m], pending[m], approved')
  BY <1>1 DEF Runs, Steps, Sound, Vetted
<1>3. run' = [run EXCEPT ![m] = r]
  BY DEF Goto
<1> HIDE DEF r
<1> QED BY <1>2, <1>3, MachineFacts, MachineStep

-----------------------------------------------------------------------------
(* One lemma per action: the start of a command.                            *)

(* A command begins on a machine that has none.                             *)
LEMMA StartStep ==
  ASSUME MachinesOK, NEW m \in Machines, MayStart(m), NEW r \in Runs, Starts(m, r),
         r.step \in {"connect", "mark"}, ~r.timer, ~r.stopped,
         r.step = "connect" => r.cmd \in {"publish", "seed", "sync"},
         r.step = "mark" \/ r.retrying \/ r.cmd = "seed" => r.base \in approved,
         r.cmd = "publish" => r.base \in Baselines,
         UNCHANGED <<link, approved>>,
         \/ UNCHANGED pending
         \/ pending' = [pending EXCEPT ![m] = Nothing]
  PROVE  MachinesOK'
<1>1. run[m].step = "idle" /\ link[m] = "none"
  BY MachineFacts DEF MayStart, At, Sound
<1>2. PICK q \in Requests : pending' = [pending EXCEPT ![m] = q] /\ q \in {pending[m], Nothing}
  BY MachineFacts, InitialRecords
<1>3. Sound(r, "none", q, approved')
  BY <1>1, <1>2, MachineFacts DEF Sound, Vetted, Nothing
<1>4. run' = [run EXCEPT ![m] = r]
  BY DEF Starts
<1>5. link' = [link EXCEPT ![m] = "none"]
  BY <1>1, MachineFacts
<1> QED BY <1>2, <1>3, <1>4, <1>5, MachineStep DEF Links

LEMMA DiscoversStep ==
  ASSUME RegistryOK, NEW m \in Machines, Discovers(m), UNCHANGED <<project, approved>>
  PROVE  RegistryOK' /\ pending' = [pending EXCEPT ![m] = Nothing]
<1>1. Gone(m) /\ members' = members \ {m} /\ pending' = [pending EXCEPT ![m] = Nothing]
  BY DEF Discovers
<1>2. members' \subseteq Machines /\ members \ {m} \subseteq members'
  BY <1>1 DEF RegistryOK
<1> QED BY <1>1, <1>2, GoneStep

LEMMA PlanPublishStep ==
  ASSUME Inv, NEW m \in Machines, PlanPublish(m)
  PROVE  Inv'
<1> USE DEF Inv
<1>1. PICK t \in Texts :
        LET d == [rev |-> project.rev + 1, text |-> t]
        IN /\ docs' = [docs EXCEPT ![m] = @ \cup {d}]
           /\ Starts(m, Begin("publish", "connect", d, source))
  BY DEF PlanPublish
<1> DEFINE d == [rev |-> project.rev + 1, text |-> t]
           r == Begin("publish", "connect", d, source)
<1>2. d \in Baselines
  BY NoBaselineFacts DEF RegistryOK, Documents, Baselines
<1>3. source \in Documents
  BY DEF DisksOK, Documents
<1>4. docs' = [docs EXCEPT ![m] = @ \cup {d}] /\ Starts(m, r)
  BY <1>1
<1>5. UNCHANGED <<project, published, current, source, link, approved>> /\ Discovers(m) /\ MayStart(m)
  BY DEF PlanPublish
<1> HIDE DEF d
<1>6. /\ r \in Runs /\ r.step = "connect" /\ ~r.timer /\ ~r.stopped /\ ~r.retrying
      /\ r.cmd = "publish" /\ r.base = d
  BY <1>2, <1>3 DEF Begin, Idle, Runs, Steps, Documents
<1> HIDE DEF r
<1>7. RegistryOK' /\ pending' = [pending EXCEPT ![m] = Nothing]
  BY <1>5, DiscoversStep
<1>8. MachinesOK'
  BY <1>2, <1>4, <1>5, <1>6, <1>7, StartStep
<1>9. DisksOK'
  BY <1>2, <1>4, <1>5 DEF DisksOK
<1> QED BY <1>5, <1>7, <1>8, <1>9

LEMMA StartSeedStep ==
  ASSUME Inv, NEW m \in Machines, StartSeed(m)
  PROVE  Inv'
<1> USE DEF Inv
<1> DEFINE d == IF current[m] # NoBaseline THEN current[m] ELSE published[m]
           r == Begin("seed", "connect", d, NoBaseline)
<1>1. /\ MayStart(m) /\ d # NoBaseline /\ Starts(m, r)
      /\ UNCHANGED <<registryVars, diskVars, link, pending, approved>>
  BY DEF StartSeed
<1>2. d \in approved
  BY <1>1 DEF DisksOK
<1> HIDE DEF d
<1>3. /\ r \in Runs /\ r.step = "connect" /\ ~r.timer /\ ~r.stopped /\ ~r.retrying
      /\ r.cmd = "seed" /\ r.base = d
  BY <1>2 DEF Begin, Idle, Runs, Steps, Documents
<1> HIDE DEF r
<1>4. MachinesOK'
  BY <1>1, <1>2, <1>3, StartStep
<1> QED BY <1>1, <1>4, RegistryStays, DisksStay DEF diskVars

LEMMA StartSyncStep ==
  ASSUME Inv, NEW m \in Machines, StartSync(m)
  PROVE  Inv'
<1> USE DEF Inv
<1> DEFINE r == Begin("sync", "connect", NoBaseline, NoBaseline)
<1>1. MayStart(m) /\ Starts(m, r) /\ UNCHANGED <<registryVars, diskVars, link, pending, approved>>
  BY DEF StartSync
<1>2. /\ r \in Runs /\ r.step = "connect" /\ ~r.timer /\ ~r.stopped /\ ~r.retrying
      /\ r.cmd = "sync"
  BY DEF Begin, Idle, Runs, Steps, Documents
<1> HIDE DEF r
<1>3. MachinesOK'
  BY <1>1, <1>2, StartStep
<1> QED BY <1>1, <1>3, RegistryStays, DisksStay DEF diskVars

LEMMA RepairStep ==
  ASSUME Inv, NEW m \in Machines, Repair(m)
  PROVE  Inv'
<1> USE DEF Inv
<1>1. PICK d \in Repairable(m) : source' = d /\ Starts(m, Begin("repair", "mark", d, source))
  BY DEF Repair
<1>2. d \in Baselines /\ d = project
  BY <1>1 DEF Repairable, DisksOK
<1>3. d \in approved
  BY <1>2, NoBaselineFacts DEF RegistryOK
<1>4. /\ MayStart(m) /\ Discovers(m)
      /\ UNCHANGED <<project, docs, published, current, link, approved>>
  BY DEF Repair
<1> DEFINE r == Begin("repair", "mark", d, source)
<1>5. /\ r \in Runs /\ r.step = "mark" /\ ~r.timer /\ ~r.stopped /\ ~r.retrying
      /\ r.cmd = "repair" /\ r.base = d
  BY <1>2 DEF Begin, Idle, Runs, Steps, Documents, DisksOK
<1>6. Starts(m, r)
  BY <1>1
<1> HIDE DEF r
<1>7. RegistryOK' /\ pending' = [pending EXCEPT ![m] = Nothing]
  BY <1>4, DiscoversStep
<1>8. MachinesOK'
  BY <1>3, <1>4, <1>5, <1>6, <1>7, StartStep
<1>9. DisksOK'
  BY <1>1, <1>3, <1>4 DEF DisksOK
<1> QED BY <1>4, <1>7, <1>8, <1>9

-----------------------------------------------------------------------------
(* One lemma per action: the call under way.                                *)

LEMMA ConnectStep ==
  ASSUME Inv, NEW m \in Machines, Connect(m)
  PROVE  Inv'
<1> USE DEF Inv
<1> DEFINE sync == run[m].cmd = "sync"
           d == IF sync THEN project ELSE run[m].base
           next == CASE run[m].cmd = "publish" /\ ~run[m].retrying -> "publish"
                     [] sync                                      -> "mark"
                     [] OTHER                                      -> "announce"
           r == [run[m] EXCEPT !.base = d, !.step = next]
<1>1. /\ run[m].step = "connect" /\ ~run[m].stopped /\ Register(m)
      /\ sync => project # NoBaseline
      /\ docs' = IF sync THEN [docs EXCEPT ![m] = @ \cup {d}] ELSE docs
      /\ link' = [link EXCEPT ![m] = "open"]
      /\ pending' = [pending EXCEPT ![m] = Nothing]
      /\ UNCHANGED <<published, current, source, approved>>
  BY DEF Connect, At, history
<1>2. run' = [run EXCEPT ![m] = r]
  BY MachineFacts DEF Connect, MachinesOK
<1>3. run[m] \in Runs /\ Sound(run[m], link[m], pending[m], approved)
  BY MachineFacts
<1>4. sync => d \in approved
  BY <1>1 DEF RegistryOK
<1>5. next \in {"publish", "mark", "announce"} /\ (next = "publish" <=>
        run[m].cmd = "publish" /\ ~run[m].retrying)
  OBVIOUS
<1>6. next # "publish" => d \in approved
  BY <1>1, <1>3, <1>4, <1>5 DEF Sound
<1>7. d \in Documents
  BY <1>3, <1>4 DEF Runs, Documents
<1>8. r \in Runs
  BY <1>3, <1>5, <1>7 DEF Runs, Steps
<1>9. /\ r.step = next /\ r.base = d /\ r.cmd = run[m].cmd /\ r.retrying = run[m].retrying
      /\ r.timer = run[m].timer /\ r.stopped = run[m].stopped
  BY <1>3 DEF Runs
<1>10. run[m].cmd = "publish" => d \in Baselines
  BY <1>3 DEF Sound
<1>11. run[m].retrying \/ run[m].cmd = "seed" => next # "publish"
  BY <1>5
<1> HIDE DEF sync, d, next, r
<1>12. Sound(r, "open", Nothing, approved')
  BY <1>1, <1>3, <1>5, <1>6, <1>9, <1>10, <1>11 DEF Sound, Vetted, Nothing
<1>13. MachinesOK'
  BY <1>1, <1>2, <1>8, <1>12, InitialRecords, MachineStep DEF Links
<1>14. RegistryOK'
  BY <1>1, GoneStep DEF Register, RegistryOK
<1>15. DisksOK'
  BY <1>1, <1>4 DEF DisksOK
<1> QED BY <1>1, <1>13, <1>14, <1>15

LEMMA SendPublishStep ==
  ASSUME Inv, NEW m \in Machines, SendPublish(m)
  PROVE  Inv'
<1> USE DEF Inv
<1> DEFINE q == [Nothing EXCEPT !.kind = "publish", !.base = run[m].base]
           r == [run[m] EXCEPT !.step = "published?"]
<1>1. /\ run[m].step = "publish" /\ link[m] = "open"
      /\ pending' = [pending EXCEPT ![m] = q] /\ run' = [run EXCEPT ![m] = r]
      /\ UNCHANGED <<registryVars, diskVars, link, approved>>
  BY DEF SendPublish, Send, Goto, At, history
<1>2. run[m] \in Runs /\ Sound(run[m], link[m], pending[m], approved)
  BY MachineFacts
<1>3. q \in Requests /\ q.kind = "publish" /\ q.base = run[m].base
  BY <1>2 DEF Nothing, Requests, Runs, Shares
<1>4. r \in Runs /\ r.step = "published?" /\ r.base = run[m].base /\ r.cmd = run[m].cmd
      /\ r.retrying = run[m].retrying /\ r.timer = run[m].timer /\ r.stopped = run[m].stopped
  BY <1>2 DEF Runs, Steps
<1> HIDE DEF q, r
<1>5. Sound(r, link[m], q, approved')
  BY <1>1, <1>2, <1>3, <1>4 DEF Sound, Vetted
<1>6. MachinesOK'
  BY <1>1, <1>3, <1>4, <1>5, MachineFacts, MachineStep
<1> QED BY <1>1, <1>6, RegistryStays, DisksStay DEF diskVars

LEMMA SendAnnounceStep ==
  ASSUME Inv, NEW m \in Machines, SendAnnounce(m)
  PROVE  Inv'
<1> USE DEF Inv
<1>1. PICK share \in Inventory[m] :
        Send(m, [kind |-> "announce", base |-> run[m].base, share |-> share,
                 proof |-> m = Publisher /\ run[m].cmd # "sync"])
  BY DEF SendAnnounce
<1> DEFINE proof == m = Publisher /\ run[m].cmd # "sync"
           q == [kind |-> "announce", base |-> run[m].base, share |-> share, proof |-> proof]
           r == [run[m] EXCEPT !.step = "announced?"]
<1>2. /\ run[m].step = "announce" /\ link[m] = "open"
      /\ pending' = [pending EXCEPT ![m] = q] /\ run' = [run EXCEPT ![m] = r]
      /\ UNCHANGED <<registryVars, diskVars, link, approved>>
  BY <1>1 DEF SendAnnounce, Send, Goto, At, history
<1>3. run[m] \in Runs /\ Sound(run[m], link[m], pending[m], approved)
  BY MachineFacts
<1>4. share \in Shares
  BY PublicationParameters
<1>5. proof \in BOOLEAN
  OBVIOUS
<1> HIDE DEF proof
<1>6. q \in Requests /\ q.kind = "announce" /\ q.base = run[m].base
  BY <1>3, <1>4, <1>5 DEF Requests, Runs
<1>7. r \in Runs /\ r.step = "announced?" /\ r.base = run[m].base /\ r.cmd = run[m].cmd
      /\ r.retrying = run[m].retrying /\ r.timer = run[m].timer /\ r.stopped = run[m].stopped
  BY <1>3 DEF Runs, Steps
<1> HIDE DEF q, r
<1>8. Sound(r, link[m], q, approved')
  BY <1>2, <1>3, <1>6, <1>7 DEF Sound, Vetted
<1>9. MachinesOK'
  BY <1>2, <1>6, <1>7, <1>8, MachineFacts, MachineStep
<1> QED BY <1>2, <1>9, RegistryStays, DisksStay DEF diskVars

LEMMA TakeLockStep ==
  ASSUME Inv, NEW m \in Machines, TakeLock(m)
  PROVE  Inv'
<1> USE DEF Inv
<1>1. /\ run[m].step = "mark" /\ Goto(m, "locked")
      /\ UNCHANGED <<registryVars, docs, published, current, source, link, pending, approved>>
  BY DEF TakeLock, At, history
<1>2. MachinesOK'
  BY <1>1, GotoStep
<1> QED BY <1>1, <1>2, RegistryStays, DisksStay

LEMMA MarkPublishedStep ==
  ASSUME Inv, NEW m \in Machines, MarkPublished(m)
  PROVE  Inv'
<1> USE DEF Inv
<1>1. /\ run[m].step = "locked"
      /\ published' = [published EXCEPT ![m] = run[m].base]
      /\ UNCHANGED <<registryVars, docs, current, source, pending, approved>>
  BY DEF MarkPublished, At, history
<1>2. \/ Goto(m, "describe") /\ UNCHANGED link
      \/ Goto(m, "announce") /\ UNCHANGED link
      \/ Ends(m)
  BY DEF MarkPublished
<1>3. MachinesOK'
  BY <1>1, <1>2, GotoStep, EndsStep
<1>4. run[m].base \in approved
  BY <1>1, MachineFacts DEF Sound, Vetted
<1>5. DisksOK'
  BY <1>1, <1>4 DEF DisksOK
<1> QED BY <1>1, <1>3, <1>5, RegistryStays

LEMMA WriteSourceStep ==
  ASSUME Inv, NEW m \in Machines, WriteSource(m)
  PROVE  Inv'
<1> USE DEF Inv
<1>1. /\ run[m].step = "describe" /\ source' = run[m].base /\ Goto(m, "announce")
      /\ UNCHANGED <<registryVars, docs, published, current, link, pending, approved>>
  BY DEF WriteSource, At, history
<1>2. MachinesOK'
  BY <1>1, GotoStep
<1>3. run[m].base \in approved
  BY <1>1, MachineFacts DEF Sound, Vetted
<1>4. DisksOK'
  BY <1>1, <1>3 DEF DisksOK
<1> QED BY <1>1, <1>2, <1>4, RegistryStays

LEMMA ActivateStep ==
  ASSUME Inv, NEW m \in Machines, Activate(m)
  PROVE  Inv'
<1> USE DEF Inv
<1>1. /\ run[m].step = "activate" /\ Ends(m)
      /\ current' \in {current, [current EXCEPT ![m] = run[m].base]}
      /\ UNCHANGED <<registryVars, docs, published, source, pending, approved>>
  BY DEF Activate, At, history
<1>2. MachinesOK'
  BY <1>1, EndsStep
<1>3. run[m].base \in approved
  BY <1>1, MachineFacts DEF Sound, Vetted
<1>4. DisksOK'
  BY <1>1, <1>3 DEF DisksOK
<1> QED BY <1>1, <1>2, <1>4, RegistryStays

LEMMA FailureStep ==
  ASSUME Inv, NEW m \in Machines, CallFails(m) \/ MarkFails(m)
  PROVE  Inv'
<1> USE DEF Inv
<1>1. /\ Fails(m)
      /\ UNCHANGED <<registryVars, docs, published, current, source, pending, approved>>
  BY DEF CallFails, MarkFails, diskVars, history
<1>2. MachinesOK'
  BY <1>1, FailsStep
<1> QED BY <1>1, <1>2, RegistryStays, DisksStay

-----------------------------------------------------------------------------
(* One lemma per action: the running Seed, its stop and its end.            *)

(* The request has been handled, and more may be approved than before.      *)
LEMMA SoundAnswered ==
  ASSUME NEW r, NEW l, NEW q, NEW known, NEW more, known \subseteq more, Sound(r, l, q, known)
  PROVE  Sound(r, l, Nothing, more)
BY DEF Sound, Nothing

(* A step of one machine that touches its command and its socket only.      *)
LEMMA OwnStep ==
  ASSUME Inv, NEW m \in Machines, NEW r \in Runs, NEW l \in Links,
         run' = [run EXCEPT ![m] = r], link' = [link EXCEPT ![m] = l],
         Sound(r, l, pending[m], approved),
         UNCHANGED <<registryVars, diskVars, pending, approved>>
  PROVE  Inv'
<1> USE DEF Inv
<1>1. MachinesOK'
  BY MachineFacts, MachineStep
<1> QED BY <1>1, RegistryStays, DisksStay DEF diskVars

LEMMA NoticeCloseStep ==
  ASSUME Inv, NEW m \in Machines, NoticeClose(m)
  PROVE  Inv'
<1> DEFINE on == run[m].timer \/ (~Connecting(m) /\ ~run[m].stopped)
           r == [run[m] EXCEPT !.timer = on]
<1>1. /\ link[m] = "lost" /\ link' = [link EXCEPT ![m] = "none"]
      /\ run' = [run EXCEPT ![m].timer = on]
      /\ UNCHANGED <<registryVars, diskVars, pending, approved>>
  BY DEF NoticeClose, Connecting, At, history
<1>2. run[m] \in Runs /\ Sound(run[m], link[m], pending[m], approved)
  BY MachineFacts DEF Inv
<1>3. on \in BOOLEAN /\ (on => run[m].step = "serving" /\ ~run[m].stopped)
  BY <1>1, <1>2 DEF Sound, Connecting, At, Runs
<1>4. run' = [run EXCEPT ![m] = r]
  BY <1>1 DEF Inv, MachinesOK
<1> HIDE DEF on
<1>5. r \in Runs /\ Sound(r, "none", pending[m], approved)
  BY <1>1, <1>2, <1>3 DEF Runs, Sound
<1> HIDE DEF r
<1> QED BY <1>1, <1>4, <1>5, OwnStep DEF Links

LEMMA TimerFiresStep ==
  ASSUME Inv, NEW m \in Machines, TimerFires(m)
  PROVE  Inv'
<1> DEFINE r == [run[m] EXCEPT !.timer = FALSE, !.retrying = TRUE, !.step = "connect"]
<1>1. /\ run[m].timer /\ run' = [run EXCEPT ![m] = r]
      /\ UNCHANGED <<registryVars, diskVars, link, pending, approved>>
  BY DEF TimerFires, history, Inv, MachinesOK
<1>2. run[m] \in Runs /\ Sound(run[m], link[m], pending[m], approved)
  BY MachineFacts DEF Inv
<1>3. r \in Runs /\ Sound(r, link[m], pending[m], approved)
  BY <1>1, <1>2 DEF Runs, Steps, Sound, Vetted
<1>4. link' = [link EXCEPT ![m] = link[m]] /\ link[m] \in Links
  BY <1>1, MachineFacts DEF Inv
<1> HIDE DEF r
<1> QED BY <1>1, <1>3, <1>4, OwnStep

LEMMA StopStep ==
  ASSUME Inv, NEW m \in Machines, Stop(m)
  PROVE  Inv'
<1> DEFINE r == [run[m] EXCEPT !.stopped = TRUE, !.timer = FALSE]
<1>1. /\ run' = [run EXCEPT ![m] = r] /\ link' = [link EXCEPT ![m] = "none"]
      /\ UNCHANGED <<registryVars, diskVars, pending, approved>>
  BY DEF Stop, history, Inv, MachinesOK
<1>2. run[m] \in Runs /\ Sound(run[m], link[m], pending[m], approved)
  BY MachineFacts DEF Inv
<1>3. r \in Runs /\ Sound(r, "none", pending[m], approved)
  BY <1>2 DEF Runs, Sound
<1> HIDE DEF r
<1> QED BY <1>1, <1>3, OwnStep DEF Links

LEMMA EndStep ==
  ASSUME Inv, NEW m \in Machines, Stopped(m) \/ Crash(m)
  PROVE  Inv'
<1> USE DEF Inv
<1>1. Ends(m) /\ UNCHANGED <<registryVars, diskVars, pending, approved>>
  BY DEF Stopped, Crash, history
<1>2. MachinesOK'
  BY <1>1, EndsStep
<1> QED BY <1>1, <1>2, RegistryStays, DisksStay DEF diskVars

-----------------------------------------------------------------------------
(* One lemma per action: the Coordinator.                                   *)

LEMMA HandlePublishStep ==
  ASSUME Inv, NEW m \in Machines, HandlePublish(m)
  PROVE  Inv'
<1> USE DEF Inv
<1> DEFINE d == pending[m].base
           verdict == PublishVerdict(d)
           r == [run[m] EXCEPT !.step = "mark"]
<1>1. /\ pending[m].kind = "publish" /\ Publish(m, d)
      /\ approved' = IF verdict = "accepted" THEN approved \cup {d} ELSE approved
      /\ pending' = [pending EXCEPT ![m] = Nothing]
      /\ UNCHANGED diskVars
  BY DEF HandlePublish
<1>2. \/ UNCHANGED runVars
      \/ /\ link[m] = "open" /\ verdict \in {"accepted", "idempotent"}
         /\ Goto(m, "mark") /\ UNCHANGED link
      \/ Fails(m)
  BY DEF HandlePublish
<1>3. run[m] \in Runs /\ Sound(run[m], link[m], pending[m], approved)
  BY MachineFacts
<1>4. d \in Baselines
  BY <1>1, <1>3 DEF Sound
<1>5. /\ RegistryOK' /\ approved \subseteq approved' /\ approved' \subseteq Baselines
      /\ verdict \in {"accepted", "idempotent"} => d \in approved'
  BY <1>1, <1>4, PublishStep
<1>6. Sound(run[m], link[m], Nothing, approved')
  BY <1>3, <1>5, SoundAnswered
<1> HIDE DEF verdict
<1>7. MachinesOK'
  <2>1. CASE UNCHANGED runVars
    <3>1. run' = [run EXCEPT ![m] = run[m]] /\ link' = [link EXCEPT ![m] = link[m]]
      BY <2>1, MachineFacts DEF runVars
    <3> QED BY <1>1, <1>5, <1>6, <3>1, MachineFacts, InitialRecords, MachineStep
  <2>2. CASE /\ link[m] = "open" /\ verdict \in {"accepted", "idempotent"}
             /\ Goto(m, "mark") /\ UNCHANGED link
    <3>1. run[m].step = "published?" /\ run[m].base \in approved'
      BY <1>1, <1>3, <1>5, <2>2 DEF Sound
    <3>2. r \in Runs /\ Sound(r, link[m], Nothing, approved')
      BY <1>3, <1>6, <2>2, <3>1 DEF Runs, Steps, Sound, Vetted, Nothing
    <3>3. run' = [run EXCEPT ![m] = r] /\ link' = [link EXCEPT ![m] = link[m]]
      BY <2>2, MachineFacts DEF Goto
    <3> HIDE DEF r
    <3> QED BY <1>1, <1>5, <3>2, <3>3, MachineFacts, InitialRecords, MachineStep
  <2>3. CASE Fails(m)
    <3>1. run' = [run EXCEPT ![m] = FailedRun(run[m])] /\ link' = [link EXCEPT ![m] = "none"]
      BY <2>3 DEF Fails, FailedRun, MachinesOK
    <3>2. FailedRun(run[m]) \in Runs /\ Sound(FailedRun(run[m]), "none", Nothing, approved')
      BY <1>3, <1>6, InitialRecords, FailsSound
    <3> QED BY <1>1, <1>5, <3>1, <3>2, InitialRecords, MachineStep DEF Links
  <2> QED BY <1>2, <2>1, <2>2, <2>3
<1>8. DisksOK'
  BY <1>1, <1>5, DisksStay DEF diskVars
<1> QED BY <1>5, <1>7, <1>8

LEMMA HandleAnnounceStep ==
  ASSUME Inv, NEW m \in Machines, HandleAnnounce(m)
  PROVE  Inv'
<1> USE DEF Inv
<1>1. /\ pending[m].kind = "announce"
      /\ Announce(m, pending[m].base, pending[m].share, pending[m].proof)
      /\ pending' = [pending EXCEPT ![m] = Nothing]
      /\ UNCHANGED <<diskVars, link, approved>>
  BY DEF HandleAnnounce, history
<1>2. IF link[m] = "open" THEN AfterAnnounce(m, pending[m].share) ELSE UNCHANGED run
  BY DEF HandleAnnounce
<1>3. /\ run[m] \in Runs /\ link[m] \in Links /\ pending[m] \in Requests
      /\ Sound(run[m], link[m], pending[m], approved)
  BY MachineFacts
<1>4. pending[m].base \in approved /\ (link[m] = "open" => run[m].step = "announced?")
  BY <1>1, <1>3 DEF Sound
<1>5. RegistryOK'
  BY <1>1, <1>3, <1>4, AnnounceStep DEF Requests
<1>6. Sound(run[m], link[m], Nothing, approved')
  BY <1>1, <1>3, SoundAnswered
<1>7. PICK r \in Runs : run' = [run EXCEPT ![m] = r] /\ Sound(r, link[m], Nothing, approved')
  <2>1. CASE link[m] # "open"
    BY <1>2, <1>3, <1>6, <2>1, MachineFacts
  <2>2. CASE link[m] = "open" /\ run[m].cmd # "sync"
    <3> DEFINE r == [run[m] EXCEPT !.step = "serving", !.retrying = FALSE]
    <3>1. run' = [run EXCEPT ![m] = r]
      BY <1>2, <2>2 DEF AfterAnnounce, MachinesOK
    <3>2. r \in Runs /\ Sound(r, link[m], Nothing, approved')
      BY <1>3, <1>4, <1>6, <2>2 DEF Runs, Steps, Sound, Vetted, Nothing
    <3> QED BY <3>1, <3>2
  <2>3. CASE link[m] = "open" /\ run[m].cmd = "sync"
    <3>1. PICK step \in {"activate", "announce"} : Goto(m, step)
      BY <1>2, <2>3 DEF AfterAnnounce
    <3> DEFINE r == [run[m] EXCEPT !.step = step]
    <3>2. run' = [run EXCEPT ![m] = r]
      BY <3>1 DEF Goto
    <3>3. r \in Runs /\ Sound(r, link[m], Nothing, approved')
      BY <1>3, <1>4, <1>6, <2>3 DEF Runs, Steps, Sound, Vetted, Nothing
    <3> QED BY <3>2, <3>3
  <2> QED BY <2>1, <2>2, <2>3
<1>8. link' = [link EXCEPT ![m] = link[m]]
  BY <1>1, MachineFacts
<1>9. MachinesOK'
  BY <1>1, <1>3, <1>7, <1>8, InitialRecords, MachineStep
<1> QED BY <1>1, <1>5, <1>9, DisksStay DEF diskVars

LEMMA SeesCloseStep ==
  ASSUME Inv, NEW m \in Machines, SeesClose(m)
  PROVE  Inv'
<1> USE DEF Inv
<1>1. /\ Remove(m) /\ pending' = [pending EXCEPT ![m] = Nothing]
      /\ UNCHANGED <<diskVars, run, link, approved>>
  BY DEF SeesClose, runVars, history
<1>2. RegistryOK'
  <2>1. /\ Gone(m) /\ project' = project /\ members' = members \ {m}
    BY <1>1 DEF Remove
  <2>2. members' \subseteq Machines /\ members \ {m} \subseteq members'
    BY <2>1 DEF RegistryOK
  <2> QED BY <1>1, <2>1, <2>2, GoneStep
<1>3. Sound(run[m], link[m], Nothing, approved')
  BY <1>1, MachineFacts, SoundAnswered
<1>4. run' = [run EXCEPT ![m] = run[m]] /\ link' = [link EXCEPT ![m] = link[m]]
  BY <1>1, MachineFacts
<1>5. MachinesOK'
  BY <1>1, <1>3, <1>4, MachineFacts, InitialRecords, MachineStep
<1> QED BY <1>1, <1>2, <1>5, DisksStay DEF diskVars

-----------------------------------------------------------------------------
(* One lemma per action: the faults.                                        *)

LEMMA BreakStep ==
  ASSUME Inv, NEW m \in Machines, Break(m)
  PROVE  Inv'
<1>1. /\ link[m] = "open" /\ link' = [link EXCEPT ![m] = "lost"]
      /\ UNCHANGED <<registryVars, diskVars, run, pending, approved>>
  BY DEF Break
<1>2. /\ run[m] \in Runs /\ Sound(run[m], link[m], pending[m], approved)
      /\ run' = [run EXCEPT ![m] = run[m]]
  BY <1>1, MachineFacts DEF Inv
<1>3. Sound(run[m], "lost", pending[m], approved)
  BY <1>1, <1>2 DEF Sound
<1> QED BY <1>1, <1>2, <1>3, OwnStep DEF Links

LEMMA CoordinatorStopsStep ==
  ASSUME Inv, CoordinatorStops
  PROVE  Inv'
<1> USE DEF Inv
<1>1. /\ Clear /\ link' = [m \in Machines |-> IF link[m] = "open" THEN "lost" ELSE link[m]]
      /\ pending' = [m \in Machines |-> Nothing]
      /\ UNCHANGED <<diskVars, run, approved>>
  BY DEF CoordinatorStops
<1>2. link' \in [Machines -> Links] /\ pending' \in [Machines -> Requests]
  BY <1>1, InitialRecords DEF MachinesOK, Links
<1>3. ASSUME NEW m \in Machines
      PROVE  Sound(run'[m], link'[m], pending'[m], approved')
  <2>1. Sound(run[m], link[m], pending[m], approved)
    BY MachineFacts
  <2>2. /\ run'[m] = run[m] /\ pending'[m] = Nothing
        /\ link'[m] = IF link[m] = "open" THEN "lost" ELSE link[m]
    BY <1>1
  <2> QED BY <1>1, <2>1, <2>2 DEF Sound, Nothing
<1>4. MachinesOK'
  BY <1>1, <1>2, <1>3 DEF MachinesOK
<1> QED BY <1>1, <1>4, ClearStep, DisksStay DEF diskVars

(* What leaves the machines alone.                                          *)
LEMMA QuietStep ==
  ASSUME Inv, UNCHANGED <<registryVars, docs, published, current, runVars, pending, approved>>,
         source' \in approved \cup {NoBaseline}
  PROVE  Inv'
BY RegistryStays DEF Inv, MachinesOK, DisksOK, runVars

LEMMA InvStep == Inv /\ [Next]_vars => Inv'
<1> SUFFICES ASSUME Inv, [Next]_vars PROVE Inv'
  OBVIOUS
<1>1. ASSUME NEW m \in Machines, Call(m) PROVE Inv'
  BY <1>1, ConnectStep, SendPublishStep, TakeLockStep, MarkPublishedStep, WriteSourceStep,
     SendAnnounceStep, ActivateStep, FailureStep DEF Call
<1>2. ASSUME NEW m \in Machines, Runtime(m) \/ Server(m) PROVE Inv'
  BY <1>2, NoticeCloseStep, TimerFiresStep, EndStep, HandlePublishStep, HandleAnnounceStep,
     SeesCloseStep DEF Runtime, Server
<1>3. ASSUME NEW m \in Machines, PlanPublish(m) \/ StartSeed(m) \/ StartSync(m) \/ Repair(m)
      PROVE  Inv'
  BY <1>3, PlanPublishStep, StartSeedStep, StartSyncStep, RepairStep
<1>4. ASSUME NEW m \in Machines, Stop(m) \/ Break(m) \/ Crash(m) PROVE Inv'
  BY <1>4, StopStep, BreakStep, EndStep
<1>5. CASE CoordinatorStops
  BY <1>5, CoordinatorStopsStep
<1>6. CASE CoordinatorStarts
  BY <1>6, QuietStep DEF CoordinatorStarts, diskVars, history, Inv, DisksOK
<1>7. CASE Checkout
  BY <1>7, QuietStep DEF Checkout
<1>8. CASE UNCHANGED vars
  BY <1>8, QuietStep DEF vars, diskVars, history, Inv, DisksOK
<1> QED BY <1>1, <1>2, <1>3, <1>4, <1>5, <1>6, <1>7, <1>8 DEF Next

LEMMA Invariance == Spec => []Inv
BY InvInit, InvStep, PTL DEF Spec

-----------------------------------------------------------------------------
(* A baseline that no Coordinator accepted from a reviewed publish is never *)
(* recorded as published, Active, in the source Project or offered, however *)
(* often the machines crash and the Coordinator forgets (markPublished,     *)
(* repairSourceDescriptor and loadPublication in project-peer.mjs).         *)
THEOREM NothingUnapproved == Spec => []OnlyApproved
<1>1. Inv => OnlyApproved
  BY DEF Inv, DisksOK, RegistryOK, OnlyApproved
<1> QED BY <1>1, Invariance, PTL

(* A Seed that was asked to stop has no connection and no timer that would  *)
(* open one, whichever reconnect the stop overtook (stop and                *)
(* scheduleReconnect in project-peer.mjs).                                  *)
THEOREM StoppedSeedIsSilent == Spec => []StoppedIsSilent
<1>1. Inv => StoppedIsSilent
  BY MachineFacts DEF Inv, StoppedIsSilent, Sound
<1> QED BY <1>1, Invariance, PTL

(* Every peer is offered under the rank the current baseline gives it       *)
(* (calculateSeedRank in project-coordinator-core.mjs).                     *)
THEOREM RanksStayRight == Spec => []RanksAgree
<1>1. Inv => RanksAgree
  BY DEF Inv, RegistryOK
<1> QED BY <1>1, Invariance, PTL

=============================================================================
