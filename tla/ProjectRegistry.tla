-------------------------- MODULE ProjectRegistry --------------------------
(***************************************************************************)
(* The Project Coordinator (project-coordinator-core.mjs): the baseline of  *)
(* one project, the peers of one session that may serve it, and the rank    *)
(* under which each is offered. All of it lives in memory. Every signature  *)
(* is genuine, every message well formed and of a compatible version: the   *)
(* members are the machines of one Owner and of the people invited, a       *)
(* member's connection is the newest one of its user, and what is left of   *)
(* the checks is the state they compare with.                               *)
(***************************************************************************)
EXTENDS Naturals, FiniteSets

CONSTANTS
  Machines,   \* one user each: registering again replaces the older connection
  Texts,      \* the contents a baseline may have (manifestHash, descriptorHash)
  NoText, NoOne,
  MaxPeers    \* maxProjectPeersPerSession

ASSUME RegistryParameters ==
  /\ NoText \notin Texts /\ NoOne \notin Machines /\ MaxPeers \in Nat

Baselines == [rev : Nat \ {0}, text : Texts]
NoBaseline == [rev |-> 0, text |-> NoText]
Shares == {"none", "some", "all"}   \* availableChunkCount and completeBaseline

VARIABLES
  project,    \* its baseline, NoBaseline while the registry is empty
  bootstrap,  \* bootstrapPublisherConnectionId
  members,    \* the registered machines
  announced   \* member.peer: the baseline, share, owner proof and seedRank

registryVars == <<project, bootstrap, members, announced>>

NoPeer == [base |-> NoBaseline, share |-> "none", proof |-> FALSE, rank |-> 99]

-----------------------------------------------------------------------------
calculateSeedRank(m, peer, baseline, first) ==
  CASE peer.base # baseline               -> 99
    [] peer.share = "all" /\ peer.proof   -> 0
    [] peer.share = "all" /\ ~peer.proof  -> 1
    [] peer.share = "some"                -> 2
    [] OTHER                              -> IF m = first THEN 3 ELSE 99

Ranked(m, peer, baseline, first) ==
  [peer EXCEPT !.rank = calculateSeedRank(m, peer, baseline, first)]

HasPeer(m) == announced[m] # NoPeer

(* (mutant) A new baseline leaves the ranks of the peers it had. *)
recalculateProjectPeers_Not(baseline, first) == announced

recalculateProjectPeers(baseline, first) ==
  [m \in Machines |-> IF HasPeer(m) THEN Ranked(m, announced[m], baseline, first)
                                    ELSE announced[m]]

\* What #handleBaselinePublish answers.
PublishVerdict(d) ==
  CASE project = NoBaseline      -> IF d.rev = 1 THEN "accepted" ELSE "gap"
    [] d = project               -> "idempotent"
    [] OTHER                     ->
         IF d.rev = project.rev THEN "conflict"
         ELSE IF d.rev < project.rev THEN "downgrade"
         ELSE IF d.rev = project.rev + 1 THEN "accepted" ELSE "gap"

-----------------------------------------------------------------------------
RegistryInit ==
  /\ project = NoBaseline /\ bootstrap = NoOne
  /\ members = {} /\ announced = [m \in Machines |-> NoPeer]

\* An older connection of the same user loses its record and its id: what it
\* asked for is refused from now on, and no peer is the bootstrap peer by it.
Gone(m) ==
  /\ announced' = [announced EXCEPT ![m] = NoPeer]
  /\ bootstrap' = IF bootstrap = m THEN NoOne ELSE bootstrap

Register(m) ==
  /\ m \in members \/ Cardinality(members) < MaxPeers
  /\ members' = members \cup {m} /\ Gone(m)
  /\ UNCHANGED project

Remove(m) ==
  /\ m \in members
  /\ members' = members \ {m} /\ Gone(m)
  /\ UNCHANGED project

\* The first announcement rebuilds an empty registry, at whatever revision.
Announce(m, d, share, proof) ==
  LET base == IF project = NoBaseline THEN d ELSE project
      peer == [base |-> d, share |-> share, proof |-> proof, rank |-> 99]
  IN /\ m \in members
     /\ project' = base
     /\ announced' = [announced EXCEPT ![m] = Ranked(m, peer, base, bootstrap)]
     /\ UNCHANGED <<bootstrap, members>>

\* Only the first revision makes its publisher the bootstrap peer.
Publish(m, d) ==
  /\ m \in members
  /\ IF PublishVerdict(d) = "accepted"
       THEN /\ project' = d
            /\ bootstrap' = IF project = NoBaseline THEN m ELSE NoOne
            /\ announced' = recalculateProjectPeers(d, bootstrap')
       ELSE UNCHANGED <<project, bootstrap, announced>>
  /\ UNCHANGED members

Clear ==
  /\ project' = NoBaseline /\ bootstrap' = NoOne
  /\ members' = {} /\ announced' = [m \in Machines |-> NoPeer]

RegistryNext ==
  \/ \E m \in Machines :
       \/ Register(m) \/ Remove(m)
       \/ \E d \in Baselines :
            Publish(m, d) \/ \E share \in Shares, proof \in BOOLEAN : Announce(m, d, share, proof)
  \/ Clear

RegistrySpec == RegistryInit /\ [][RegistryNext]_registryVars

-----------------------------------------------------------------------------
(* The rank under which a peer is offered is the one the current baseline    *)
(* gives it, after any order of publications, announcements, superseded      *)
(* connections and restarts: nobody is offered as a Seed of what it does not *)
(* have, and nobody who has it is left at 99 (calculateSeedRank and the      *)
(* recalculation in project-coordinator-core.mjs).                           *)
RanksAgree ==
  \A m \in Machines :
    /\ m \notin members => announced[m] = NoPeer
    /\ HasPeer(m) =>
         announced[m].rank = calculateSeedRank(m, announced[m], project, bootstrap)
=============================================================================
