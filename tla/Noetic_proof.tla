---------------------------- MODULE Noetic_proof ----------------------------
(***************************************************************************)
(* The nodes of the noetic layer, for any number of them, of proposals and *)
(* of messages: the newest vote of a voter stands, and replicas that merge *)
(* each other's states agree, keep what they removed removed, and show     *)
(* their own updates.                                                      *)
(***************************************************************************)
EXTENDS NoeticCrdt_proof

-----------------------------------------------------------------------------
(* The newest vote stands *)

ReplicasTyped ==
    /\ DOMAIN state = Peers
    /\ \A r \in Peers : IsReplica(state[r]) /\ state[r].peer = r /\ state[r].clock \in Clocks
    /\ \A w \in wire : w.clock \in Clocks

EnginesTyped ==
    /\ DOMAIN engine = Peers
    /\ \A r \in Peers : IsEngine(engine[r])

\* Every ballot is on a proposal of the node it goes to, and the delivered ones
\* stand, or a newer one of their voter does.
BallotsCount ==
    /\ \A b \in ballots :
         /\ b.to \in Peers /\ b.id \in DOMAIN engine[b.to].proposals
         /\ b.vote.clock \in Clocks
    /\ delivered \subseteq ballots
    /\ \A b \in delivered : Stands(engine[b.to].proposals[b.id], b.peer, b.vote.clock)

VotingInv == ReplicasTyped /\ EnginesTyped /\ BallotsCount

\* A step that changes one replica.
LEMMA ReplicaStep ==
    ASSUME ReplicasTyped, NEW r \in Peers, NEW t, IsReplica(t), t.peer = r, t.clock \in Clocks,
           state' = [state EXCEPT ![r] = t], wire' = wire
    PROVE  ReplicasTyped'
<1>1. DOMAIN state' = Peers /\ state'[r] = t
  BY DEF ReplicasTyped
<1>2. ASSUME NEW p \in Peers, p # r PROVE state'[p] = state[p]
  BY <1>2 DEF ReplicasTyped
<1>3. ASSUME NEW p \in Peers
      PROVE  IsReplica(state'[p]) /\ state'[p].peer = p /\ state'[p].clock \in Clocks
  BY <1>1, <1>2 DEF ReplicasTyped
<1> QED
  BY <1>1, <1>3 DEF ReplicasTyped, IsReplica

\* A step that changes one engine.
LEMMA EngineStep ==
    ASSUME EnginesTyped, NEW r \in Peers, NEW f, IsEngine(f),
           Follows(f, engine[r]), engine' = [engine EXCEPT ![r] = f]
    PROVE  EnginesTyped' /\ engine'[r] = f /\ \A p \in Peers : Follows(engine'[p], engine[p])
<1>1. DOMAIN engine' = Peers /\ engine'[r] = f
  BY DEF EnginesTyped
<1>2. ASSUME NEW p \in Peers, p # r PROVE engine'[p] = engine[p]
  BY <1>2 DEF EnginesTyped
<1>3. ASSUME NEW p \in Peers
      PROVE  IsEngine(engine'[p])
  BY <1>1, <1>2 DEF EnginesTyped
<1>4. ASSUME NEW p \in Peers PROVE Follows(engine'[p], engine[p])
  <2>1. Replaced(engine[p], engine[p], p)
    BY ReplacedSelf DEF EnginesTyped
  <2> QED
    BY <1>1, <1>2, <2>1 DEF Replaced
<1>5. EnginesTyped'
  BY <1>1, <1>3 DEF EnginesTyped
<1> QED
  BY <1>1, <1>4, <1>5

\* The engines that follow count the ballots that these count.
LEMMA BallotsStillCount ==
    ASSUME BallotsCount, EnginesTyped, EnginesTyped', \A p \in Peers : Follows(engine'[p], engine[p])
    PROVE  /\ \A b \in ballots : b.id \in DOMAIN engine'[b.to].proposals
           /\ \A b \in delivered : Stands(engine'[b.to].proposals[b.id], b.peer, b.vote.clock)
<1>1. ASSUME NEW b \in ballots
      PROVE  /\ b.to \in Peers /\ b.id \in DOMAIN engine[b.to].proposals
             /\ b.id \in DOMAIN engine'[b.to].proposals /\ b.vote.clock \in Clocks
             /\ Became(engine'[b.to].proposals[b.id], engine[b.to].proposals[b.id])
  BY DEF BallotsCount, Follows
<1>2. ASSUME NEW b \in delivered
      PROVE  Stands(engine'[b.to].proposals[b.id], b.peer, b.vote.clock)
  <2>1. b \in ballots /\ Stands(engine[b.to].proposals[b.id], b.peer, b.vote.clock)
    BY DEF BallotsCount
  <2> DEFINE q == engine[b.to].proposals[b.id]
             t == engine'[b.to].proposals[b.id]
  <2>2. IsProposal(q) /\ IsProposal(t)
    BY <1>1, <2>1 DEF EnginesTyped, IsEngine
  <2>3. Became(t, q) /\ Stands(q, b.peer, b.vote.clock) /\ b.vote.clock \in Clocks
    BY <1>1, <2>1
  <2> HIDE DEF q, t
  <2>4. Stands(t, b.peer, b.vote.clock)
    BY <2>2, <2>3, StillStands
  <2> QED
    BY <2>4 DEF t
<1> QED
  BY <1>1, <1>2

\* A step that leaves the ballots and the delivered ones.
LEMMA BallotsStep ==
    ASSUME BallotsCount, EnginesTyped, EnginesTyped', \A p \in Peers : Follows(engine'[p], engine[p]),
           ballots' = ballots, delivered' = delivered
    PROVE  BallotsCount'
  BY BallotsStillCount DEF BallotsCount

\* A step that leaves the engines and the ballots.
LEMMA EnginesStutter ==
    ASSUME EnginesTyped, BallotsCount, engine' = engine, ballots' = ballots, delivered' = delivered
    PROVE  EnginesTyped' /\ BallotsCount'
  BY DEF EnginesTyped, BallotsCount

\* The parts of Propose.
ProposedId(r) == <<r, Cardinality(DOMAIN engine[r].proposals) + 1>>
ProposedAt(r, now) == HlcTick(state[r].clock, now)
ProposedIn(r, kind, content, now) ==
    ProposeObject(engine[r], ProposedId(r), r, [kind |-> kind, content |-> content], ProposedAt(r, now))
OwnVoteAt(r, now, later) == HlcTick(ProposedAt(r, now), later)
OwnVote(r, now, later) ==
    [decision |-> "Approve", credence |-> LocalCredence, clock |-> OwnVoteAt(r, now, later)]
VotedIn(r, kind, content, now, later) ==
    Vote(ProposedIn(r, kind, content, now), ProposedId(r), r, OwnVote(r, now, later))
TickedTwice(r, now, later) == [state[r] EXCEPT !.clock = OwnVoteAt(r, now, later)]

\* Propose, in its parts.
LEMMA ProposeParts ==
    ASSUME NEW r, NEW kind, NEW content, NEW now, NEW later, Propose(r, kind, content, now, later)
    PROVE  /\ ProposedId(r) \notin DOMAIN engine[r].proposals
           /\ engine' = [engine EXCEPT ![r] = VotedIn(r, kind, content, now, later)]
           /\ \/ state' = [state EXCEPT ![r] = ApplyCommit(TickedTwice(r, now, later),
                      VotedIn(r, kind, content, now, later).proposals[ProposedId(r)], later)]
              \/ /\ ~ VoteCommits(ProposedIn(r, kind, content, now), ProposedId(r), r,
                                  OwnVote(r, now, later))
                 /\ state' = [state EXCEPT ![r] = TickedTwice(r, now, later)]
           /\ UNCHANGED <<wire, ballots, delivered>>
  BY Zenon DEF Propose, ProposedId, ProposedAt, ProposedIn, OwnVoteAt, OwnVote, VotedIn, TickedTwice

\* What they are.
LEMMA ProposeKept ==
    ASSUME ReplicasTyped, EnginesTyped, NEW r \in Peers, NEW kind \in Kinds, NEW content,
           NEW now \in Nat, NEW later \in Nat,
           ProposedId(r) \notin DOMAIN engine[r].proposals
    PROVE  /\ Ticked(ProposedAt(r, now), state[r].clock)
           /\ Ticked(OwnVoteAt(r, now, later), ProposedAt(r, now))
           /\ Extended(VotedIn(r, kind, content, now, later), engine[r], ProposedId(r),
                       [kind |-> kind, content |-> content], ProposedAt(r, now))
<1> DEFINE id == ProposedId(r)
           clock == ProposedAt(r, now)
           voting == OwnVoteAt(r, now, later)
           object == [kind |-> kind, content |-> content]
           asked == ProposedIn(r, kind, content, now)
           vote == OwnVote(r, now, later)
           voted == VotedIn(r, kind, content, now, later)
           e == engine[r]
<1>1. Ticked(clock, state[r].clock)
  BY TickLater DEF ReplicasTyped, ProposedAt
<1>2. clock \in Clocks
  BY <1>1 DEF Ticked
<1>3. Ticked(voting, clock)
  BY <1>2, TickLater DEF OwnVoteAt
<1>4. voting \in Clocks /\ vote.clock = voting
  BY <1>3 DEF Ticked, OwnVote
<1>5. IsEngine(e)
  BY DEF EnginesTyped
<1>6. id \notin DOMAIN e.proposals
  OBVIOUS
<1>7. object.kind \in Kinds
  OBVIOUS
<1>8. asked = ProposeObject(e, id, r, object, clock) /\ voted = Vote(asked, id, r, vote)
  BY DEF ProposedIn, VotedIn
<1> HIDE DEF id, clock, voting, object, asked, vote, voted, e
<1>9. Extended(asked, e, id, object, clock)
  BY <1>2, <1>5, <1>6, <1>7, <1>8, ObjectProposed
<1>10. IsEngine(asked) /\ id \in DOMAIN asked.proposals
  BY <1>9 DEF Extended
<1>11. Replaced(voted, asked, id)
  BY <1>4, <1>8, <1>10, VoteCounted
<1>12. Extended(voted, e, id, object, clock)
  BY <1>5, <1>6, <1>9, <1>11, ExtendedAndVoted
<1>13. DOMAIN voted.proposals = DOMAIN e.proposals \cup {id}
  BY <1>12 DEF Extended
<1> QED
  BY <1>1, <1>3, <1>6, <1>12, <1>13 DEF id, clock, voting, object, voted, e

\* An empty map, set and table of credences.
LEMMA EmptyParts ==
    ASSUME NEW top
    PROVE  GoodSet(EmptyOrSet, top) /\ IsCredence(<< >>)
<1> DEFINE none == << >>
<1>1. DOMAIN none = {} /\ none = [x \in {} |-> x]
  OBVIOUS
<1>2. EmptyOrSet = [adds |-> none, removals |-> none]
  BY DEF EmptyOrSet
<1> HIDE DEF none
<1>3. none \in [{} -> Clocks] /\ none \in [{} -> Nat]
  BY <1>1
<1>4. IsMap(none) /\ IsCredence(none)
  BY <1>1, <1>3 DEF IsMap, IsCredence
<1>5. GoodSet(EmptyOrSet, top)
  BY <1>1, <1>2, <1>4 DEF GoodSet, IsOrSet
<1> QED
  BY <1>4, <1>5 DEF none

\* A new replica, as a node is created with it.
LEMMA NewReplicaGood ==
    ASSUME NEW r \in Nat, NEW I, Lww(NoContent, HlcNew(r, 0)) \in I
    PROVE  LET s == SetCredence(NewState(r), r, LocalCredence)
           IN  Good(s, I) /\ s.peer = r /\ s.clock = HlcNew(r, 0)
<1> DEFINE n == NewState(r)
           c == HlcNew(r, 0)
           reg == Lww(NoContent, c)
           set == EmptyOrSet
           none == << >>
<1>1. n = [peer |-> r, clock |-> c, credence |-> none, models |-> set, epochs |-> set,
           seeds |-> set, model_topk |-> reg, seed_status |-> reg, policies |-> reg]
  BY DEF NewState
<1>2. c \in Clocks /\ c.node = r
  BY DEF HlcNew, Clocks
<1>3. reg.clock = c
  BY DEF Lww
<1>4. GoodSet(set, c) /\ IsCredence(none)
  BY EmptyParts
<1> HIDE DEF n, c, reg, set, none
<1>5. /\ IsReplica(n) /\ n.peer = r /\ n.clock = c /\ n.credence = none
      /\ n.models = set /\ n.epochs = set /\ n.seeds = set
      /\ n.model_topk = reg /\ n.seed_status = reg /\ n.policies = reg
  BY <1>1 DEF IsReplica
<1>6. GoodRegister(reg, c, I)
  BY <1>2, <1>3, TimesOrdered DEF GoodRegister, reg, c
<1>7. Good(n, I)
  BY <1>2, <1>4, <1>5, <1>6 DEF Good
<1> QED
  BY <1>5, <1>7, CredenceSet, NoeticRuntimeConstants DEF n, c

\* New replicas and new engines are typed, and nothing is on the wire.
LEMMA VotingStarts == Init => VotingInv
<1>1. SUFFICES ASSUME Init PROVE VotingInv
  OBVIOUS
<1>2. ASSUME NEW r \in Peers
      PROVE  IsReplica(state[r]) /\ state[r].peer = r /\ state[r].clock \in Clocks
  <2> DEFINE I == {Lww(NoContent, HlcNew(r, 0))}
             s == SetCredence(NewState(r), r, LocalCredence)
  <2>1. r \in Nat /\ state[r] = s
    BY <1>1, NoeticRuntimeConstants DEF Init
  <2>2. Good(s, I) /\ s.peer = r
    BY <2>1, NewReplicaGood
  <2> HIDE DEF s
  <2> QED
    BY <2>1, <2>2 DEF Good
<1>3. DOMAIN state = Peers /\ wire = {} /\ ballots = {} /\ delivered = {}
  BY <1>1 DEF Init
<1>4. PICK quorum \in InitialQuorums : engine = [r \in Peers |-> NewEngine(quorum)]
  BY <1>1 DEF Init
<1>5. IsEngine(NewEngine(quorum)) /\ DOMAIN NewEngine(quorum).proposals = {}
  <2> DEFINE none == << >>
             e == NewEngine(quorum)
  <2>1. DOMAIN none = {} /\ e = [quorum |-> quorum, proposals |-> none]
    BY DEF NewEngine
  <2> HIDE DEF none, e
  <2>2. e = [quorum |-> e.quorum, proposals |-> e.proposals] /\ DOMAIN e.proposals = {}
    BY <2>1
  <2>3. IsEngine(e)
    BY <2>2 DEF IsEngine
  <2> QED
    BY <2>2, <2>3 DEF e
<1>7. EnginesTyped
  BY <1>4, <1>5 DEF EnginesTyped
<1> QED
  BY <1>2, <1>3, <1>7 DEF VotingInv, ReplicasTyped, BallotsCount

\* noetic.propose
LEMMA ProposeVoting ==
    ASSUME VotingInv, NEW r \in Peers, NEW kind \in Kinds, NEW content, NEW now \in Times,
           NEW later \in Times, Propose(r, kind, content, now, later)
    PROVE  VotingInv'
<1> DEFINE voted == VotedIn(r, kind, content, now, later)
           voting == OwnVoteAt(r, now, later)
           id == ProposedId(r)
           object == [kind |-> kind, content |-> content]
           ticked == TickedTwice(r, now, later)
           done == ApplyCommit(ticked, voted.proposals[id], later)
<1>1. now \in Nat /\ later \in Nat /\ r \in Nat
  BY NoeticRuntimeConstants
<1>2. ReplicasTyped /\ EnginesTyped /\ BallotsCount
  BY DEF VotingInv
<1>3. /\ Ticked(ProposedAt(r, now), state[r].clock) /\ Ticked(voting, ProposedAt(r, now))
      /\ Extended(voted, engine[r], id, object, ProposedAt(r, now))
  BY <1>1, <1>2, ProposeParts, ProposeKept
<1>4. /\ engine' = [engine EXCEPT ![r] = voted]
      /\ \/ state' = [state EXCEPT ![r] = done]
         \/ state' = [state EXCEPT ![r] = ticked]
      /\ UNCHANGED <<wire, ballots, delivered>>
  BY ProposeParts
<1> HIDE DEF voted, voting, id, done
<1>5. voting \in Clocks /\ ProposedAt(r, now) \in Clocks
  BY Zenon, <1>3 DEF Ticked
<1>6. IsReplica(state[r]) /\ state[r].peer = r
  BY Zenon, <1>2 DEF ReplicasTyped
<1>7. IsReplica(ticked) /\ ticked.peer = r /\ ticked.clock = voting
  BY <1>6 DEF TickedTwice, IsReplica, voting
<1> HIDE DEF ticked
<1>8. IsReplica(done) /\ done.peer = r /\ done.clock \in Clocks
  <2> DEFINE q == voted.proposals[id]
             m == HlcMerged(voting, q.clock, r, later)
  <2>1. q.object.kind \in Kinds /\ q.clock \in Clocks
    BY <1>3, <1>5 DEF Extended, IsEngine, IsProposal
  <2>2. Joint(m, voting, q.clock, r)
    BY <1>1, <1>5, <2>1, MergedLater
  <2>3. done = ApplyCommit(ticked, q, later)
    BY DEF done
  <2> HIDE DEF q
  <2>4. IsReplica(done) /\ done.peer = r /\ done.clock = m
    BY <1>7, <2>1, <2>3, CommitFields
  <2> QED
    BY <2>2, <2>4 DEF Joint
<1>9. ReplicasTyped'
  BY <1>2, <1>4, <1>5, <1>7, <1>8, ReplicaStep
<1>10. EnginesTyped' /\ \A p \in Peers : Follows(engine'[p], engine[p])
  BY Zenon, <1>2, <1>3, <1>4, EngineStep DEF Extended
<1>11. BallotsCount'
  BY <1>2, <1>4, <1>10, BallotsStep
<1> QED
  BY <1>9, <1>10, <1>11 DEF VotingInv

\* A step that changes the clock of one replica and perhaps its entries.
LEMMA ReplicaVoting ==
    ASSUME VotingInv, NEW r \in Peers, NEW t, IsReplica(t), t.peer = r, t.clock \in Clocks,
           state' = [state EXCEPT ![r] = t], UNCHANGED <<engine, wire, ballots, delivered>>
    PROVE  VotingInv'
  BY Zenon, ReplicaStep, EnginesStutter DEF VotingInv

\* Replica t is s but for its clock and its models.
ModelsPut(t, s, c, ms) ==
    /\ IsReplica(t) /\ t.peer = s.peer /\ t.clock = c /\ t.credence = s.credence
    /\ t.models = ms /\ t.epochs = s.epochs /\ t.seeds = s.seeds
    /\ t.model_topk = s.model_topk /\ t.seed_status = s.seed_status /\ t.policies = s.policies

\* A clock and a set of models put into a replica.
LEMMA ModelsFields ==
    ASSUME NEW s, IsReplica(s), NEW c, NEW ms
    PROVE  ModelsPut([s EXCEPT !.clock = c, !.models = ms], s, c, ms)
<1> DEFINE t == [s EXCEPT !.clock = c, !.models = ms]
<1>1. t = [peer |-> s.peer, clock |-> c, credence |-> s.credence, models |-> ms,
           epochs |-> s.epochs, seeds |-> s.seeds, model_topk |-> s.model_topk,
           seed_status |-> s.seed_status, policies |-> s.policies]
  <2> DEFINE u == [s EXCEPT !.clock = c]
  <2>1. u = [peer |-> s.peer, clock |-> c, credence |-> s.credence, models |-> s.models,
             epochs |-> s.epochs, seeds |-> s.seeds, model_topk |-> s.model_topk,
             seed_status |-> s.seed_status, policies |-> s.policies]
    BY DEF IsReplica
  <2>2. t = [u EXCEPT !.models = ms]
    OBVIOUS
  <2> HIDE DEF u, t
  <2> QED
    BY <2>1, <2>2
<1> HIDE DEF t
<1>2. /\ IsReplica(t) /\ t.peer = s.peer /\ t.clock = c /\ t.credence = s.credence
      /\ t.models = ms /\ t.epochs = s.epochs /\ t.seeds = s.seeds
      /\ t.model_topk = s.model_topk /\ t.seed_status = s.seed_status
      /\ t.policies = s.policies
  BY <1>1 DEF IsReplica
<1> QED
  BY <1>2 DEF t, ModelsPut

\* The operations on a replica alone.
LEMMA ReplicaOperations ==
    ASSUME VotingInv, NEW r \in Peers
    PROVE  /\ \A now \in Times : ProposeFails(r, now) => VotingInv'
           /\ \A now \in Times : \A content : AddEpoch(r, content, now) => VotingInv'
           /\ \A now \in Times : \A header : RemoveModel(r, header, now) => VotingInv'
           /\ \A peer, credence : AddPeer(r, peer, credence) => VotingInv'
           /\ \A other \in wire : Receive(r, other) => VotingInv'
<1>1. IsReplica(state[r]) /\ state[r].peer = r /\ state[r].clock \in Clocks /\ r \in Nat
  BY NoeticRuntimeConstants DEF VotingInv, ReplicasTyped
<1>2. ASSUME NEW now \in Times
      PROVE  HlcTick(state[r].clock, now) \in Clocks
  <2>1. Ticked(HlcTick(state[r].clock, now), state[r].clock)
    BY <1>1, TickLater, NoeticRuntimeConstants
  <2> QED
    BY <2>1 DEF Ticked
<1>3. ASSUME NEW now \in Times, ProposeFails(r, now) PROVE VotingInv'
  <2> DEFINE c == HlcTick(state[r].clock, now)
             t == [state[r] EXCEPT !.clock = c]
  <2>1. state' = [state EXCEPT ![r] = t] /\ UNCHANGED <<engine, wire, ballots, delivered>>
    BY <1>3 DEF ProposeFails
  <2>2. c \in Clocks
    BY <1>2
  <2> HIDE DEF c
  <2>3. IsReplica(t) /\ t.peer = r /\ t.clock = c
    BY <1>1 DEF IsReplica
  <2> HIDE DEF t
  <2> QED
    BY Zenon, <2>1, <2>2, <2>3, ReplicaVoting
<1>4. ASSUME NEW now \in Times, NEW content, AddEpoch(r, content, now) PROVE VotingInv'
  <2> DEFINE c == HlcTick(state[r].clock, now)
             u == [state[r] EXCEPT !.clock = c]
             h == Header(content, c)
             t == ApplyEpoch(u, h)
  <2>1. state' = [state EXCEPT ![r] = t] /\ UNCHANGED <<engine, wire, ballots, delivered>>
    BY <1>4 DEF AddEpoch
  <2>2. c \in Clocks
    BY <1>2
  <2> HIDE DEF c
  <2>3. IsReplica(u) /\ u.peer = r /\ u.clock = c
    BY <1>1 DEF IsReplica
  <2> HIDE DEF u, h
  <2>4. IsReplica(t) /\ t.peer = r /\ t.clock = c
    BY Zenon, <2>3, AppliedFields DEF Alike
  <2> HIDE DEF t
  <2> QED
    BY Zenon, <2>1, <2>2, <2>4, ReplicaVoting
<1>5. ASSUME NEW now \in Times, NEW header, RemoveModel(r, header, now) PROVE VotingInv'
  <2> DEFINE c == HlcTick(state[r].clock, now)
             ms == OrSetRemove(state[r].models, header, c, state[r].credence)
             t == [state[r] EXCEPT !.clock = c, !.models = ms]
  <2>1. state' = [state EXCEPT ![r] = t] /\ UNCHANGED <<engine, wire, ballots, delivered>>
    BY Zenon, <1>5 DEF RemoveModel
  <2>2. c \in Clocks
    BY <1>2
  <2> HIDE DEF c, ms
  <2>3. IsReplica(t) /\ t.peer = r /\ t.clock = c
    <3>1. ModelsPut(t, state[r], c, ms)
      BY Zenon, <1>1, ModelsFields
    <3> HIDE DEF t
    <3> QED
      BY <1>1, <3>1 DEF ModelsPut
  <2> HIDE DEF t
  <2> QED
    BY Zenon, <2>1, <2>2, <2>3, ReplicaVoting
<1>6. ASSUME NEW peer, NEW credence, AddPeer(r, peer, credence) PROVE VotingInv'
  <2> DEFINE t == SetCredence(state[r], peer, credence)
  <2>1. state' = [state EXCEPT ![r] = t] /\ UNCHANGED <<engine, wire, ballots, delivered>>
    BY <1>6 DEF AddPeer
  <2>2. IsReplica(t) /\ t.peer = r /\ t.clock = state[r].clock
    BY <1>1 DEF IsReplica, SetCredence
  <2> HIDE DEF t
  <2> QED
    BY Zenon, <1>1, <2>1, <2>2, ReplicaVoting
<1>7. ASSUME NEW other \in wire, Receive(r, other) PROVE VotingInv'
  <2> DEFINE s == state[r]
             t == MergeState(s, other)
             now == Larger(s.clock.phys_ms, other.clock.phys_ms)
             m == HlcMerged(s.clock, other.clock, s.peer, now)
  <2>1. state' = [state EXCEPT ![r] = t] /\ UNCHANGED <<engine, wire, ballots, delivered>>
    BY <1>7 DEF Receive
  <2>2. IsReplica(t) /\ t.peer = s.peer /\ t.clock = m
    BY <1>1, MergeFields
  <2>3. other.clock \in Clocks
    BY DEF VotingInv, ReplicasTyped
  <2>4. now \in Nat
    BY <1>1, <2>3 DEF Clocks, Larger
  <2> HIDE DEF t, now
  <2>5. Joint(m, s.clock, other.clock, s.peer)
    BY <1>1, <2>3, <2>4, MergedLater
  <2> HIDE DEF m
  <2>6. t.peer = r /\ t.clock \in Clocks
    BY <1>1, <2>2, <2>5 DEF Joint
  <2> QED
    BY Zenon, <2>1, <2>2, <2>6, ReplicaVoting
<1> QED
  BY <1>3, <1>4, <1>5, <1>6, <1>7

\* noetic.quorum and commit()
LEMMA EngineOperations ==
    ASSUME VotingInv, NEW r \in Peers
    PROVE  /\ \A quorum : ChangeQuorum(r, quorum) => VotingInv'
           /\ \A id \in DOMAIN engine[r].proposals : \A now \in Times :
                ForceCommit(r, id, now) => VotingInv'
<1>1. ReplicasTyped /\ EnginesTyped /\ BallotsCount
  BY DEF VotingInv
<1>2. IsEngine(engine[r]) /\ r \in Nat
  BY <1>1, NoeticRuntimeConstants DEF EnginesTyped
<1>3. IsReplica(state[r]) /\ state[r].peer = r /\ state[r].clock \in Clocks
  BY <1>1 DEF ReplicasTyped
<1>4. ASSUME NEW quorum, ChangeQuorum(r, quorum) PROVE VotingInv'
  <2> DEFINE f == SetQuorum(engine[r], quorum)
  <2>1. engine' = [engine EXCEPT ![r] = f] /\ UNCHANGED <<state, wire, ballots, delivered>>
    BY <1>4 DEF ChangeQuorum
  <2>2. IsEngine(f) /\ Follows(f, engine[r]) /\ f.proposals = engine[r].proposals
    BY <1>2, QuorumSet
  <2> HIDE DEF f
  <2>3. EnginesTyped' /\ \A p \in Peers : Follows(engine'[p], engine[p])
    BY Zenon, <1>1, <1>2, <2>1, <2>2, EngineStep
  <2>4. ReplicasTyped'
    BY <1>1, <2>1 DEF ReplicasTyped
  <2> QED
    BY <1>1, <2>1, <2>3, <2>4, BallotsStep DEF VotingInv
<1>5. ASSUME NEW id \in DOMAIN engine[r].proposals, NEW now \in Times, ForceCommit(r, id, now)
      PROVE  VotingInv'
  <2> DEFINE f == Commit(engine[r], id)
             q == engine[r].proposals[id]
             t == ApplyCommit(state[r], q, now)
             c == state[r].clock
             m == HlcMerged(c, q.clock, r, now)
  <2>1. /\ engine' = [engine EXCEPT ![r] = f] /\ state' = [state EXCEPT ![r] = t]
        /\ UNCHANGED <<wire, ballots, delivered>>
    BY <1>5 DEF ForceCommit
  <2>2. Replaced(f, engine[r], id)
    BY <1>2, CommitForced
  <2>3. q.object.kind \in Kinds /\ q.clock \in Clocks /\ now \in Nat
    BY Zenon, <1>2, NoeticRuntimeConstants DEF IsEngine, IsProposal
  <2> HIDE DEF f, q
  <2>4. IsReplica(t) /\ t.peer = r /\ t.clock = m
    BY <1>3, <2>3, CommitFields
  <2>5. Joint(m, c, q.clock, r)
    BY <1>2, <1>3, <2>3, MergedLater
  <2> HIDE DEF t, m, c
  <2>6. ReplicasTyped'
    BY Zenon, <1>1, <2>1, <2>4, <2>5, ReplicaStep DEF Joint
  <2>7. EnginesTyped' /\ \A p \in Peers : Follows(engine'[p], engine[p])
    BY Zenon, <1>1, <1>2, <2>1, <2>2, EngineStep DEF Replaced
  <2> QED
    BY <1>1, <2>1, <2>6, <2>7, BallotsStep DEF VotingInv
<1> QED
  BY <1>4, <1>5

\* A ballot is cast.
LEMMA CastVoting ==
    ASSUME VotingInv, NEW p \in Peers, NEW r \in Peers, NEW id \in DOMAIN engine[r].proposals,
           NEW decision, NEW credence, NEW now \in Times, CastBallot(p, r, id, decision, credence, now)
    PROVE  VotingInv'
<1> DEFINE c == HlcTick(state[p].clock, now)
           t == [state[p] EXCEPT !.clock = c]
           vote == [decision |-> decision, credence |-> credence, clock |-> c]
           b == [to |-> r, id |-> id, peer |-> p, vote |-> vote]
<1>1. ReplicasTyped /\ EnginesTyped /\ BallotsCount
  BY DEF VotingInv
<1>2. IsReplica(state[p]) /\ state[p].peer = p /\ state[p].clock \in Clocks /\ now \in Nat
  BY <1>1, NoeticRuntimeConstants DEF ReplicasTyped
<1>3. Ticked(c, state[p].clock)
  BY <1>2, TickLater
<1>4. /\ state' = [state EXCEPT ![p] = t] /\ ballots' = ballots \cup {b}
      /\ UNCHANGED <<engine, wire, delivered>>
  BY DEF CastBallot
<1> HIDE DEF c
<1>5. c \in Clocks
  BY <1>3 DEF Ticked
<1>6. IsReplica(t) /\ t.peer = p /\ t.clock = c
  BY <1>2 DEF IsReplica
<1>7. b.to = r /\ b.id = id /\ b.vote.clock = c
  OBVIOUS
<1> HIDE DEF t, b
<1>8. ReplicasTyped'
  BY Zenon, <1>1, <1>4, <1>5, <1>6, ReplicaStep
<1>9. EnginesTyped'
  BY <1>1, <1>4 DEF EnginesTyped
<1>10. BallotsCount'
  BY Zenon, <1>1, <1>4, <1>5, <1>7 DEF BallotsCount
<1> QED
  BY <1>8, <1>9, <1>10 DEF VotingInv

\* A ballot arrives.
LEMMA DeliverVoting ==
    ASSUME VotingInv, NEW b \in ballots, NEW now \in Times, DeliverBallot(b, now)
    PROVE  VotingInv'
<1> DEFINE r == b.to
           e == engine[r]
           f == Vote(e, b.id, b.peer, b.vote)
           q == f.proposals[b.id]
           t == ApplyCommit(state[r], q, now)
           c == state[r].clock
           m == HlcMerged(c, q.clock, r, now)
<1>1. ReplicasTyped /\ EnginesTyped /\ BallotsCount
  BY DEF VotingInv
<1>2. r \in Peers /\ b.id \in DOMAIN e.proposals /\ b.vote.clock \in Clocks
  BY <1>1 DEF BallotsCount
<1>3. /\ engine' = [engine EXCEPT ![r] = f]
      /\ state' = [state EXCEPT ![r] = t] \/ state' = state
      /\ delivered' = delivered \cup {b} /\ UNCHANGED <<wire, ballots>>
  BY DEF DeliverBallot
<1>4. IsEngine(e) /\ r \in Nat /\ now \in Nat
  BY Zenon, <1>1, <1>2, NoeticRuntimeConstants DEF EnginesTyped
<1>5. IsReplica(state[r]) /\ state[r].peer = r /\ c \in Clocks
  BY <1>1, <1>2 DEF ReplicasTyped
<1>6. Replaced(f, e, b.id) /\ Recorded(q, e.proposals[b.id], b.peer, b.vote.clock)
  BY <1>2, <1>4, VoteCounted
<1>7. q.object.kind \in Kinds /\ q.clock \in Clocks /\ Stands(q, b.peer, b.vote.clock)
  BY Zenon, <1>6 DEF Recorded, IsProposal
<1> HIDE DEF q
<1>8. IsReplica(t) /\ t.peer = r /\ t.clock = m
  BY <1>5, <1>7, CommitFields
<1>9. Joint(m, c, q.clock, r)
  BY <1>4, <1>5, <1>7, MergedLater
<1> HIDE DEF t, m, c, f
<1>10. ReplicasTyped'
  <2>1. CASE state' = [state EXCEPT ![r] = t]
    BY Zenon, <1>1, <1>2, <1>3, <1>8, <1>9, <2>1, ReplicaStep DEF Joint
  <2>2. CASE state' = state
    BY <1>1, <1>3, <2>2 DEF ReplicasTyped
  <2> QED
    BY <1>3, <2>1, <2>2
<1>11. EnginesTyped' /\ engine'[r] = f /\ \A p \in Peers : Follows(engine'[p], engine[p])
  BY Zenon, <1>1, <1>2, <1>3, <1>4, <1>6, EngineStep DEF Replaced
<1>12. /\ \A x \in ballots : x.id \in DOMAIN engine'[x.to].proposals
       /\ \A x \in delivered : Stands(engine'[x.to].proposals[x.id], x.peer, x.vote.clock)
  BY <1>1, <1>11, BallotsStillCount
<1>13. Stands(engine'[b.to].proposals[b.id], b.peer, b.vote.clock)
  BY <1>7, <1>11 DEF q
<1>14. BallotsCount'
  BY <1>1, <1>3, <1>12, <1>13 DEF BallotsCount
<1> QED
  BY <1>10, <1>11, <1>14 DEF VotingInv

\* Every step keeps the invariant.
LEMMA VotingKept == VotingInv /\ [Next]_vars => VotingInv'
<1> SUFFICES ASSUME VotingInv, [Next]_vars PROVE VotingInv'
  OBVIOUS
<1>1. CASE \E r \in Peers, kind \in Kinds, content \in Contents, now, later \in Times :
             Propose(r, kind, content, now, later)
  BY <1>1, ProposeVoting
<1>2. CASE \/ \E r \in Peers, now \in Times : ProposeFails(r, now)
           \/ \E r \in Peers, content \in Contents, now \in Times : AddEpoch(r, content, now)
           \/ \E r \in Peers, now \in Times :
                \E header \in DOMAIN state[r].models.adds : RemoveModel(r, header, now)
           \/ \E r, peer \in Peers, credence \in Credences : AddPeer(r, peer, credence)
           \/ \E r \in Peers, other \in wire : Receive(r, other)
  BY <1>2, ReplicaOperations
<1>3. CASE \/ \E r \in Peers, quorum \in Quorums : ChangeQuorum(r, quorum)
           \/ \E r \in Peers, now \in Times :
                \E id \in DOMAIN engine[r].proposals : ForceCommit(r, id, now)
  BY <1>3, EngineOperations
<1>4. CASE \E r \in Peers : Publish(r)
  <2>1. PICK r \in Peers : Publish(r)
    BY <1>4
  <2>2. wire' = wire \cup {state[r]} /\ UNCHANGED <<state, engine, ballots, delivered>>
    BY <2>1 DEF Publish
  <2>3. ReplicasTyped'
    BY <2>2 DEF VotingInv, ReplicasTyped
  <2> QED
    BY <2>2, <2>3, EnginesStutter DEF VotingInv
<1>5. CASE \E p, r \in Peers, decision \in {"Approve", "Reject"}, credence \in Credences,
              now \in Times :
             \E id \in DOMAIN engine[r].proposals :
               CastBallot(p, r, id, decision, credence, now)
  BY <1>5, CastVoting
<1>6. CASE \E ballot \in ballots, now \in Times : DeliverBallot(ballot, now)
  BY <1>6, DeliverVoting
<1>7. CASE UNCHANGED vars
  BY <1>7, EnginesStutter DEF vars, VotingInv, ReplicasTyped
<1> QED
  BY Zenon, <1>1, <1>2, <1>3, <1>4, <1>5, <1>6, <1>7 DEF Next

\* In whatever order, and however often, the ballots of a voter arrive, the
\* newest of them stands (vote() in consensus.rs).
THEOREM NewestStands == Spec => []NewestVoteStands
<1>1. VotingInv => NewestVoteStands
  BY DEF VotingInv, BallotsCount, Stands, NewestVoteStands
<1> QED
  BY <1>1, VotingStarts, VotingKept, PTL DEF Spec

-----------------------------------------------------------------------------
(* Replicas converge *)

\* No counter is close to the limit of its 32 bits: a counter starts again
\* from 0 whenever the wall clock moves on.
FarFromLimit == \A r \in Peers : state[r].clock.log + 3 <= LogLimit

\* The register a proposal becomes when it is committed.
RegisterOf(q) == Lww(q.object.content, q.clock)

\* All registers that a replica may hold.
Issued == {Lww(NoContent, HlcNew(p, 0)) : p \in Peers}
          \cup UNION {{RegisterOf(engine[r].proposals[i]) : i \in DOMAIN engine[r].proposals} : r \in Peers}

\* A node stamps its proposals differently, and no other node stamps like it.
StampsApart ==
    \A r \in Peers : \A i \in DOMAIN engine[r].proposals :
      LET c == engine[r].proposals[i].clock
      IN  /\ c.node = r /\ c.log < LogLimit /\ Earlier(HlcNew(r, 0), c)
          /\ \A j \in DOMAIN engine[r].proposals : engine[r].proposals[j].clock = c => i = j

\* The next stamp will be later than those before.
StampsPast ==
    \A r \in Peers : \A i \in DOMAIN engine[r].proposals :
      AtMost(engine[r].proposals[i].clock, state[r].clock)

ReplicasGood ==
    /\ \A r \in Peers : Good(state[r], Issued)
    /\ \A w \in wire : Good(w, Issued) /\ w.clock.log < LogLimit

ConvergenceInv == VotingInv /\ StampsApart /\ StampsPast /\ ReplicasGood

\* What is issued, spelt out.
LEMMA IssuedMember ==
    ASSUME NEW x
    PROVE  x \in Issued <=>
             \/ \E p \in Peers : x = Lww(NoContent, HlcNew(p, 0))
             \/ \E r \in Peers : \E i \in DOMAIN engine[r].proposals :
                  x = RegisterOf(engine[r].proposals[i])
  BY DEF Issued

\* The clocks of issued registers tell them apart.
LEMMA IssuedToldApart ==
    ASSUME EnginesTyped, StampsApart
    PROVE  ToldApart(Issued)
<1>1. ASSUME NEW p \in Peers
      PROVE  LET x == Lww(NoContent, HlcNew(p, 0))
             IN  x.clock = HlcNew(p, 0) /\ x.clock \in Clocks /\ x.clock.node = p
  BY NoeticRuntimeConstants DEF Lww, HlcNew, Clocks
<1>2. ASSUME NEW r \in Peers, NEW i \in DOMAIN engine[r].proposals
      PROVE  LET x == RegisterOf(engine[r].proposals[i])
             IN  /\ x.clock = engine[r].proposals[i].clock /\ x.clock \in Clocks
                 /\ x.clock.node = r /\ x.clock # HlcNew(r, 0)
  <2> DEFINE q == engine[r].proposals[i]
  <2>1. q.clock \in Clocks /\ q.clock.node = r /\ Earlier(HlcNew(r, 0), q.clock)
    BY Zenon DEF EnginesTyped, IsEngine, IsProposal, StampsApart
  <2>2. q.clock # HlcNew(r, 0)
    BY <2>1, NoeticRuntimeConstants DEF Earlier, HlcNew, Clocks
  <2>3. RegisterOf(q).clock = q.clock
    BY DEF RegisterOf, Lww
  <2> QED
    BY <2>1, <2>2, <2>3
<1>3. ASSUME NEW a \in Issued PROVE a.clock \in Clocks
  BY <1>1, <1>2, IssuedMember
<1>4. ASSUME NEW a \in Issued, NEW b \in Issued, a.clock = b.clock PROVE a = b
  <2>1. CASE \E p \in Peers : a = Lww(NoContent, HlcNew(p, 0))
    <3>1. PICK p \in Peers : a = Lww(NoContent, HlcNew(p, 0))
      BY <2>1
    <3>2. CASE \E o \in Peers : b = Lww(NoContent, HlcNew(o, 0))
      BY <1>1, <1>4, <3>1, <3>2
    <3>3. CASE \E r \in Peers : \E i \in DOMAIN engine[r].proposals :
                 b = RegisterOf(engine[r].proposals[i])
      BY <1>1, <1>2, <1>4, <3>1, <3>3
    <3> QED
      BY <3>2, <3>3, IssuedMember
  <2>2. CASE \E r \in Peers : \E i \in DOMAIN engine[r].proposals :
               a = RegisterOf(engine[r].proposals[i])
    <3>1. PICK r \in Peers : \E i \in DOMAIN engine[r].proposals :
            a = RegisterOf(engine[r].proposals[i])
      BY <2>2
    <3>2. PICK i \in DOMAIN engine[r].proposals : a = RegisterOf(engine[r].proposals[i])
      BY <3>1
    <3>3. CASE \E o \in Peers : b = Lww(NoContent, HlcNew(o, 0))
      BY <1>1, <1>2, <1>4, <3>2, <3>3
    <3>4. CASE \E o \in Peers : \E j \in DOMAIN engine[o].proposals :
                 b = RegisterOf(engine[o].proposals[j])
      <4>1. PICK o \in Peers : \E j \in DOMAIN engine[o].proposals :
              b = RegisterOf(engine[o].proposals[j])
        BY <3>4
      <4>2. PICK j \in DOMAIN engine[o].proposals : b = RegisterOf(engine[o].proposals[j])
        BY <4>1
      <4>3. a.clock.node = r /\ b.clock.node = o
        BY <1>2, <3>2, <4>2
      <4>4. r = o
        BY <1>4, <4>3
      <4>5. engine[r].proposals[i].clock = engine[r].proposals[j].clock
        BY <1>2, <1>4, <3>2, <4>2, <4>4
      <4>6. i = j
        BY <4>4, <4>5 DEF StampsApart
      <4> QED
        BY <3>2, <4>2, <4>4, <4>6
    <3> QED
      BY <3>3, <3>4, IssuedMember
  <2> QED
    BY <2>1, <2>2, IssuedMember
<1> QED
  BY <1>3, <1>4 DEF ToldApart

\* The same, as a state predicate.
LEMMA IssuedTold == EnginesTyped /\ StampsApart => ToldApart(Issued)
  BY IssuedToldApart

\* What is issued stays so.
LEMMA IssuedGrows ==
    ASSUME \A p \in Peers : Follows(engine'[p], engine[p])
    PROVE  Issued \subseteq Issued'
<1>1. SUFFICES ASSUME NEW x \in Issued PROVE x \in Issued'
  OBVIOUS
<1>2. x \in Issued' <=>
        \/ \E p \in Peers : x = Lww(NoContent, HlcNew(p, 0))
        \/ \E r \in Peers : \E i \in DOMAIN engine'[r].proposals :
             x = RegisterOf(engine'[r].proposals[i])
  BY DEF Issued, RegisterOf
<1>3. CASE \E p \in Peers : x = Lww(NoContent, HlcNew(p, 0))
  BY <1>2, <1>3
<1>4. CASE \E r \in Peers : \E i \in DOMAIN engine[r].proposals :
             x = RegisterOf(engine[r].proposals[i])
  BY Zenon, <1>2, <1>4 DEF Follows, Became, RegisterOf
<1> QED
  BY <1>1, <1>3, <1>4, IssuedMember

\* No stamp is added.
SameStamps ==
    \A r \in Peers : /\ Follows(engine'[r], engine[r])
                     /\ DOMAIN engine'[r].proposals = DOMAIN engine[r].proposals

\* Every replica goes on as a good one, and keeps the headers it removed.
Advances ==
    \A r \in Peers : /\ Good(state'[r], Issued')
                     /\ AtMost(state[r].clock, state'[r].clock)
                     /\ DOMAIN state[r].models.removals \subseteq DOMAIN state'[r].models.removals

\* A step of one replica.
LEMMA OneAdvances ==
    ASSUME ConvergenceInv, \A p \in Peers : Follows(engine'[p], engine[p]), NEW r \in Peers,
           NEW t, state' = [state EXCEPT ![r] = t], Good(t, Issued'), AtMost(state[r].clock, t.clock),
           DOMAIN state[r].models.removals \subseteq DOMAIN t.models.removals
    PROVE  Advances
<1>1. DOMAIN state = Peers /\ state'[r] = t
  BY DEF ConvergenceInv, VotingInv, ReplicasTyped
<1>2. ASSUME NEW p \in Peers, p # r
      PROVE  /\ Good(state'[p], Issued') /\ AtMost(state[p].clock, state'[p].clock)
             /\ DOMAIN state[p].models.removals \subseteq DOMAIN state'[p].models.removals
  <2>1. state'[p] = state[p]
    BY <1>1, <1>2
  <2>2. Good(state[p], Issued) /\ Issued \subseteq Issued'
    BY IssuedGrows DEF ConvergenceInv, ReplicasGood
  <2>3. Good(state[p], Issued')
    BY <2>2, MoreIssued
  <2>4. AtMost(state[p].clock, state[p].clock)
    BY Zenon, <2>2, TimesOrdered DEF Good
  <2> QED
    BY <2>1, <2>3, <2>4
<1> QED
  BY <1>1, <1>2 DEF Advances

\* A step of no replica.
LEMMA NoneAdvances ==
    ASSUME ConvergenceInv, \A p \in Peers : Follows(engine'[p], engine[p]), state' = state
    PROVE  Advances
<1>1. Issued \subseteq Issued'
  BY Zenon, IssuedGrows
<1>2. ASSUME NEW p \in Peers
      PROVE  Good(state[p], Issued') /\ AtMost(state[p].clock, state[p].clock)
  <2>1. Good(state[p], Issued)
    BY Zenon DEF ConvergenceInv, ReplicasGood
  <2> QED
    BY Zenon, <1>1, <2>1, MoreIssued, TimesOrdered DEF Good
<1> QED
  BY Zenon, <1>2 DEF Advances

\* The stamps stay apart when none is added.
LEMMA StampsStayApart ==
    ASSUME StampsApart, SameStamps
    PROVE  StampsApart'
<1>1. ASSUME NEW r \in Peers, NEW i \in DOMAIN engine'[r].proposals
      PROVE  i \in DOMAIN engine[r].proposals
             /\ engine'[r].proposals[i].clock = engine[r].proposals[i].clock
  BY DEF SameStamps, Follows, Became
<1> QED
  BY <1>1 DEF StampsApart

\* They stay in the past, too.
LEMMA StampsStayPast ==
    ASSUME ConvergenceInv, VotingInv', SameStamps, Advances
    PROVE  StampsPast'
<1> SUFFICES ASSUME NEW r \in Peers, NEW i \in DOMAIN engine'[r].proposals
             PROVE  AtMost(engine'[r].proposals[i].clock, state'[r].clock)
  BY DEF StampsPast
<1> DEFINE c == engine[r].proposals[i].clock
<1>1. i \in DOMAIN engine[r].proposals /\ engine'[r].proposals[i].clock = c
  BY DEF SameStamps, Follows, Became
<1>2. AtMost(c, state[r].clock) /\ AtMost(state[r].clock, state'[r].clock)
  BY <1>1 DEF ConvergenceInv, StampsPast, Advances
<1>3. c \in Clocks /\ state[r].clock \in Clocks /\ state'[r].clock \in Clocks
  BY Zenon, <1>1 DEF ConvergenceInv, VotingInv, EnginesTyped, IsEngine, IsProposal, ReplicasTyped
<1> HIDE DEF c
<1> QED
  BY <1>1, <1>2, <1>3, TimesOrdered

\* Good replicas stay good when what is published is one of them.
LEMMA ReplicasStayGood ==
    ASSUME ConvergenceInv, FarFromLimit, Advances, \A p \in Peers : Follows(engine'[p], engine[p]),
           \A w \in wire' : w \in wire \/ \E r \in Peers : w = state[r]
    PROVE  ReplicasGood'
<1>1. Issued \subseteq Issued'
  BY IssuedGrows
<1>2. ASSUME NEW w \in wire' PROVE Good(w, Issued') /\ w.clock.log < LogLimit
  <2>1. Good(w, Issued) /\ w.clock.log < LogLimit
    <3>1. CASE w \in wire
      BY <3>1 DEF ConvergenceInv, ReplicasGood
    <3>2. CASE \E r \in Peers : w = state[r]
      <4>1. PICK r \in Peers : w = state[r]
        BY <3>2
      <4>2. w.clock \in Clocks /\ w.clock.log + 3 <= LogLimit /\ Good(w, Issued)
        BY Zenon, <4>1 DEF ConvergenceInv, ReplicasGood, FarFromLimit, Good
      <4> QED
        BY <4>2, NoeticCrdtConstants DEF Clocks
    <3> QED
      BY <3>1, <3>2
  <2> QED
    BY <1>1, <2>1, MoreIssued
<1> QED
  BY <1>2 DEF Advances, ReplicasGood

\* A step that adds no stamp.
LEMMA ConvergenceStep ==
    ASSUME ConvergenceInv, FarFromLimit, VotingInv', SameStamps, Advances,
           \A w \in wire' : w \in wire \/ \E r \in Peers : w = state[r]
    PROVE  ConvergenceInv'
<1>1. StampsApart'
  BY StampsStayApart DEF ConvergenceInv
<1>2. StampsPast'
  BY StampsStayPast
<1>3. ReplicasGood'
  BY ReplicasStayGood DEF SameStamps
<1> QED
  BY <1>1, <1>2, <1>3 DEF ConvergenceInv

\* A replica whose clock was ticked.
LEMMA TickGood ==
    ASSUME ConvergenceInv, FarFromLimit, NEW r \in Peers, NEW now \in Times
    PROVE  LET c == HlcTick(state[r].clock, now)
               t == [state[r] EXCEPT !.clock = c]
           IN  /\ c \in Clocks /\ Earlier(state[r].clock, c) /\ AtMost(state[r].clock, c)
               /\ c.node = r /\ Good(t, Issued) /\ t.clock = c /\ t.peer = r
               /\ t.models = state[r].models
<1> DEFINE s == state[r]
           c == HlcTick(s.clock, now)
           t == [s EXCEPT !.clock = c]
<1>1. /\ Good(s, Issued) /\ s.peer = r /\ s.clock \in Clocks /\ now \in Nat
      /\ s.clock.log + 3 <= LogLimit /\ s.clock.node = r
  BY Zenon, NoeticRuntimeConstants
  DEF ConvergenceInv, VotingInv, ReplicasTyped, ReplicasGood, Good, FarFromLimit
<1>2. s.clock.log < LogLimit
  BY <1>1, NoeticCrdtConstants DEF Clocks
<1> HIDE DEF s
<1>3. Ticked(c, s.clock)
  BY <1>1, TickLater
<1> HIDE DEF c
<1>4. c \in Clocks /\ c.node = r /\ Earlier(s.clock, c)
  BY <1>1, <1>2, <1>3 DEF Ticked
<1>5. AtMost(s.clock, c)
  BY <1>1, <1>4, TimesOrdered
<1>6. ToldApart(Issued)
  BY IssuedToldApart DEF ConvergenceInv, VotingInv
<1>7. Good(t, Issued)
  BY <1>1, <1>4, <1>5, <1>6, ClockRaised
<1>8. t.clock = c /\ t.peer = s.peer /\ t.models = s.models
  BY <1>1 DEF Good, IsReplica
<1> QED
  BY <1>1, <1>4, <1>5, <1>7, <1>8 DEF s, c

\* The stamps after a step that leaves the engines.
LEMMA SameEngines ==
    ASSUME EnginesTyped, engine' = engine
    PROVE  SameStamps /\ Issued' = Issued /\ \A p \in Peers : Follows(engine'[p], engine[p])
<1>1. ASSUME NEW p \in Peers PROVE Follows(engine[p], engine[p])
  <2>1. Replaced(engine[p], engine[p], p)
    BY ReplacedSelf DEF EnginesTyped
  <2> QED
    BY <2>1 DEF Replaced
<1>2. Issued' = Issued
  BY DEF Issued
<1> QED
  BY <1>1, <1>2 DEF SameStamps

\* The outcome of every action.
Goes == SameStamps /\ Advances /\ \A w \in wire' : w \in wire \/ \E r \in Peers : w = state[r]

\* A step of one replica that leaves the engines.
LEMMA ReplicaGoes ==
    ASSUME ConvergenceInv, NEW r \in Peers, NEW t, state' = [state EXCEPT ![r] = t],
           Good(t, Issued), AtMost(state[r].clock, t.clock),
           DOMAIN state[r].models.removals \subseteq DOMAIN t.models.removals,
           engine' = engine, wire' = wire
    PROVE  Goes
<1>1. SameStamps /\ Issued' = Issued /\ \A p \in Peers : Follows(engine'[p], engine[p])
  BY SameEngines DEF ConvergenceInv, VotingInv
<1>2. Advances
  BY Zenon, <1>1, OneAdvances
<1> QED
  BY <1>1, <1>2 DEF Goes

\* The operations on a replica, and a ballot that is cast.
LEMMA ReplicaActionsGo ==
    ASSUME ConvergenceInv, FarFromLimit, NEW r \in Peers
    PROVE  /\ \A now \in Times : ProposeFails(r, now) => Goes
           /\ \A now \in Times : \A content : AddEpoch(r, content, now) => Goes
           /\ \A now \in Times : \A header \in DOMAIN state[r].models.adds :
                RemoveModel(r, header, now) => Goes
           /\ \A peer : \A credence \in Credences : AddPeer(r, peer, credence) => Goes
           /\ \A other \in wire : Receive(r, other) => Goes
           /\ \A p, id, decision, credence : \A now \in Times :
                CastBallot(r, p, id, decision, credence, now) => Goes
<1> DEFINE s == state[r]
<1>1. Good(s, Issued) /\ s.peer = r /\ s.clock \in Clocks /\ s.clock.log + 3 <= LogLimit
  BY DEF ConvergenceInv, VotingInv, ReplicasTyped, ReplicasGood, FarFromLimit
<1>2. s.clock.log < LogLimit
  BY <1>1, NoeticCrdtConstants DEF Clocks
<1>3. ToldApart(Issued)
  BY IssuedToldApart DEF ConvergenceInv, VotingInv
<1>4. ASSUME NEW now \in Times, ProposeFails(r, now) PROVE Goes
  <2> DEFINE c == HlcTick(s.clock, now)
             t == [s EXCEPT !.clock = c]
  <2>1. state' = [state EXCEPT ![r] = t] /\ engine' = engine /\ wire' = wire
    BY <1>4 DEF ProposeFails
  <2>2. Good(t, Issued) /\ AtMost(s.clock, t.clock) /\ t.models = s.models
    BY TickGood
  <2> HIDE DEF t
  <2> QED
    BY Zenon, <2>1, <2>2, ReplicaGoes
<1>5. ASSUME NEW now \in Times, NEW p, NEW id, NEW decision, NEW credence,
             CastBallot(r, p, id, decision, credence, now)
      PROVE  Goes
  <2> DEFINE c == HlcTick(s.clock, now)
             t == [s EXCEPT !.clock = c]
  <2>1. state' = [state EXCEPT ![r] = t] /\ engine' = engine /\ wire' = wire
    BY <1>5 DEF CastBallot
  <2>2. Good(t, Issued) /\ AtMost(s.clock, t.clock) /\ t.models = s.models
    BY TickGood
  <2> HIDE DEF t
  <2> QED
    BY Zenon, <2>1, <2>2, ReplicaGoes
<1>6. ASSUME NEW now \in Times, NEW content, AddEpoch(r, content, now) PROVE Goes
  <2> DEFINE c == HlcTick(s.clock, now)
             u == [s EXCEPT !.clock = c]
             h == Header(content, c)
             t == ApplyEpoch(u, h)
  <2>1. state' = [state EXCEPT ![r] = t] /\ engine' = engine /\ wire' = wire
    BY <1>6 DEF AddEpoch
  <2>2. /\ c \in Clocks /\ Good(u, Issued) /\ AtMost(s.clock, c) /\ u.clock = c
        /\ u.models = s.models
    BY TickGood
  <2> HIDE DEF c, u
  <2>3. KeptByHeader(u, h, Issued)
    BY Zenon, <2>2, HeadersApplied, TimesOrdered
  <2> HIDE DEF h
  <2>4. Good(t, Issued) /\ t.clock = c
    BY <2>2, <2>3 DEF KeptByHeader
  <2>5. t.models = s.models
    <3>1. IsReplica(u)
      BY Zenon, <2>2 DEF Good
    <3>2. t.models = u.models
      BY Zenon, <3>1, AppliedFields DEF Alike
    <3> QED
      BY <2>2, <3>2
  <2> HIDE DEF t
  <2> QED
    BY Zenon, <2>1, <2>2, <2>4, <2>5, ReplicaGoes
<1>7. ASSUME NEW now \in Times, NEW header \in DOMAIN s.models.adds, RemoveModel(r, header, now)
      PROVE  Goes
  <2> DEFINE c == HlcTick(s.clock, now)
             u == [s EXCEPT !.clock = c]
             ms == OrSetRemove(s.models, header, c, s.credence)
             t == [s EXCEPT !.clock = c, !.models = ms]
  <2>1. state' = [state EXCEPT ![r] = t] /\ engine' = engine /\ wire' = wire
    BY Zenon, <1>7 DEF RemoveModel
  <2>2. /\ c \in Clocks /\ Good(u, Issued) /\ AtMost(s.clock, c) /\ Earlier(s.clock, c)
        /\ u.clock = c /\ u.models = s.models
    BY TickGood
  <2> HIDE DEF c
  <2>3. GoodSet(s.models, c)
    BY <2>2 DEF Good
  <2>4. Earlier(header.version, c)
    <3>1. PICK D : s.models.adds \in [D -> Clocks]
      BY Zenon, <1>1 DEF Good, GoodSet, IsOrSet, IsMap
    <3>2. header.version \in Clocks /\ AtMost(header.version, s.clock)
      BY Zenon, <1>1, <3>1 DEF Good, GoodSet
    <3> QED
      BY <1>1, <2>2, <3>2, TimesOrdered
  <2>5. GoodSet(ms, c)
    BY <2>2, <2>3, <2>4, SetRemoved
  <2>6. DOMAIN s.models.removals \subseteq DOMAIN ms.removals
    BY <2>3 DEF OrSetRemove, PutLatest, GoodSet, IsOrSet
  <2> HIDE DEF ms
  <2>7. ModelsPut(t, s, c, ms)
    BY Zenon, <1>1, ModelsFields DEF Good
  <2>8. /\ u.epochs = s.epochs /\ u.seeds = s.seeds /\ u.model_topk = s.model_topk
        /\ u.seed_status = s.seed_status /\ u.policies = s.policies /\ u.peer = s.peer
        /\ u.credence = s.credence
    BY <1>1 DEF Good, IsReplica
  <2> HIDE DEF t, u
  <2>9. Good(t, Issued)
    BY Zenon, <2>2, <2>5, <2>7, <2>8 DEF Good, ModelsPut
  <2> QED
    BY Zenon, <2>1, <2>2, <2>6, <2>7, <2>9, ReplicaGoes DEF ModelsPut
<1>8. ASSUME NEW peer, NEW credence \in Credences, AddPeer(r, peer, credence) PROVE Goes
  <2> DEFINE t == SetCredence(s, peer, credence)
  <2>1. state' = [state EXCEPT ![r] = t] /\ engine' = engine /\ wire' = wire
    BY <1>8 DEF AddPeer
  <2>2. Good(t, Issued) /\ t.clock = s.clock /\ t.models = s.models
    BY <1>1, CredenceSet, NoeticRuntimeConstants
  <2>3. AtMost(s.clock, s.clock)
    BY <1>1, TimesOrdered
  <2> HIDE DEF t
  <2> QED
    BY Zenon, <2>1, <2>2, <2>3, ReplicaGoes
<1>9. ASSUME NEW other \in wire, Receive(r, other) PROVE Goes
  <2> DEFINE t == MergeState(s, other)
  <2>1. state' = [state EXCEPT ![r] = t] /\ engine' = engine /\ wire' = wire
    BY <1>9 DEF Receive
  <2>2. Good(other, Issued) /\ other.clock.log < LogLimit
    BY DEF ConvergenceInv, ReplicasGood
  <2>3. Good(t, Issued) /\ Earlier(s.clock, t.clock)
    BY Zenon, <1>1, <1>2, <1>3, <2>2, MergeGood
  <2>4. AtMost(s.clock, t.clock)
    <3>1. t.clock \in Clocks
      BY Zenon, <2>3 DEF Good
    <3> HIDE DEF s, t
    <3> QED
      BY Zenon, <1>1, <2>3, <3>1, TimesOrdered
  <2>5. t.models = OrSetMerge(s.models, other.models, MergedCredence(s.credence, other.credence))
    BY Zenon, <1>1, MergeFields DEF Good
  <2>6. DOMAIN s.models.removals \subseteq DOMAIN t.models.removals
    <3> DEFINE m == MergedCredence(s.credence, other.credence)
    <3> HIDE DEF m, s, t
    <3> QED
      BY <2>5 DEF OrSetMerge, PutAllLatest, m
  <2> HIDE DEF t
  <2> QED
    BY Zenon, <2>1, <2>3, <2>4, <2>6, ReplicaGoes
<1> QED
  BY <1>4, <1>5, <1>6, <1>7, <1>8, <1>9

\* A committed proposal of the node goes into its replica.
LEMMA CommitGoes ==
    ASSUME ConvergenceInv, FarFromLimit, NEW r \in Peers, NEW id \in DOMAIN engine[r].proposals,
           NEW f, Replaced(f, engine[r], id), NEW q, Became(q, engine[r].proposals[id]),
           NEW now \in Times, engine' = [engine EXCEPT ![r] = f],
           state' = [state EXCEPT ![r] = ApplyCommit(state[r], q, now)] \/ state' = state,
           wire' = wire
    PROVE  Goes
<1> DEFINE s == state[r]
           o == engine[r].proposals[id]
           t == ApplyCommit(s, q, now)
<1>1. Good(s, Issued) /\ s.clock \in Clocks /\ s.clock.log + 3 <= LogLimit
  BY DEF ConvergenceInv, VotingInv, ReplicasTyped, ReplicasGood, FarFromLimit
<1>2. s.clock.log < LogLimit
  BY <1>1, NoeticCrdtConstants DEF Clocks
<1>3. ToldApart(Issued)
  BY IssuedToldApart DEF ConvergenceInv, VotingInv
<1>4. /\ o.clock \in Clocks /\ o.clock.log < LogLimit /\ o.object.kind \in Kinds
      /\ RegisterOf(o) \in Issued
  BY Zenon, IssuedMember DEF ConvergenceInv, StampsApart, VotingInv, EnginesTyped, IsEngine, IsProposal
<1>5. q.clock = o.clock /\ q.object = o.object /\ Lww(q.object.content, q.clock) = RegisterOf(o)
  BY Zenon DEF Became, RegisterOf
<1> HIDE DEF o
<1>6. now \in Nat
  BY NoeticRuntimeConstants
<1>7. Good(t, Issued) /\ DOMAIN t.models.removals = DOMAIN s.models.removals /\ Earlier(s.clock, t.clock)
  BY <1>1, <1>2, <1>3, <1>4, <1>5, <1>6, CommitGood
<1>8. AtMost(s.clock, t.clock)
  <2>1. t.clock \in Clocks
    BY Zenon, <1>7 DEF Good
  <2> HIDE DEF s, t
  <2> QED
    BY Zenon, <1>1, <1>7, <2>1, TimesOrdered
<1>10. engine'[r] = f /\ \A p \in Peers : Follows(engine'[p], engine[p])
  BY Zenon, EngineStep DEF Replaced, ConvergenceInv, VotingInv
<1>11. ASSUME NEW p \in Peers PROVE DOMAIN engine'[p].proposals = DOMAIN engine[p].proposals
  BY <1>10 DEF Replaced, ConvergenceInv, VotingInv, EnginesTyped
<1>12. SameStamps
  BY <1>10, <1>11 DEF SameStamps
<1> HIDE DEF t
<1>13. Good(t, Issued')
  BY Zenon, <1>7, <1>10, IssuedGrows, MoreIssued
<1>14. Advances
  <2>1. CASE state' = [state EXCEPT ![r] = t]
    BY Zenon, <1>7, <1>8, <1>10, <1>13, <2>1, OneAdvances
  <2>2. CASE state' = state
    BY <1>10, <2>2, NoneAdvances
  <2> QED
    BY <2>1, <2>2 DEF t
<1> QED
  BY <1>12, <1>14 DEF Goes

\* What Propose does: the new proposal is stamped after all that the node has
\* seen, the others are as they were, and the replica advances.
Proposes(r, id) ==
    /\ id \notin DOMAIN engine[r].proposals
    /\ DOMAIN engine'[r].proposals = DOMAIN engine[r].proposals \cup {id}
    /\ \A p \in Peers : p # r => engine'[p] = engine[p]
    /\ \A p \in Peers : Follows(engine'[p], engine[p])
    /\ LET c == engine'[r].proposals[id].clock
       IN  /\ c \in Clocks /\ c.node = r /\ c.log < LogLimit
           /\ Earlier(state[r].clock, c) /\ AtMost(c, state'[r].clock)

\* The stamps stay apart.
LEMMA ProposeApart ==
    ASSUME ConvergenceInv, NEW r \in Peers, NEW id,
           id \notin DOMAIN engine[r].proposals,
           DOMAIN engine'[r].proposals = DOMAIN engine[r].proposals \cup {id},
           \A p \in Peers : p # r => engine'[p] = engine[p],
           \A p \in Peers : Follows(engine'[p], engine[p]),
           NEW c \in Clocks, engine'[r].proposals[id].clock = c, c.node = r, c.log < LogLimit,
           Earlier(state[r].clock, c)
    PROVE  StampsApart'
<1>1. ASSUME NEW p \in Peers, NEW i \in DOMAIN engine[p].proposals
      PROVE  engine'[p].proposals[i].clock = engine[p].proposals[i].clock
  BY Zenon DEF Follows, Became
<1>2. r \in Nat /\ state[r].clock \in Clocks
  BY Zenon, NoeticRuntimeConstants DEF ConvergenceInv, VotingInv, ReplicasTyped
<1>3. Earlier(HlcNew(r, 0), c)
  BY <1>2 DEF Earlier, HlcNew, Clocks
<1>4. ASSUME NEW j \in DOMAIN engine[r].proposals PROVE engine'[r].proposals[j].clock # c
  <2> DEFINE d == engine[r].proposals[j].clock
  <2>1. d \in Clocks /\ AtMost(d, state[r].clock)
    BY Zenon DEF ConvergenceInv, StampsPast, VotingInv, EnginesTyped, IsEngine, IsProposal
  <2> HIDE DEF d
  <2>2. d # c
    BY <1>2, <2>1, TimesOrdered
  <2> QED
    BY <1>1, <2>2 DEF d
<1>5. ASSUME NEW p \in Peers, NEW i \in DOMAIN engine'[p].proposals
      PROVE  LET x == engine'[p].proposals[i].clock
             IN  /\ x.node = p /\ x.log < LogLimit /\ Earlier(HlcNew(p, 0), x)
                 /\ \A j \in DOMAIN engine'[p].proposals : engine'[p].proposals[j].clock = x => i = j
  <2>1. CASE p # r
    BY <2>1 DEF ConvergenceInv, StampsApart
  <2>2. CASE p = r /\ i = id
    BY <1>3, <1>4, <2>2
  <2>3. CASE p = r /\ i # id
    <3>1. i \in DOMAIN engine[r].proposals
      BY <2>3
    <3> QED
      BY <1>1, <1>4, <2>3, <3>1 DEF ConvergenceInv, StampsApart
  <2> QED
    BY Zenon, <2>1, <2>2, <2>3
<1> QED
  BY Zenon, <1>5 DEF StampsApart

\* noetic.propose: the new update, committed at once or not.
LEMMA ProposeGoes ==
    ASSUME ConvergenceInv, FarFromLimit, NEW r \in Peers, NEW kind \in Kinds, NEW content,
           NEW now \in Times, NEW later \in Times, Propose(r, kind, content, now, later)
    PROVE  /\ StampsApart' /\ Advances /\ Proposes(r, ProposedId(r)) /\ wire' = wire
           /\ LET q == engine'[r].proposals[ProposedId(r)]
                  mine == Header(q.object.content, q.clock)
                  shown == Shown(state'[r])
              IN  /\ q.object.kind \in Kinds
                  /\ q.committed =>
                       /\ q.object.kind = "model" =>
                            mine \in shown.models /\ shown.model_topk.clock = q.clock
                       /\ q.object.kind = "seed" =>
                            mine \in shown.seeds /\ shown.seed_status.clock = q.clock
                       /\ q.object.kind = "policy" => shown.policies.clock = q.clock
<1> DEFINE s == state[r]
           asked == ProposedIn(r, kind, content, now)
           vote == OwnVote(r, now, later)
           voted == VotedIn(r, kind, content, now, later)
           clock == ProposedAt(r, now)
           voting == OwnVoteAt(r, now, later)
           id == ProposedId(r)
           object == [kind |-> kind, content |-> content]
           ticked == TickedTwice(r, now, later)
           q == voted.proposals[id]
           done == ApplyCommit(ticked, q, later)
<1>1. now \in Nat /\ later \in Nat /\ r \in Nat
  BY NoeticRuntimeConstants
<1>2. ReplicasTyped /\ EnginesTyped /\ BallotsCount
  BY DEF ConvergenceInv, VotingInv
<1>3. /\ Ticked(clock, s.clock) /\ Ticked(voting, clock)
      /\ id \notin DOMAIN engine[r].proposals
      /\ Extended(voted, engine[r], id, object, clock)
  BY <1>1, <1>2, ProposeParts, ProposeKept
<1>4. /\ engine' = [engine EXCEPT ![r] = voted]
      /\ \/ state' = [state EXCEPT ![r] = done]
         \/ ~ VoteCommits(asked, id, r, vote) /\ state' = [state EXCEPT ![r] = ticked]
      /\ UNCHANGED <<wire, ballots, delivered>>
  BY ProposeParts
<1>5. VoteCommits(asked, id, r, vote) <=> ~ asked.proposals[id].committed /\ q.committed
  BY Zenon DEF VoteCommits, VotedIn
<1>6. ~ asked.proposals[id].committed
  BY <1>2 DEF ProposedIn, ProposeObject, EnginesTyped, IsEngine
<1>7. /\ Good(s, Issued) /\ s.peer = r /\ s.clock \in Clocks /\ s.clock.log + 3 <= LogLimit
      /\ s.clock.node = r
  BY Zenon DEF ConvergenceInv, VotingInv, ReplicasTyped, ReplicasGood, FarFromLimit, Good
<1>8. s.clock.log \in Nat /\ s.clock.log < LogLimit /\ LogLimit \in Nat
  BY <1>7, NoeticCrdtConstants DEF Clocks
<1> HIDE DEF s, asked, vote, clock, voting, id, object
<1>9. /\ clock \in Clocks /\ clock.node = r /\ clock.log <= s.clock.log + 1
      /\ Earlier(s.clock, clock)
  BY Zenon, <1>3, <1>7, <1>8 DEF Ticked
<1>10. clock.log \in Nat /\ clock.log < LogLimit
  BY <1>7, <1>8, <1>9 DEF Clocks
<1>11. /\ voting \in Clocks /\ voting.node = r /\ voting.log <= clock.log + 1
       /\ Earlier(clock, voting)
  BY Zenon, <1>3, <1>9, <1>10 DEF Ticked
<1>12. voting.log < LogLimit
  BY <1>7, <1>8, <1>9, <1>10, <1>11 DEF Clocks
<1>13. AtMost(s.clock, voting) /\ AtMost(clock, voting)
  BY Zenon, <1>7, <1>9, <1>11, TimesOrdered
<1>14. engine'[r] = voted /\ \A p \in Peers : Follows(engine'[p], engine[p])
  BY Zenon, <1>2, <1>3, <1>4, EngineStep DEF Extended
<1>15. \A p \in Peers : p # r => engine'[p] = engine[p]
  BY <1>2, <1>4 DEF EnginesTyped
<1> HIDE DEF voted
<1>16. /\ DOMAIN voted.proposals = DOMAIN engine[r].proposals \cup {id}
       /\ q.object = object /\ q.clock = clock
  BY Zenon, <1>3 DEF Extended
<1>17. StampsApart'
  BY Zenon, <1>3, <1>9, <1>10, <1>14, <1>15, <1>16, ProposeApart DEF s
<1>18. EnginesTyped'
  BY Zenon, <1>2, <1>3, <1>4, EngineStep DEF Extended
<1>19. ToldApart(Issued')
  <2>1. (EnginesTyped /\ StampsApart)' => ToldApart(Issued)'
    BY IssuedTold, PTL
  <2> QED
    BY <1>17, <1>18, <2>1
<1>20. Good(s, Issued')
  BY Zenon, <1>7, <1>14, IssuedGrows, MoreIssued
<1>21. ticked = [s EXCEPT !.clock = voting]
  BY DEF TickedTwice, s, voting
<1>22. Good(ticked, Issued')
  BY <1>7, <1>11, <1>13, <1>19, <1>20, <1>21, ClockRaised
<1>23. /\ ticked.clock = voting /\ ticked.models = s.models /\ ticked.seeds = s.seeds
       /\ ticked.model_topk = s.model_topk /\ ticked.seed_status = s.seed_status
       /\ ticked.policies = s.policies
  BY <1>7, <1>21 DEF Good, IsReplica
<1> HIDE DEF ticked, q, done
<1>24. Lww(q.object.content, q.clock) \in Issued'
  BY <1>14, <1>16 DEF Issued, RegisterOf, q
<1>25. q.object.kind = kind /\ q.object.kind \in Kinds
  BY <1>16 DEF object
<1>26. /\ Good(done, Issued') /\ DOMAIN done.models.removals = DOMAIN ticked.models.removals
       /\ Earlier(voting, done.clock) /\ Earlier(clock, done.clock)
  BY <1>1, <1>9, <1>10, <1>12, <1>16, <1>19, <1>22, <1>23, <1>24, <1>25, CommitGood DEF done
<1>27. done.clock \in Clocks
  BY Zenon, <1>26 DEF Good
<1>28. AtMost(s.clock, done.clock) /\ AtMost(clock, done.clock)
  BY Zenon, <1>7, <1>9, <1>11, <1>13, <1>26, <1>27, TimesOrdered
<1>29. DOMAIN state = Peers
  BY Zenon, <1>2 DEF ReplicasTyped
<1>30. Advances
  <2>1. CASE state' = [state EXCEPT ![r] = done]
    BY Zenon, <1>14, <1>23, <1>26, <1>28, <2>1, OneAdvances DEF s
  <2>2. CASE state' = [state EXCEPT ![r] = ticked]
    BY Zenon, <1>13, <1>14, <1>22, <1>23, <2>2, OneAdvances DEF s
  <2> QED
    BY <1>4, <2>1, <2>2
<1>31. Proposes(r, id)
  <2>1. AtMost(clock, state'[r].clock)
    BY Zenon, <1>4, <1>13, <1>23, <1>28, <1>29
  <2>2. engine'[r].proposals[id].clock = clock
    BY <1>14, <1>16 DEF q
  <2> QED
    BY Zenon, <1>3, <1>9, <1>10, <1>14, <1>15, <1>16, <2>1, <2>2 DEF Proposes, s
<1>32. ASSUME q.committed
       PROVE  /\ kind = "model" => /\ Header(q.object.content, q.clock) \in Shown(state'[r]).models
                                   /\ Shown(state'[r]).model_topk.clock = q.clock
              /\ kind = "seed" => /\ Header(q.object.content, q.clock) \in Shown(state'[r]).seeds
                                  /\ Shown(state'[r]).seed_status.clock = q.clock
              /\ kind = "policy" => Shown(state'[r]).policies.clock = q.clock
  <2>1. state'[r] = done
    BY <1>4, <1>5, <1>6, <1>29, <1>32
  <2>2. /\ GoodSet(ticked.models, s.clock) /\ GoodSet(ticked.seeds, s.clock)
        /\ AtMost(ticked.model_topk.clock, s.clock) /\ AtMost(ticked.seed_status.clock, s.clock)
        /\ AtMost(ticked.policies.clock, s.clock)
    BY Zenon, <1>7, <1>23 DEF Good, GoodRegister
  <2>3. q.clock \in Clocks /\ Earlier(s.clock, q.clock)
    BY Zenon, <1>9, <1>16
  <2>4. ShowsObject(done, q)
    BY Zenon, <1>7, <1>19, <1>22, <1>25, <2>2, <2>3, CommitShown DEF done
  <2>5. q.object.kind = kind
    BY Zenon, <1>25
  <2> HIDE DEF done, q
  <2> QED
    BY Zenon, <2>1, <2>4, <2>5 DEF ShowsObject
<1>33. q = engine'[r].proposals[id]
  BY <1>14 DEF q
<1> HIDE DEF Proposes
<1> QED
  BY Zenon, <1>4, <1>17, <1>25, <1>30, <1>31, <1>32, <1>33 DEF id

\* After noetic.propose the invariant holds again.
LEMMA ProposeConverges ==
    ASSUME ConvergenceInv, FarFromLimit, VotingInv', NEW r \in Peers, NEW id,
           StampsApart', Advances, Proposes(r, id), wire' = wire
    PROVE  ConvergenceInv'
<1>1. ASSUME NEW p \in Peers, NEW i \in DOMAIN engine'[p].proposals
      PROVE  AtMost(engine'[p].proposals[i].clock, state'[p].clock)
  <2>1. CASE p = r /\ i = id
    BY <2>1 DEF Proposes
  <2>2. CASE ~ (p = r /\ i = id)
    <3> DEFINE c == engine[p].proposals[i].clock
    <3>1. i \in DOMAIN engine[p].proposals
      BY <2>2 DEF Proposes
    <3>2. engine'[p].proposals[i].clock = c
      BY Zenon, <3>1 DEF Proposes, Follows, Became
    <3>3. AtMost(c, state[p].clock) /\ AtMost(state[p].clock, state'[p].clock)
      BY Zenon, <3>1 DEF ConvergenceInv, StampsPast, Advances
    <3>4. c \in Clocks /\ state[p].clock \in Clocks /\ state'[p].clock \in Clocks
      BY Zenon, <3>1 DEF ConvergenceInv, VotingInv, EnginesTyped, IsEngine, IsProposal, ReplicasTyped
    <3> HIDE DEF c
    <3> QED
      BY <3>2, <3>3, <3>4, TimesOrdered
  <2> QED
    BY <2>1, <2>2
<1>2. StampsPast'
  BY <1>1 DEF StampsPast
<1>3. ReplicasGood'
  BY ReplicasStayGood DEF Proposes
<1> QED
  BY <1>2, <1>3 DEF ConvergenceInv

\* Every action but Propose.
LEMMA OthersGo ==
    ASSUME ConvergenceInv, FarFromLimit, [Next]_vars
    PROVE  \/ \E r \in Peers, kind \in Kinds, content \in Contents, now, later \in Times :
                Propose(r, kind, content, now, later)
           \/ Goes
<1>1. CASE \/ \E r \in Peers, now \in Times : ProposeFails(r, now)
           \/ \E r \in Peers, content \in Contents, now \in Times : AddEpoch(r, content, now)
           \/ \E r \in Peers, now \in Times :
                \E header \in DOMAIN state[r].models.adds : RemoveModel(r, header, now)
           \/ \E r, peer \in Peers, credence \in Credences : AddPeer(r, peer, credence)
           \/ \E r \in Peers, other \in wire : Receive(r, other)
           \/ \E p, r \in Peers, decision \in {"Approve", "Reject"}, credence \in Credences,
                 now \in Times :
                \E id \in DOMAIN engine[r].proposals :
                  CastBallot(p, r, id, decision, credence, now)
  BY Zenon, <1>1, ReplicaActionsGo
<1>2. CASE \E r \in Peers, quorum \in Quorums : ChangeQuorum(r, quorum)
  <2>1. PICK r \in Peers, quorum \in Quorums : ChangeQuorum(r, quorum)
    BY <1>2
  <2> DEFINE f == SetQuorum(engine[r], quorum)
  <2>2. engine' = [engine EXCEPT ![r] = f] /\ state' = state /\ wire' = wire
    BY <2>1 DEF ChangeQuorum
  <2>3. EnginesTyped /\ IsEngine(engine[r])
    BY DEF ConvergenceInv, VotingInv, EnginesTyped
  <2>4. IsEngine(f) /\ Follows(f, engine[r]) /\ f.proposals = engine[r].proposals
    BY <2>3, QuorumSet
  <2> HIDE DEF f
  <2>5. engine'[r] = f /\ \A p \in Peers : Follows(engine'[p], engine[p])
    BY Zenon, <2>2, <2>3, <2>4, EngineStep
  <2>6. ASSUME NEW p \in Peers PROVE DOMAIN engine'[p].proposals = DOMAIN engine[p].proposals
    BY <2>2, <2>3, <2>4, <2>5 DEF EnginesTyped
  <2>7. Advances
    BY <2>2, <2>5, NoneAdvances
  <2> QED
    BY <2>2, <2>5, <2>6, <2>7 DEF Goes, SameStamps
<1>3. CASE \E r \in Peers, now \in Times :
             \E id \in DOMAIN engine[r].proposals : ForceCommit(r, id, now)
  <2>1. PICK r \in Peers, now \in Times :
          \E id \in DOMAIN engine[r].proposals : ForceCommit(r, id, now)
    BY <1>3
  <2>2. PICK id \in DOMAIN engine[r].proposals : ForceCommit(r, id, now)
    BY <2>1
  <2> DEFINE f == Commit(engine[r], id)
             q == engine[r].proposals[id]
  <2>3. /\ engine' = [engine EXCEPT ![r] = f] /\ wire' = wire
        /\ state' = [state EXCEPT ![r] = ApplyCommit(state[r], q, now)]
    BY <2>2 DEF ForceCommit
  <2>4. IsEngine(engine[r])
    BY DEF ConvergenceInv, VotingInv, EnginesTyped
  <2>5. Replaced(f, engine[r], id) /\ Became(q, q)
    BY <2>4, CommitForced, LaterSelf DEF IsEngine
  <2> HIDE DEF f
  <2> QED
    BY Zenon, <2>3, <2>5, CommitGoes
<1>4. CASE \E ballot \in ballots, now \in Times : DeliverBallot(ballot, now)
  <2>1. PICK b \in ballots, now \in Times : DeliverBallot(b, now)
    BY <1>4
  <2> DEFINE r == b.to
             id == b.id
             f == Vote(engine[r], id, b.peer, b.vote)
             q == f.proposals[id]
  <2>2. r \in Peers /\ id \in DOMAIN engine[r].proposals /\ b.vote.clock \in Clocks
    BY DEF ConvergenceInv, VotingInv, BallotsCount
  <2>3. /\ engine' = [engine EXCEPT ![r] = f] /\ wire' = wire
        /\ state' = [state EXCEPT ![r] = ApplyCommit(state[r], q, now)] \/ state' = state
    BY Zenon, <2>1 DEF DeliverBallot
  <2>4. IsEngine(engine[r])
    BY <2>2 DEF ConvergenceInv, VotingInv, EnginesTyped
  <2>5. Replaced(f, engine[r], id) /\ Recorded(q, engine[r].proposals[id], b.peer, b.vote.clock)
    BY Zenon, <2>2, <2>4, VoteCounted
  <2>6. Became(q, engine[r].proposals[id])
    BY Zenon, <2>5 DEF Recorded
  <2> HIDE DEF f, q, r, id
  <2> QED
    BY Zenon, <2>2, <2>3, <2>5, <2>6, CommitGoes
<1>5. CASE (\E r \in Peers : Publish(r)) \/ UNCHANGED vars
  <2>1. engine' = engine /\ state' = state /\ \A w \in wire' : w \in wire \/ \E r \in Peers : w = state[r]
    BY <1>5 DEF Publish, vars
  <2>2. SameStamps /\ \A p \in Peers : Follows(engine'[p], engine[p])
    BY <2>1, SameEngines DEF ConvergenceInv, VotingInv
  <2> QED
    BY <2>1, <2>2, NoneAdvances DEF Goes
<1> QED
  BY Zenon, <1>1, <1>2, <1>3, <1>4, <1>5 DEF Next

\* New replicas hold nothing, so nothing they hold is ahead of their clocks.
LEMMA ConvergenceStarts == Init => ConvergenceInv
<1>1. SUFFICES ASSUME Init PROVE ConvergenceInv
  OBVIOUS
<1>2. VotingInv /\ wire = {}
  BY <1>1, VotingStarts DEF Init
<1>3. ASSUME NEW r \in Peers PROVE DOMAIN engine[r].proposals = {}
  <2>1. PICK quorum \in InitialQuorums : engine = [p \in Peers |-> NewEngine(quorum)]
    BY <1>1 DEF Init
  <2>2. NewEngine(quorum).proposals = << >>
    BY DEF NewEngine
  <2>3. engine[r].proposals = << >>
    BY <2>1, <2>2
  <2> QED
    BY <2>3
<1>4. ASSUME NEW r \in Peers PROVE Good(state[r], Issued)
  <2> DEFINE s == SetCredence(NewState(r), r, LocalCredence)
  <2>1. r \in Nat /\ state[r] = s
    BY <1>1, NoeticRuntimeConstants DEF Init
  <2>2. Lww(NoContent, HlcNew(r, 0)) \in Issued
    BY IssuedMember
  <2>3. Good(s, Issued)
    BY <2>1, <2>2, NewReplicaGood
  <2> HIDE DEF s
  <2> QED
    BY <2>1, <2>3
<1> QED
  BY Zenon, <1>2, <1>3, <1>4 DEF ConvergenceInv, StampsApart, StampsPast, ReplicasGood

\* Every step of Next keeps the invariant, away from the limit of the counter.
LEMMA ConvergenceKept == ConvergenceInv /\ FarFromLimit /\ [Next]_vars => ConvergenceInv'
<1> SUFFICES ASSUME ConvergenceInv, FarFromLimit, [Next]_vars PROVE ConvergenceInv'
  OBVIOUS
<1>1. VotingInv'
  BY VotingKept DEF ConvergenceInv
<1>2. CASE \E r \in Peers, kind \in Kinds, content \in Contents, now, later \in Times :
             Propose(r, kind, content, now, later)
  BY Zenon, <1>1, <1>2, ProposeGoes, ProposeConverges
<1>3. CASE Goes
  BY <1>1, <1>3, ConvergenceStep DEF Goes
<1> QED
  BY <1>2, <1>3, OthersGo

\* Every step advances the replicas.
LEMMA EveryStepAdvances ==
    ASSUME ConvergenceInv, FarFromLimit, [Next]_vars
    PROVE  Advances
  BY Zenon, OthersGo, ProposeGoes DEF Goes

\* Replicas that merge each other's states agree (NoeticState::merge), as long
\* as no clock's counter comes close to its limit.
THEOREM MergesAgree == Spec /\ []FarFromLimit => []MergeAgrees
<1>1. ConvergenceInv => MergeAgrees
  <2> SUFFICES ASSUME ConvergenceInv, NEW r \in Peers,
                      NEW other \in ({state[p] : p \in Peers} \cup wire) \ {state[r]}
               PROVE  Shown(MergeState(state[r], other)) = Shown(MergeState(other, state[r]))
    BY DEF MergeAgrees
  <2>1. ToldApart(Issued)
    BY IssuedToldApart DEF ConvergenceInv, VotingInv
  <2>2. Good(state[r], Issued) /\ Good(other, Issued)
    BY DEF ConvergenceInv, ReplicasGood
  <2> QED
    BY Zenon, <2>1, <2>2, MergeShowsAlike
<1> QED
  BY <1>1, ConvergenceStarts, ConvergenceKept, PTL DEF Spec

\* A header that was removed is not shown.
LEMMA RemovedNotShown ==
    ASSUME NEW s, NEW I, Good(s, I), NEW h \in DOMAIN s.models.removals
    PROVE  h \notin Shown(s).models
<1> DEFINE set == s.models
<1>1. GoodSet(set, s.clock)
  BY Zenon DEF Good
<1>2. Shown(s).models = OrSetElements(set, s.credence)
  BY DEF Shown
<1>3. SUFFICES ASSUME h \in DOMAIN set.adds, HlcLess(set.removals[h], set.adds[h], s.credence)
               PROVE  FALSE
  BY <1>2 DEF OrSetElements
<1>4. PICK D : set.removals \in [D -> Clocks]
  BY Zenon, <1>1 DEF GoodSet, IsOrSet, IsMap
<1>5. /\ set.adds[h] = h.version /\ h.version \in Clocks /\ Earlier(h.version, set.removals[h])
      /\ set.removals[h] \in Clocks
  BY <1>1, <1>3, <1>4 DEF GoodSet
<1> QED
  BY <1>3, <1>5 DEF HlcLess, Earlier, Clocks

\* A model header that a replica has removed does not come back, although
\* states from before the removal keep arriving.
THEOREM RemovalsStay == Spec /\ []FarFromLimit => RemovedStaysRemoved
<1>1. ConvergenceInv /\ FarFromLimit /\ [Next]_vars =>
        [\A r \in Peers : \A h \in DOMAIN state[r].models.removals :
           h \notin Shown(state'[r]).models]_vars
  <2> SUFFICES ASSUME ConvergenceInv, FarFromLimit, [Next]_vars, NEW r \in Peers,
                      NEW h \in DOMAIN state[r].models.removals
               PROVE  h \notin Shown(state'[r]).models
    OBVIOUS
  <2>1. Good(state'[r], Issued') /\ h \in DOMAIN state'[r].models.removals
    BY EveryStepAdvances DEF Advances
  <2> QED
    BY <2>1, RemovedNotShown
<1> QED
  BY <1>1, ConvergenceStarts, ConvergenceKept, PTL DEF Spec, RemovedStaysRemoved

\* An update that a node proposes and commits at once (noetic.propose) is what
\* it shows when the reply goes out.
THEOREM OwnUpdatesShown == Spec /\ []FarFromLimit => OwnUpdateShown
<1> DEFINE Shows(r, id) ==
             LET p    == engine'[r].proposals[id]
                 now  == Shown(state'[r])
                 mine == Header(p.object.content, p.clock)
             IN  p.committed =>
                   CASE p.object.kind = "model"  -> mine \in now.models /\ now.model_topk.clock = p.clock
                     [] p.object.kind = "seed"   -> mine \in now.seeds /\ now.seed_status.clock = p.clock
                     [] p.object.kind = "policy" -> now.policies.clock = p.clock
           New == \A r \in Peers : \A id \in DOMAIN engine'[r].proposals \ DOMAIN engine[r].proposals :
                    Shows(r, id)
<1>1. ConvergenceInv /\ FarFromLimit /\ [Next]_vars => [New]_vars
  <2> SUFFICES ASSUME ConvergenceInv, FarFromLimit, [Next]_vars, NEW r \in Peers,
                      NEW id \in DOMAIN engine'[r].proposals \ DOMAIN engine[r].proposals
               PROVE  Shows(r, id)
    BY Zenon
  <2>1. PICK o \in Peers, kind \in Kinds, content \in Contents, now \in Times, later \in Times :
          Propose(o, kind, content, now, later)
    BY OthersGo DEF Goes, SameStamps
  <2>2. Proposes(o, ProposedId(o))
    BY Zenon, <2>1, ProposeGoes
  <2>3. r = o /\ id = ProposedId(o)
    BY Zenon, <2>2 DEF Proposes
  <2> DEFINE q == engine'[r].proposals[id]
             mine == Header(q.object.content, q.clock)
             shown == Shown(state'[r])
  <2>4. /\ q.object.kind \in Kinds
        /\ q.committed =>
             /\ q.object.kind = "model" =>
                  mine \in shown.models /\ shown.model_topk.clock = q.clock
             /\ q.object.kind = "seed" =>
                  mine \in shown.seeds /\ shown.seed_status.clock = q.clock
             /\ q.object.kind = "policy" => shown.policies.clock = q.clock
    BY Zenon, <2>1, <2>3, ProposeGoes
  <2> HIDE DEF q, mine, shown
  <2>5. q.committed =>
          CASE q.object.kind = "model"  -> mine \in shown.models /\ shown.model_topk.clock = q.clock
            [] q.object.kind = "seed"   -> mine \in shown.seeds /\ shown.seed_status.clock = q.clock
            [] q.object.kind = "policy" -> shown.policies.clock = q.clock
    BY Zenon, <2>4 DEF Kinds
  <2> QED
    BY Zenon, <2>5 DEF q, mine, shown
<1> HIDE DEF Shows
<1>2. OwnUpdateShown <=> [][New]_vars
  BY DEF OwnUpdateShown, Shows
<1> QED
  BY <1>1, <1>2, ConvergenceStarts, ConvergenceKept, PTL DEF Spec
=============================================================================
