--------------------------- MODULE NoeticRuntime ---------------------------
(***************************************************************************)
(* Nodes of the noetic layer: each holds a replica and a consensus engine  *)
(* under one mutex (NoeticRuntime in liminal-bridge-abi/src/ffi.rs), so    *)
(* every handler is one step.                                              *)
(*                                                                         *)
(* The repository has the operations a transport calls (merge, vote,       *)
(* commit, the header removals) and no transport.  Here the transport is   *)
(* as bad as a network can be: a published state or a ballot is delivered  *)
(* any number of times, in any order, to anyone, or never.  The wall clock *)
(* may show anything at any reading.                                       *)
(***************************************************************************)
EXTENDS NoeticState, NoeticConsensus

CONSTANTS
    Peers,           \* the nodes
    LocalCredence,   \* the weight of a node's vote on its own proposal
    Credences,       \* what peer.add and a ballot may carry
    InitialQuorums,  \* what the engines may be created with
    Quorums,         \* what noetic.quorum may set
    Times,           \* what the wall clock may show
    MaxProposals, MaxEpochs, MaxPublished, MaxBallots, MaxLog  \* bounds

ASSUME NoeticRuntimeConstants ==
    /\ Peers \subseteq Nat
    /\ LocalCredence \in Nat /\ Credences \subseteq Nat
    /\ InitialQuorums \subseteq Nat /\ Quorums \subseteq Nat
    /\ Times \subseteq Nat /\ MaxLog < LogLimit

VARIABLES
    state,      \* the replica of every node
    engine,     \* the consensus engine of every node
    wire,       \* every replica state ever published
    ballots,    \* every vote ever sent to the node that proposed
    delivered   \* history: the ballots a node's engine was given

vars == <<state, engine, wire, ballots, delivered>>

Kinds == {"model", "seed", "policy"}

Init ==
    /\ state = [r \in Peers |-> SetCredence(NewState(r), r, LocalCredence)]
    /\ \E quorum \in InitialQuorums : engine = [r \in Peers |-> NewEngine(quorum)]
    /\ wire = {} /\ ballots = {} /\ delivered = {}

-----------------------------------------------------------------------------
\* apply_commit: the object of a committed proposal goes into the replica.
ApplyCommit(replica, proposal, now) ==
    LET s      == [replica EXCEPT !.clock = HlcMerged(@, proposal.clock, replica.peer, now)]
        object == proposal.object
        header == Header(object.content, proposal.clock)
    IN  CASE object.kind = "model"  ->
                UpdateModelTopK(ApplyModelHeader(s, header), object.content, proposal.clock)
          [] object.kind = "seed"   ->
                UpdateSeedStatus(ApplySeed(s, header), object.content, proposal.clock)
          [] object.kind = "policy" ->
                UpdatePolicy(s, object.content, proposal.clock)

\* noetic.propose: the node proposes, votes for its own proposal and, when that
\* reaches the quorum, commits and applies it, reading the wall clock each time.
Propose(r, kind, content, now, later) ==
    LET id     == <<r, Cardinality(DOMAIN engine[r].proposals) + 1>>
        clock  == HlcTick(state[r].clock, now)
        asked  == ProposeObject(engine[r], id, r, [kind |-> kind, content |-> content], clock)
        voting == HlcTick(clock, later)
        vote   == [decision |-> "Approve", credence |-> LocalCredence, clock |-> voting]
        voted  == Vote(asked, id, r, vote)
        ticked == [state[r] EXCEPT !.clock = voting]
    IN  /\ Cardinality(UNION {DOMAIN engine[p].proposals : p \in Peers}) < MaxProposals
        /\ id \notin DOMAIN engine[r].proposals   \* Uuid::new_v4() is a new one
        /\ engine' = [engine EXCEPT ![r] = voted]
        /\ state' = [state EXCEPT ![r] =
                       IF VoteCommits(asked, id, r, vote)
                         THEN ApplyCommit(ticked, voted.proposals[id], later) ELSE ticked]
        /\ UNCHANGED <<wire, ballots, delivered>>

\* noetic.propose of data that does not parse: only the clock has moved.
ProposeFails(r, now) ==
    /\ state' = [state EXCEPT ![r].clock = HlcTick(@, now)]
    /\ state'[r].clock.log <= MaxLog
    /\ UNCHANGED <<engine, wire, ballots, delivered>>

\* An epoch header is stamped and applied.
AddEpoch(r, content, now) ==
    LET clock == HlcTick(state[r].clock, now)
    IN  /\ Cardinality(UNION {DOMAIN state[p].epochs.adds : p \in Peers}) < MaxEpochs
        /\ state' = [state EXCEPT ![r] =
                       ApplyEpoch([@ EXCEPT !.clock = clock], Header(content, clock))]
        /\ UNCHANGED <<engine, wire, ballots, delivered>>

\* A model the node shows is removed from its set.
RemoveModel(r, header, now) ==
    LET clock == HlcTick(state[r].clock, now)
    IN  /\ header \in Shown(state[r]).models
        /\ state' = [state EXCEPT ![r].clock = clock,
                       ![r].models = OrSetRemove(@, header, clock, state[r].credence)]
        /\ UNCHANGED <<engine, wire, ballots, delivered>>

\* peer.add: the identifier is derived from a URL, so it is never the node's own.
AddPeer(r, peer, credence) ==
    /\ peer # r
    /\ state' = [state EXCEPT ![r] = SetCredence(@, peer, credence)]
    /\ UNCHANGED <<engine, wire, ballots, delivered>>

\* noetic.quorum
ChangeQuorum(r, quorum) ==
    /\ engine' = [engine EXCEPT ![r] = SetQuorum(@, quorum)]
    /\ UNCHANGED <<state, wire, ballots, delivered>>

-----------------------------------------------------------------------------
Publish(r) ==
    /\ Cardinality(wire) < MaxPublished
    /\ wire' = wire \cup {state[r]}
    /\ UNCHANGED <<state, engine, ballots, delivered>>

Receive(r, other) ==
    /\ state' = [state EXCEPT ![r] = MergeState(@, other)]
    /\ state'[r].clock.log <= MaxLog
    /\ UNCHANGED <<engine, wire, ballots, delivered>>

\* A peer votes on a proposal it heard of; it may vote again.
CastBallot(p, r, id, decision, credence, now) ==
    LET clock == HlcTick(state[p].clock, now)
    IN  /\ Cardinality(ballots) < MaxBallots
        /\ state' = [state EXCEPT ![p].clock = clock]
        /\ ballots' = ballots \cup
             {[to |-> r, id |-> id, peer |-> p,
               vote |-> [decision |-> decision, credence |-> credence, clock |-> clock]]}
        /\ UNCHANGED <<engine, wire, delivered>>

\* A ballot arrives; when it commits the proposal, process_event applies it.
DeliverBallot(ballot, now) ==
    LET r == ballot.to
        e == Vote(engine[r], ballot.id, ballot.peer, ballot.vote)
    IN  /\ engine' = [engine EXCEPT ![r] = e]
        /\ state' = IF VoteCommits(engine[r], ballot.id, ballot.peer, ballot.vote)
                      THEN [state EXCEPT ![r] = ApplyCommit(@, e.proposals[ballot.id], now)]
                      ELSE state
        /\ delivered' = delivered \cup {ballot}
        /\ UNCHANGED <<wire, ballots>>

\* The engine's commit() is called on a proposal.
ForceCommit(r, id, now) ==
    /\ ~engine[r].proposals[id].committed
    /\ engine' = [engine EXCEPT ![r] = Commit(@, id)]
    /\ state' = [state EXCEPT ![r] = ApplyCommit(@, engine[r].proposals[id], now)]
    /\ UNCHANGED <<wire, ballots, delivered>>

\* The node is taken down and brought back from its snapshots.
Restart(r) ==
    /\ state' = [state EXCEPT ![r] = Restored(@)]
    /\ UNCHANGED <<engine, wire, ballots, delivered>>

Next ==
    \/ \E r \in Peers, kind \in Kinds, content \in Contents, now, later \in Times :
         Propose(r, kind, content, now, later)
    \/ \E r \in Peers, now \in Times : ProposeFails(r, now)
    \/ \E r \in Peers, content \in Contents, now \in Times : AddEpoch(r, content, now)
    \/ \E r \in Peers, now \in Times :
         \E header \in DOMAIN state[r].models.adds : RemoveModel(r, header, now)
    \/ \E r, peer \in Peers, credence \in Credences : AddPeer(r, peer, credence)
    \/ \E r \in Peers, quorum \in Quorums : ChangeQuorum(r, quorum)
    \/ \E r \in Peers : Publish(r)
    \/ \E r \in Peers, other \in wire : Receive(r, other)
    \/ \E p, r \in Peers, decision \in {"Approve", "Reject"}, credence \in Credences,
          now \in Times :
         \E id \in DOMAIN engine[r].proposals :
           CastBallot(p, r, id, decision, credence, now)
    \/ \E ballot \in ballots, now \in Times : DeliverBallot(ballot, now)
    \/ \E r \in Peers, now \in Times :
         \E id \in DOMAIN engine[r].proposals : ForceCommit(r, id, now)

Spec == Init /\ [][Next]_vars

\* The same nodes, which may also be restarted from snapshots.
NextWithRestart == Next \/ \E r \in Peers : Restart(r)

-----------------------------------------------------------------------------
(* Properties *)

\* Two replicas that merge each other's state show the same afterwards, be it
\* the current state or one published long ago (NoeticState::merge).
MergeAgrees ==
    \A r \in Peers : \A other \in ({state[p] : p \in Peers} \cup wire) \ {state[r]} :
        Shown(MergeState(state[r], other)) = Shown(MergeState(other, state[r]))

\* An update a node proposes and commits at once is what the node shows from
\* the reply on: no earlier entry, of its own or merged, stands in its way.
OwnUpdateShown ==
    [][\A r \in Peers : \A id \in DOMAIN engine'[r].proposals \ DOMAIN engine[r].proposals :
         LET p    == engine'[r].proposals[id]
             now  == Shown(state'[r])
             mine == Header(p.object.content, p.clock)
         IN  p.committed =>
               CASE p.object.kind = "model"  -> mine \in now.models /\ now.model_topk.clock = p.clock
                 [] p.object.kind = "seed"   -> mine \in now.seeds /\ now.seed_status.clock = p.clock
                 [] p.object.kind = "policy" -> now.policies.clock = p.clock]_vars

\* A model header that a replica has removed does not come back, although
\* states from before the removal keep arriving.
RemovedStaysRemoved ==
    [][\A r \in Peers : \A h \in DOMAIN state[r].models.removals :
         h \notin Shown(state'[r]).models]_vars

\* What the protocol document says a snapshot holds ("the CRDT state"): a node
\* brought back from its snapshot goes on as the node that was taken down,
\* that is, whatever it receives next, it shows the same.
RestartKeepsReplica ==
    [][\A r \in Peers : Restart(r) =>
         \A other \in wire : Shown(MergeState(state'[r], other)) = Shown(MergeState(state[r], other))]_vars

\* In whatever order the ballots of a voter come in, the newest one stands.
NewestVoteStands ==
    \A b \in delivered :
        LET votes == engine[b.to].proposals[b.id].votes
        IN  b.peer \in DOMAIN votes /\ ~IsNewer(b.vote.clock, votes[b.peer].clock)
=============================================================================
