-------------------------- MODULE NoeticConsensus --------------------------
(***************************************************************************)
(* The proposals and votes one node keeps                                  *)
(* (liminal-bridge-net/src/noetic/consensus.rs).  The list of votes of a   *)
(* proposal holds at most one record of each peer and its order is never   *)
(* read, so it is a function from the peers that voted.                    *)
(***************************************************************************)
EXTENDS NoeticCrdt

NewEngine(quorum) == [quorum |-> quorum, proposals |-> << >>]

SetQuorum(engine, quorum) == [engine EXCEPT !.quorum = Larger(quorum, 0)]

\* propose_model, propose_seed and propose_policy, which differ in the object.
ProposeObject(engine, id, proposer, object, clock) ==
    LET proposal == [proposer |-> proposer, object |-> object, clock |-> clock,
                     votes |-> << >>, committed |-> FALSE, credence_sum |-> 0]
    IN  [engine EXCEPT !.proposals =
           [i \in DOMAIN @ \cup {id} |-> IF i = id THEN proposal ELSE @[i]]]

IsNewer(a, b) == Earlier(b, a) \/ (a.phys_ms = b.phys_ms /\ a.log = b.log /\ a.node > b.node)

Weight(vote) == IF vote.decision = "Approve" THEN vote.credence ELSE 0

\* Mutant: a vote replaces the voter's last one whatever its clock.
VoteIsRecordedAlways(proposal, peer, clock) == TRUE

\* Whether vote() records a vote of peer stamped clock.
VoteIsRecorded(proposal, peer, clock) ==
    peer \in DOMAIN proposal.votes => IsNewer(clock, proposal.votes[peer].clock)

RecordVote(proposal, peer, vote) ==
    [proposal EXCEPT
       !.votes        = [p \in DOMAIN @ \cup {peer} |-> IF p = peer THEN vote ELSE @[p]],
       !.credence_sum = @ + Weight(vote) -
           (IF peer \in DOMAIN proposal.votes THEN Weight(proposal.votes[peer]) ELSE 0)]

Commits(proposal, quorum) ==
    /\ ~proposal.committed
    /\ proposal.credence_sum >= quorum
    /\ \A p \in DOMAIN proposal.votes : proposal.votes[p].decision = "Approve"

\* vote(): the engine afterwards; and whether the event it returns is Commit.
Vote(engine, id, peer, vote) ==
    IF ~VoteIsRecorded(engine.proposals[id], peer, vote.clock) THEN engine
    ELSE LET voted == RecordVote(engine.proposals[id], peer, vote)
         IN  [engine EXCEPT !.proposals[id] =
                [voted EXCEPT !.committed = @ \/ Commits(voted, engine.quorum)]]

VoteCommits(engine, id, peer, vote) ==
    ~engine.proposals[id].committed /\ Vote(engine, id, peer, vote).proposals[id].committed

\* commit(): whatever the votes say.
Commit(engine, id) == [engine EXCEPT !.proposals[id].committed = TRUE]
=============================================================================
