----------------------------- MODULE MCNoetic -----------------------------
(***************************************************************************)
(* A small instance of NoeticRuntime for TLC: three scenarios, one of      *)
(* which each behaviour plays.  In "credence" two nodes update the policy  *)
(* and exchange their replicas while they learn each other's credence; in  *)
(* "headers" they add and remove headers and exchange replicas; in "vote"  *)
(* one node's proposal is voted on while the quorum moves.                 *)
(***************************************************************************)
EXTENDS NoeticRuntime

VARIABLE scenario

MCInit ==
    /\ Init
    /\ scenario \in {"credence", "headers", "vote"}
    /\ scenario # "vote" => \A r \in Peers : engine[r].quorum <= LocalCredence

ProposedKinds ==
    {engine'[r].proposals[id].object.kind :
        <<r, id>> \in {x \in Peers \X UNION {DOMAIN engine'[p].proposals : p \in Peers} :
                        x[2] \in DOMAIN engine'[x[1]].proposals}}

\* Proposals fail to parse only in "vote", before there is one.
FailsFirst ==
    (\E r \in Peers, now \in Times : ProposeFails(r, now)) =>
        scenario = "vote" /\ \A r \in Peers : state[r].clock = HlcNew(r, 0)

\* What "credence" and "headers" leave out.
NoVoting ==
    /\ ballots' = {}
    /\ \A r \in Peers : engine'[r].quorum = engine[r].quorum

\* What "headers" leaves out.
OnlyHeaders ==
    /\ ProposedKinds \subseteq {"model", "seed"}
    /\ \A r \in Peers : \A p \in DOMAIN state'[r].credence :
         state'[r].credence[p] = LocalCredence

\* What "vote" and "credence" leave out.
OnlyPolicies ==
    /\ ProposedKinds \subseteq {"policy"}
    /\ \A r \in Peers : state'[r].epochs = EmptyOrSet

\* What "vote" leaves out.
OneProposal ==
    /\ wire' = {}
    /\ \A r \in Peers :
         /\ state'[r].credence = state[r].credence
         /\ DOMAIN engine'[r].proposals \subseteq {<<1, 1>>}
         /\ r # 1 => engine'[r] = engine[r] /\ state'[r].clock.phys_ms = 0

MCNext ==
    /\ Next
    /\ FailsFirst
    /\ scenario # "vote" => NoVoting
    /\ scenario # "headers" => OnlyPolicies
    /\ scenario = "headers" => OnlyHeaders
    /\ scenario = "vote" => OneProposal
    /\ UNCHANGED scenario

MCSpec == MCInit /\ [][MCNext]_<<vars, scenario>>

\* One node, restarted from its snapshots between its updates.
MCRestartSpec ==
    /\ Init /\ scenario = "restart"
    /\ [][NextWithRestart /\ FailsFirst /\ NoVoting /\ UNCHANGED scenario]_<<vars, scenario>>
=============================================================================
