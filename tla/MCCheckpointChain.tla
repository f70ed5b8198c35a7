------------------------ MODULE MCCheckpointChain ------------------------
(***************************************************************************)
(* A small instance of CheckpointChain for TLC: two scenarios, one of      *)
(* which each behaviour plays.  In "restore" copies are put back and the   *)
(* ledger goes on differently, under one key that stays valid; in "keys"   *)
(* one line of history is checkpointed while keys and checkpoints expire   *)
(* and keys are revoked.                                                   *)
(***************************************************************************)
EXTENDS CheckpointChain

VARIABLE scenario

MCInit ==
    /\ CheckpointInit
    /\ scenario \in {"restore", "keys"}
    /\ scenario = "restore" => \A key \in Keys : registry[key].valid_until_ms = NoValue

\* What "restore" leaves out.
OneLastingKey ==
    /\ registry' = registry
    /\ now' <= 1
    /\ \A i \in DOMAIN manifests' :
         /\ manifests'[i].body.key_id = CHOOSE key \in Keys : TRUE
         /\ manifests'[i].body.expires_at_ms = NoValue

\* What "keys" leaves out.
OneLine ==
    /\ copy' = copy /\ restores' = restores
    /\ \A i \in DOMAIN history' : history'[i] = CHOOSE payload \in Payloads : TRUE
    /\ \A i \in DOMAIN manifests' :
         manifests'[i].body.storage_root_identity = CHOOSE root \in Roots : TRUE

MCNext ==
    /\ CheckpointNext
    /\ scenario = "restore" => OneLastingKey
    /\ scenario = "keys" => OneLine
    /\ UNCHANGED scenario

MCSpec == MCInit /\ [][MCNext]_<<checkpointVars, scenario>>
=============================================================================
