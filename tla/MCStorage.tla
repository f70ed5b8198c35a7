----------------------------- MODULE MCStorage -----------------------------
(***************************************************************************)
(* What the ledgers keep on disk, for TLC: the replacement of a snapshot   *)
(* file by itself (SnapshotReplace), a transition ledger over its log and  *)
(* its snapshot files (LedgerRecovery), and the ProofPath ledger over its  *)
(* log.  Each is a scenario of its own: the variables of the other two     *)
(* stay as they are.                                                       *)
(***************************************************************************)
EXTENDS Integers, Sequences, SnapshotReplace, LedgerRecovery, ProofPathLedger

VARIABLE scenario   \* which one runs

Offer(o, e, valid, transaction) ==
    [logical_operation_id |-> o, evidence |-> e, valid_time_ms |-> valid,
     transaction_time_ms |-> transaction]

\* One operation's evidence, the same later, at another valid time, other
\* evidence, another operation's, and two inputs that are not valid.
SomeOffers ==
    LET o == CHOOSE x \in Operations : TRUE
        e == CHOOSE x \in Evidence : TRUE
    IN  {Offer(o, e, 1, 1), Offer(o, e, 1, 2), Offer(o, e, 2, 2),
         Offer(o, e, 2, 1), Offer(o, e, 0, 1)}
        \cup {Offer(o, x, 1, 1) : x \in Evidence}
        \cup {Offer(x, e, 1, 1) : x \in Operations}

allVars == <<scenario, vars, recoveryVars, proofPathVars>>

StorageInit ==
    /\ scenario \in {"files", "recovery", "proofpath"}
    /\ Init
    /\ RecoveryInit
    /\ ProofPathInit
    /\ scenario # "proofpath" => wants = CHOOSE w \in [Clients -> SomeOffers] : TRUE

StorageNext ==
    /\ IF scenario = "files" THEN Next ELSE UNCHANGED vars
    /\ IF scenario = "recovery" THEN RecoveryNext ELSE UNCHANGED recoveryVars
    /\ IF scenario = "proofpath" THEN ProofPathNext ELSE UNCHANGED proofPathVars
    /\ UNCHANGED scenario

\* The fairness of ProofPathLedger; the other two scenarios have none.
StorageSpec == StorageInit /\ [][StorageNext]_allVars /\ ProofPathFairness
=============================================================================
