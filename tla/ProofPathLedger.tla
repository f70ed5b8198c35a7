-------------------------- MODULE ProofPathLedger --------------------------
(***************************************************************************)
(* Durable, idempotent ingestion of ProofPath evidence                     *)
(* (liminal-store/src/proofpath_durable.rs): one namespace, clients that   *)
(* retry until they have an answer, storage failures whose outcome is      *)
(* ambiguous, lost acknowledgements, crashes and reopening.                *)
(*                                                                         *)
(* The namespace being fixed, an ingestion key is the operation it is made *)
(* from.  The bytes, digests and receipt that equivalent_semantic_input    *)
(* compares are one value, the evidence.  A record's hash is the record's  *)
(* body, wrapped.                                                          *)
(***************************************************************************)
EXTENDS Integers, Sequences

CONSTANTS
    Clients,       \* callers of append
    Operations,    \* logical_operation_id values
    Evidence,      \* exact evidence bytes
    Times,         \* timestamps
    NoHash,
    Offers,        \* the inputs clients may offer
    MaxFailures    \* bound: storage failures and crashes

VARIABLES
    evidenceWal,     \* the complete records of the log, oldest first
    evidenceTail,    \* "clean", "torn" or "partial", as in LedgerRecovery
    evidenceLedger,  \* [open, poisoned, state]
    wants,           \* what each client ingests
    answer,          \* what each client has been answered
    failures         \* storage failures and crashes so far

proofPathVars ==
    <<evidenceWal, evidenceTail, evidenceLedger, wants, answer, failures>>

ProofPathDurableInput ==
    [logical_operation_id : Operations, evidence : Evidence,
     valid_time_ms : Times, transaction_time_ms : Times]

ASSUME ProofPathAssumption ==
    /\ Offers \subseteq ProofPathDurableInput
    /\ Times \subseteq Nat /\ MaxFailures \in Nat

\* ProofPathDurableState::default()
DefaultState == [next_sequence |-> 1, head_record_hash |-> NoHash, records |-> <<>>]

Hash(body) == [sha256 |-> body]

-----------------------------------------------------------------------------
(* Records *)

\* normalize_input
WellFormed(input) ==
    /\ input.valid_time_ms # 0
    /\ input.valid_time_ms <= input.transaction_time_ms

RecordFor(state, input) ==
    LET body == [sequence |-> state.next_sequence,
                 ingestion_key |-> input.logical_operation_id,
                 evidence |-> input.evidence,
                 valid_time_ms |-> input.valid_time_ms,
                 transaction_time_ms |-> input.transaction_time_ms,
                 previous_record_hash |-> state.head_record_hash]
    IN  [body |-> body, record_hash |-> Hash(body)]

\* equivalent_semantic_input: a retry may carry a later transaction time.
Equivalent(record, input) ==
    /\ record.body.ingestion_key = input.logical_operation_id
    /\ record.body.evidence = input.evidence
    /\ record.body.valid_time_ms = input.valid_time_ms

\* The checks of apply_record that depend on the state or the times.
Accepts(state, record) ==
    /\ record.body.sequence = state.next_sequence
    /\ record.body.previous_record_hash = state.head_record_hash
    /\ Hash(record.body) = record.record_hash
    /\ WellFormed(record.body)
    /\ record.body.ingestion_key \notin DOMAIN state.records

ApplyRecord(state, record) ==
    LET key == record.body.ingestion_key
    IN  [next_sequence    |-> state.next_sequence + 1,
         head_record_hash |-> record.record_hash,
         records          |->
           [k \in DOMAIN state.records \cup {key} |->
              IF k = key THEN record ELSE state.records[k]]]

\* replay_from: the state after all records of a log, or a refusal.
Replay(log) ==
    LET after[n \in 0..Len(log)] ==
          IF n = 0 THEN [ok |-> TRUE, state |-> DefaultState]
          ELSE IF after[n - 1].ok /\ Accepts(after[n - 1].state, log[n])
          THEN [ok |-> TRUE, state |-> ApplyRecord(after[n - 1].state, log[n])]
          ELSE [ok |-> FALSE, state |-> DefaultState]
    IN  after[Len(log)]

-----------------------------------------------------------------------------
(* Operations *)

ClosedEvidence == [open |-> FALSE, poisoned |-> FALSE, state |-> DefaultState]

ProofPathInit ==
    /\ evidenceWal = <<>> /\ evidenceTail = "clean" /\ evidenceLedger = ClosedEvidence
    /\ wants \in [Clients -> Offers]
    /\ answer = [c \in Clients |-> "pending"]
    /\ failures = 0

\* ProofPathDurableLedger::open
OpenEvidence ==
    /\ ~ evidenceLedger.open /\ evidenceTail # "partial"
    /\ evidenceTail' = "clean"
    /\ evidenceLedger' =
         IF Replay(evidenceWal).ok
           THEN [open |-> TRUE, poisoned |-> FALSE, state |-> Replay(evidenceWal).state]
           ELSE ClosedEvidence
    /\ UNCHANGED <<evidenceWal, wants, answer, failures>>

Calls(c) == evidenceLedger.open /\ ~ evidenceLedger.poisoned /\ answer[c] = "pending"

Existing(c) == evidenceLedger.state.records[wants[c].logical_operation_id]

IsNew(c) ==
    /\ WellFormed(wants[c])
    /\ wants[c].logical_operation_id \notin DOMAIN evidenceLedger.state.records

\* Mutant: stored evidence is not compared with the offered one.
AppendAnsweredBlindly(c) ==
    /\ Calls(c) /\ ~ IsNew(c)
    /\ answer' = [answer EXCEPT ![c] =
         IF ~ WellFormed(wants[c]) THEN "invalid" ELSE "already_present"]
    /\ UNCHANGED <<evidenceWal, evidenceTail, evidenceLedger, wants, failures>>

\* Mutant: other evidence for a stored operation is a reason to retry.
AppendAnsweredRetry(c) ==
    /\ Calls(c) /\ ~ IsNew(c)
    /\ WellFormed(wants[c]) => Equivalent(Existing(c), wants[c])
    /\ answer' = [answer EXCEPT ![c] =
         IF ~ WellFormed(wants[c]) THEN "invalid" ELSE "already_present"]
    /\ UNCHANGED <<evidenceWal, evidenceTail, evidenceLedger, wants, failures>>

\* append, answered without a write: the input is invalid, its evidence is
\* already stored, or other evidence is stored for its operation.
AppendAnswered(c) ==
    /\ Calls(c) /\ ~ IsNew(c)
    /\ answer' = [answer EXCEPT ![c] =
         IF ~ WellFormed(wants[c]) THEN "invalid"
         ELSE IF Equivalent(Existing(c), wants[c]) THEN "already_present"
         ELSE "conflict"]
    /\ UNCHANGED <<evidenceWal, evidenceTail, evidenceLedger, wants, failures>>

\* append of new evidence.
AppendInserted(c) ==
    LET record == RecordFor(evidenceLedger.state, wants[c])
    IN  /\ Calls(c) /\ IsNew(c)
        /\ Accepts(evidenceLedger.state, record)
        /\ evidenceWal' = Append(evidenceWal, record)
        /\ evidenceLedger' = [evidenceLedger EXCEPT !.state = ApplyRecord(@, record)]
        /\ answer' = [answer EXCEPT ![c] = "inserted"]
        /\ UNCHANGED <<evidenceTail, wants, failures>>

\* Mutant: the ledger is not poisoned.
IngestFailsUnpoisoned(c) ==
    /\ Calls(c) /\ IsNew(c) /\ failures < MaxFailures
    /\ \/ evidenceTail' \in {"clean", "torn", "partial"} /\ UNCHANGED evidenceWal
       \/ /\ evidenceWal' = Append(evidenceWal, RecordFor(evidenceLedger.state, wants[c]))
          /\ UNCHANGED evidenceTail
    /\ failures' = failures + 1
    /\ UNCHANGED <<evidenceLedger, wants, answer>>

\* append, whose Store::append fails after writing nothing, a part of the frame
\* or all of it, possibly synced: the client cannot tell and stays pending.
IngestFails(c) ==
    /\ Calls(c) /\ IsNew(c) /\ failures < MaxFailures
    /\ \/ evidenceTail' \in {"clean", "torn", "partial"} /\ UNCHANGED evidenceWal
       \/ /\ evidenceWal' = Append(evidenceWal, RecordFor(evidenceLedger.state, wants[c]))
          /\ UNCHANGED evidenceTail
    /\ evidenceLedger' = [evidenceLedger EXCEPT !.poisoned = TRUE]
    /\ failures' = failures + 1
    /\ UNCHANGED <<wants, answer>>

\* A poisoned ledger is dropped, to be opened again.
Drop ==
    /\ evidenceLedger.open /\ evidenceLedger.poisoned
    /\ evidenceLedger' = ClosedEvidence
    /\ UNCHANGED <<evidenceWal, evidenceTail, wants, answer, failures>>

ProofPathCrash ==
    /\ evidenceLedger.open /\ failures < MaxFailures
    /\ evidenceLedger' = ClosedEvidence
    /\ failures' = failures + 1
    /\ UNCHANGED <<evidenceWal, evidenceTail, wants, answer>>

ProofPathNext ==
    \/ OpenEvidence
    \/ Drop
    \/ ProofPathCrash
    \/ \E c \in Clients : AppendAnswered(c)
    \/ \E c \in Clients : AppendInserted(c)
    \/ \E c \in Clients : IngestFails(c)

\* Clients retry, and a ledger that is closed or poisoned is opened again.
ProofPathFairness ==
    /\ WF_proofPathVars(OpenEvidence) /\ WF_proofPathVars(Drop)
    /\ \A c \in Clients : WF_proofPathVars(AppendAnswered(c) \/ AppendInserted(c))

ProofPathSpec == ProofPathInit /\ [][ProofPathNext]_proofPathVars /\ ProofPathFairness

-----------------------------------------------------------------------------
(* Properties *)

\* Whatever was retried after an ambiguous failure or a lost answer, the log
\* holds one record per operation, so replaying it never meets a duplicate
\* ingestion key, and a closed ledger can be opened again.
OncePerOperation ==
    /\ \A i, j \in DOMAIN evidenceWal :
         evidenceWal[i].body.ingestion_key = evidenceWal[j].body.ingestion_key => i = j
    /\ Replay(evidenceWal).ok

\* Nobody is answered wrongly: evidence reported as stored is in the log, and a
\* conflict is reported only against other evidence that is in the log.
AnswersHold ==
    \A c \in Clients :
      /\ answer[c] \in {"inserted", "already_present"} =>
           \E i \in DOMAIN evidenceWal : Equivalent(evidenceWal[i], wants[c])
      /\ answer[c] = "conflict" =>
           \E i \in DOMAIN evidenceWal :
             /\ evidenceWal[i].body.ingestion_key = wants[c].logical_operation_id
             /\ ~ Equivalent(evidenceWal[i], wants[c])

\* Every client is answered in the end, once failures stop, unless one of them
\* left a part of a payload at the end of the log, which open() refuses.
EveryoneAnswered ==
    \A c \in Clients : <>(answer[c] # "pending" \/ evidenceTail = "partial")
=============================================================================
