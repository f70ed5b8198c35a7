----------------------------- MODULE Governance -----------------------------
(***************************************************************************)
(* The governance checkpoint bridge (liminal-store/src/                    *)
(* governance_checkpoint_bridge.rs): every call validates an envelope,     *)
(* opens the ledger under its writer lock, appends the envelope as an      *)
(* authorization of a transition of its own, writes the snapshot, signs    *)
(* and verifies a checkpoint over it, and returns a receipt.  Callers are  *)
(* processes that may die or fail anywhere.                                *)
(*                                                                         *)
(* The ledger is the sequence of the envelopes appended to it; its replay, *)
(* snapshot and signature are the subject of LedgerRecovery,               *)
(* SnapshotReplace and CheckpointChain.  A digest stands for what it was   *)
(* taken of.                                                               *)
(***************************************************************************)
EXTENDS Integers, Sequences

CONSTANTS
    Caller,
    Zero, World, \* ZERO_SHA256, and the other digests
    MaxGen,      \* u64::MAX
    Offered,     \* the bodies callers bring, valid or not
    NoBody

ASSUME GovernanceAssumption == NoBody \notin Caller

VARIABLES
    ledger,     \* envelopes in the order of their events
    snapshot,   \* events the snapshot on disk covers
    holder,     \* the caller that holds the writer lock, or NoBody
    call,       \* what every caller is doing
    receipts    \* receipts returned

govVars == <<ledger, snapshot, holder, call, receipts>>

\* the digests named validate_raw_sha(.., false) are never ZERO_SHA256
Bodies ==
    [kind : {"initialize", "reserve", "commit", "mutate", "reconcile"},
     before : 0 .. MaxGen, after : 0 .. MaxGen,
     worldBefore : World \cup {Zero}, worldAfter : World,
     reservation : {Zero, "r"}, operation : {Zero, "o"}]

SaturatingNext(g) == IF g = MaxGen THEN g ELSE g + 1

\* validate_body
ValidBody(b) ==
    CASE b.kind = "initialize" -> /\ b.before = 0 /\ b.after = 0 /\ b.worldBefore = Zero
                                  /\ b.reservation = Zero /\ b.operation = Zero
      [] b.kind = "reserve"    -> /\ b.after = b.before /\ b.worldAfter = b.worldBefore
                                  /\ b.reservation # Zero /\ b.operation # Zero
      [] b.kind = "commit"     -> /\ b.after = SaturatingNext(b.before)
                                  /\ b.reservation # Zero /\ b.operation # Zero
      [] b.kind = "mutate"     -> /\ b.after = SaturatingNext(b.before)
                                  /\ b.reservation = Zero /\ b.operation = Zero
      [] b.kind = "reconcile"  -> /\ b.after = SaturatingNext(b.before)
                                  /\ b.reservation # Zero /\ b.operation = Zero

Away == [at |-> "away", body |-> NoBody, event |-> 0, covers |-> 0]

GovInit ==
    /\ ledger = <<>> /\ snapshot = 0 /\ holder = NoBody
    /\ call = [p \in Caller |-> Away] /\ receipts = {}

Stored == {ledger[i] : i \in DOMAIN ledger}

-----------------------------------------------------------------------------
(* append_governance_checkpoint, step by step *)

\* envelope.verify, the time check, and the writer lock of Store::open: any refusal changes nothing
Begin(p, body, issuedInTime) ==
    /\ call[p].at = "away" /\ ValidBody(body) /\ issuedInTime /\ holder = NoBody
    /\ holder' = p
    /\ call' = [call EXCEPT ![p] = [Away EXCEPT !.at = "append", !.body = body]]
    /\ UNCHANGED <<ledger, snapshot, receipts>>

\* ledger.append; a record_ref that some event owns is refused (see FailCall)
AppendEnvelope(p) ==
    /\ call[p].at = "append" /\ call[p].body \notin Stored
    /\ ledger' = Append(ledger, call[p].body)
    /\ call' = [call EXCEPT ![p].at = "snapshot", ![p].event = Len(ledger')]
    /\ UNCHANGED <<snapshot, holder, receipts>>

\* Mutant: the ledger, and its lock, is dropped before the snapshot is taken
WriteSnapshotUnlocked(p) ==
    /\ call[p].at = "snapshot"
    /\ holder' = NoBody
    /\ snapshot' = Len(ledger)
    /\ call' = [call EXCEPT ![p].at = "sign"]
    /\ UNCHANGED <<ledger, receipts>>

\* write_snapshot of the ledger as this call's append left it
WriteSnapshot(p) ==
    /\ call[p].at = "snapshot"
    /\ snapshot' = Len(ledger)
    /\ call' = [call EXCEPT ![p].at = "sign"]
    /\ UNCHANGED <<ledger, holder, receipts>>

\* checkpoint_material reads the ledger's head and needs the snapshot to match it; sign, verify
SignCheckpoint(p) ==
    /\ call[p].at = "sign" /\ snapshot = Len(ledger)
    /\ call' = [call EXCEPT ![p].at = "receipt", ![p].covers = Len(ledger)]
    /\ UNCHANGED <<ledger, snapshot, holder, receipts>>

\* the receipt, and the ledger dropped with its lock
ReturnReceipt(p) ==
    /\ call[p].at = "receipt"
    /\ receipts' = receipts \cup {[body |-> call[p].body, event |-> call[p].event,
                                   last |-> call[p].covers]}
    /\ holder' = NoBody
    /\ call' = [call EXCEPT ![p] = Away]
    /\ UNCHANGED <<ledger, snapshot>>

\* the call fails or its process dies: what is stored stays, the lock goes; an
\* append that fails may have stored its event, and so may a snapshot
FailCall(p) ==
    /\ call[p].at # "away"
    /\ \/ UNCHANGED <<ledger, snapshot>>
       \/ /\ call[p].at = "append" /\ call[p].body \notin Stored
          /\ ledger' = Append(ledger, call[p].body)
          /\ UNCHANGED snapshot
       \/ call[p].at = "snapshot" /\ snapshot' = Len(ledger) /\ UNCHANGED ledger
    /\ holder' = IF holder = p THEN NoBody ELSE holder
    /\ call' = [call EXCEPT ![p] = Away]
    /\ UNCHANGED receipts

GovNext ==
    \E p \in Caller :
       \/ \E body \in Offered \cap Bodies, issuedInTime \in BOOLEAN : Begin(p, body, issuedInTime)
       \/ AppendEnvelope(p) \/ WriteSnapshot(p) \/ SignCheckpoint(p)
       \/ ReturnReceipt(p) \/ FailCall(p)

GovSpec == GovInit /\ [][GovNext]_govVars

-----------------------------------------------------------------------------
(* Properties *)

\* A receipt's checkpoint ends exactly at the event of its own envelope, whatever
\* other callers append, fail at or retry meanwhile (the writer lock is held from
\* the append to the receipt), and no envelope gets two receipts.
ReceiptPinsEnvelope ==
    /\ \A r \in receipts : r.last = r.event /\ ledger[r.event] = r.body
    /\ \A r, s \in receipts : r.body = s.body => r = s
=============================================================================
