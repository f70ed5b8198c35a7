--------------------------- MODULE LedgerRecovery ---------------------------
(***************************************************************************)
(* A TrustworthyTransitionLedger across storage failures, process crashes  *)
(* and restarts: its write-ahead log, its memory, its poisoning and its    *)
(* snapshot files, the latter step by step as in SnapshotReplace.          *)
(*                                                                         *)
(* What a record says is left to TransitionLedger.  Here an event is the   *)
(* whole history it ends, which is what its hash chain pins down, and the  *)
(* state that replaying a history gives is that history.  An offset into   *)
(* the log is the number of records before it (Wal shows that records are  *)
(* read back whole and in order across segments).                          *)
(***************************************************************************)
EXTENDS Integers, Sequences

CONSTANTS
    Inputs,                \* what a client may append
    NoFile,                \* no file, no call
    SnapshotWhilePoisoned, \* the client snapshots a poisoned ledger: the API
                           \* lets it, the callers in the repository do not
    MaxEvents              \* bound: records in the log

VARIABLES
    wal,      \* the complete frames of the log, oldest first
    tail,     \* what follows them: "clean", "torn" (recovery cuts it off) or
              \* "partial" (a part of a payload: recovery refuses the log)
    ledger,   \* the open ledger, or Closed
    acked,    \* the events whose append returned Ok
    mainFile, backupFile, tempFile,             \* the snapshot files and the call that
    snapPc, snapCall, snapOffered, snapResult   \* replaces them: see SnapshotReplace

snapVars == <<mainFile, backupFile, tempFile, snapPc, snapCall, snapOffered, snapResult>>
recoveryVars == <<wal, tail, ledger, acked, snapVars>>

Histories == Seq(Inputs)

\* TransitionLedgerSnapshotBody: the state and the offset it was taken at.
LedgerSnapshots == [state : Histories, wal_offset : Nat]

ASSUME RecoveryAssumption ==
    /\ SnapshotWhilePoisoned \in BOOLEAN /\ MaxEvents \in Nat
    /\ NoFile \notin LedgerSnapshots
    /\ NoFile \notin [snapshot : LedgerSnapshots, whole : BOOLEAN]

Files == INSTANCE SnapshotReplace WITH
           Snapshots <- LedgerSnapshots, None <- NoFile, main <- mainFile, backup <- backupFile,
           temp <- tempFile, pc <- snapPc, call <- snapCall, offered <- snapOffered,
           result <- snapResult

Closed == [open |-> FALSE, poisoned |-> FALSE, state |-> <<>>]

Opened(state) == [open |-> TRUE, poisoned |-> FALSE, state |-> state]

-----------------------------------------------------------------------------
(* Replay *)

\* The state that must precede an event: apply_event checks its sequence and
\* its previous_event_hash against it.
Before(event) == SubSeq(event, 1, Len(event) - 1)

\* replay_from(offset, state): every record applies to the state its
\* predecessor left, the first one to the given state ...
Replays(offset, state) ==
    \A i \in (offset + 1)..Len(wal) :
      Before(wal[i]) = IF i = offset + 1 THEN state ELSE wal[i - 1]

\* ... and the result is the last one's.  An offset past the end reads nothing.
Replayed(offset, state) ==
    IF offset < Len(wal) THEN wal[Len(wal)] ELSE state

FullReplay == Replayed(0, <<>>)

\* load_and_verify_snapshot and snapshot-assisted replay.
SnapshotVerifies(file) ==
    LET s == file.snapshot
    IN  /\ file.whole
        /\ Replays(s.wal_offset, s.state)
        /\ Replayed(s.wal_offset, s.state) = FullReplay

\* What open() checks once the store itself is open.
ReplayVerifies ==
    /\ Replays(0, <<>>)
    /\ mainFile # NoFile => SnapshotVerifies(mainFile)

-----------------------------------------------------------------------------
(* Operations *)

RecoveryInit ==
    /\ wal = <<>> /\ tail = "clean" /\ ledger = Closed /\ acked = {}
    /\ Files!Init

\* Mutant: the records after the snapshot are checked but not applied.
OpenAtSnapshot ==
    /\ ~ ledger.open /\ tail # "partial"
    /\ tail' = "clean"
    /\ ledger' = IF ~ ReplayVerifies THEN Closed
                 ELSE Opened(IF mainFile = NoFile THEN FullReplay
                             ELSE mainFile.snapshot.state)
    /\ UNCHANGED <<wal, acked, snapVars>>

\* TrustworthyTransitionLedger::open.  Store::open repairs a torn tail, and
\* leaves it repaired when the replay is refused after that.
Open ==
    /\ ~ ledger.open /\ tail # "partial"
    /\ tail' = "clean"
    /\ ledger' = IF ReplayVerifies THEN Opened(FullReplay) ELSE Closed
    /\ UNCHANGED <<wal, acked, snapVars>>

\* The ledger is exclusively borrowed by each call.
Ready == ledger.open /\ snapPc = "idle"

\* Mutant: a poisoned ledger goes on appending.
Append1Unpoisoned(input) ==
    LET event == Append(ledger.state, input)
    IN  /\ Ready /\ Len(wal) < MaxEvents
        /\ wal' = Append(wal, event)
        /\ ledger' = [ledger EXCEPT !.state = event]
        /\ acked' = acked \cup {event}
        /\ UNCHANGED <<tail, snapVars>>

Append1(input) ==
    LET event == Append(ledger.state, input)
    IN  /\ Ready /\ ~ ledger.poisoned /\ Len(wal) < MaxEvents
        /\ wal' = Append(wal, event)
        /\ ledger' = [ledger EXCEPT !.state = event]
        /\ acked' = acked \cup {event}
        /\ UNCHANGED <<tail, snapVars>>

\* Store::append returns an error: nothing, a part of the frame or all of it
\* reached the file.  A poisoned ledger refuses every later append.
AppendFails(input) ==
    /\ Ready /\ ~ ledger.poisoned /\ Len(wal) < MaxEvents
    /\ \/ tail' \in {"clean", "torn", "partial"} /\ UNCHANGED wal
       \/ /\ wal' = Append(wal, Append(ledger.state, input))
          /\ UNCHANGED tail
    /\ ledger' = [ledger EXCEPT !.poisoned = TRUE]
    /\ UNCHANGED <<acked, snapVars>>

\* Mutant: a poisoned ledger is snapshotted all the same.
WriteSnapshotAnyway(how) ==
    /\ Ready
    /\ Files!Begin([state |-> ledger.state, wal_offset |-> Len(wal)], how)
    /\ UNCHANGED <<wal, tail, ledger, acked>>

\* Mutant: the snapshot is bound to the start of the log.
WriteSnapshotAtStart(how) ==
    /\ Ready
    /\ ledger.poisoned => SnapshotWhilePoisoned
    /\ Files!Begin([state |-> ledger.state, wal_offset |-> 0], how)
    /\ UNCHANGED <<wal, tail, ledger, acked>>

\* write_snapshot and write_snapshot_crash_safe: the state in memory, bound to
\* the writer's end offset.
WriteSnapshot(how) ==
    /\ Ready
    /\ ledger.poisoned => SnapshotWhilePoisoned
    /\ Files!Begin([state |-> ledger.state, wal_offset |-> Len(wal)], how)
    /\ UNCHANGED <<wal, tail, ledger, acked>>

SnapshotStep ==
    /\ Files!Step
    /\ UNCHANGED <<wal, tail, ledger, acked>>

\* The process dies, or drops the ledger, during a snapshot or outside one.
RecoveryCrash ==
    /\ ledger.open
    /\ ledger' = Closed
    /\ IF snapPc = "idle" THEN UNCHANGED snapVars ELSE Files!Crash
    /\ UNCHANGED <<wal, tail, acked>>

RecoveryNext ==
    \/ Open
    \/ \E input \in Inputs : Append1(input) \/ AppendFails(input)
    \/ \E how \in {"direct", "wrapped"} : WriteSnapshot(how)
    \/ SnapshotStep
    \/ RecoveryCrash

RecoverySpec == RecoveryInit /\ [][RecoveryNext]_recoveryVars

-----------------------------------------------------------------------------
(* Properties *)

\* An open ledger shows every event ever acknowledged, each after the same
\* events as when it was acknowledged, whatever failed or crashed in between.
AckedShown ==
    ledger.open =>
      \A event \in acked :
        /\ Len(event) <= Len(ledger.state)
        /\ SubSeq(ledger.state, 1, Len(event)) = event

\* A snapshot that open() or an interrupted replacement can come across agrees
\* with the log, however old it is: it verifies.
SnapshotsVerify ==
    \A file \in {mainFile, backupFile} : file # NoFile => SnapshotVerifies(file)

\* A closed ledger can be reopened, unless the log ends in a part of a payload:
\* "reopen and replay" is always the way out of a poisoned ledger, and the
\* snapshot, an accelerator, never stands in the way.
ReopenSucceeds == ~ ledger.open => ReplayVerifies

\* The append that failed is decided by the reopening: a later event never
\* follows, in the log, one that a reopened ledger did not show.  Events are
\* only ever added, each after all the others.
LogOnlyGrows ==
    [][/\ Len(wal') >= Len(wal)
       /\ \A i \in DOMAIN wal : wal'[i] = wal[i]
       /\ \A i \in DOMAIN wal' \ DOMAIN wal : Before(wal'[i]) = FullReplay]_recoveryVars
=============================================================================
