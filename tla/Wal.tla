-------------------------------- MODULE Wal --------------------------------
(***************************************************************************)
(* The segmented write-ahead log of liminal-store/src/wal.rs: Store,       *)
(* WalWriter, tail recovery and WalStream, for one store directory, with   *)
(* failing writes and syncs, process crashes and power losses.             *)
(*                                                                         *)
(* A segment file is a sequence of cells of four bytes: one for the length *)
(* prefix of a frame, one or more for its payload, one for its checksum.   *)
(* A field of which only 1 to 3 bytes were written is a "stub" cell of so  *)
(* many bytes.  Every append attempt is a record of its own, numbered in   *)
(* the order of the calls.  Payloads are not empty: the callers append     *)
(* CBOR values.                                                            *)
(*                                                                         *)
(* A store may be appended to after an append of it failed: the ledgers do *)
(* not (they are poisoned until they reopen it), DiskJournal does.         *)
(***************************************************************************)
EXTENDS Integers, Sequences, FiniteSets

CONSTANTS
    PayloadLen(_),   \* payload length, in cells, of an attempt
    Rotation,        \* segment size, in cells, above which the log rotates
    StubBytes,       \* how much of a length or a checksum may be written: some of 1..3
    PowerLoss,       \* a crash may lose file contents that were not synced
    MaxAppends,      \* bound: append attempts
    MaxCrashes       \* bound: crashes

ASSUME WalAssumption ==
    /\ Rotation \in Nat \ {0}
    /\ PowerLoss \in BOOLEAN /\ StubBytes \subseteq 1..3
    /\ MaxAppends \in Nat /\ MaxCrashes \in Nat
    /\ \A r \in 1..MaxAppends : PayloadLen(r) \in Nat \ {0}

VARIABLES
    files,     \* segment number -> the cells of its file
    synced,    \* segment number -> length known to be on stable storage
    writer,    \* the open Store's WalWriter, or Closed
    op,        \* the append in progress, or Idle
    failed,    \* an append returned an error since the store was opened
    attempts,  \* append calls so far
    exposed,   \* attempts made on a store of which an append had failed
    acked,     \* attempts whose append returned Ok
    crashes    \* crashes so far

vars == <<files, synced, writer, op, failed, attempts, exposed, acked, crashes>>

Closed == [segment |-> 0, size |-> 0]
Idle == [at |-> "idle", rec |-> 0]

-----------------------------------------------------------------------------
(* Frames and how they are read back *)

LenCell(r) == <<"len", r, 4>>
CrcCell(r) == <<"crc", r, 4>>
Stub(r, bytes) == <<"stub", r, bytes>>
Payload(r) == [i \in 1..PayloadLen(r) |-> <<"pay", r, 4>>]
Frame(r) == <<LenCell(r)>> \o Payload(r) \o <<CrcCell(r)>>

RecordSize(r) == PayloadLen(r) + 2

\* the bytes of a file behind position p
Bytes(file, p) ==
    LET behind[q \in p..Len(file)] == IF q = Len(file) THEN 0 ELSE file[q + 1][3] + behind[q + 1]
    IN  behind[p]

\* What a reader at position p of a file finds: the end, 1 to 3 stray bytes,
\* a header with no payload or a payload without all of its checksum (torn),
\* a part of a payload, a whole frame, or one whose checksum does not match;
\* bytes of two fields where the length should be are garbage.  No checksum
\* matches by chance.
FrameAt(file, p) ==
    LET left == Bytes(file, p)
        r == file[p + 1][2]
        payload == 4 * PayloadLen(r)
        after == left - 4
    IN  CASE left = 0 -> "end"
          [] left \in 1..3 -> "short"
          [] left > 3 /\ file[p + 1] # LenCell(r) -> "garbage"
          [] left > 3 /\ file[p + 1] = LenCell(r) ->
               IF after = 0 \/ (after >= payload /\ after < payload + 4) THEN "torn"
               ELSE IF after < payload THEN "partial"
               ELSE IF /\ p + RecordSize(r) <= Len(file)
                       /\ SubSeq(file, p + 1, p + RecordSize(r)) = Frame(r) THEN "frame"
               ELSE "mismatch"

\* The longest prefix of whole frames of a file: its records, where it ends,
\* and what stopped the reader there.
Scan(file) ==
    LET scan[p \in 0..Len(file)] ==
          IF FrameAt(file, p) = "frame"
          THEN LET r == file[p + 1][2]
                   rest == scan[p + RecordSize(r)]
               IN  [rest EXCEPT !.recs = <<r>> \o @]
          ELSE [recs |-> <<>>, pos |-> p, stop |-> FrameAt(file, p)]
    IN  scan[0]

Refused == -1

\* Mutant: a torn tail is refused too.
RecoveredLenStrict(file) ==
    IF Scan(file).stop = "end" THEN {Len(file)} ELSE {Refused}

\* recover_last_segment_tail: the length the last segment is cut to, or the
\* error "ambiguous partial WAL payload" or "wal checksum mismatch".  Garbage
\* may read as any length: one of a torn frame, or one of the other two.
RecoveredLen(file) ==
    LET s == Scan(file)
    IN  CASE s.stop = "end" -> {Len(file)}
          [] s.stop \in {"short", "torn"} -> {s.pos}
          [] s.stop = "garbage" -> {s.pos, Refused}
          [] s.stop \in {"partial", "mismatch"} -> {Refused}

Segments == DOMAIN files
LastSegment == CHOOSE s \in Segments : \A z \in Segments : z <= s

\* WalStream from Offset::start(): the records it yields before it ends or
\* reports an error.  Stray bytes at the end of a segment read as its end.
Stream ==
    LET from[s \in 1..(LastSegment + 1)] ==
          IF s > LastSegment THEN [recs |-> <<>>, ok |-> TRUE]
          ELSE IF s \notin Segments THEN from[s + 1]
          ELSE LET scan == Scan(files[s])
               IN  IF scan.stop \in {"end", "short"}
                   THEN [from[s + 1] EXCEPT !.recs = scan.recs \o @]
                   ELSE [recs |-> scan.recs, ok |-> FALSE]
    IN  IF Segments = {} THEN [recs |-> <<>>, ok |-> TRUE] ELSE from[1]

-----------------------------------------------------------------------------
(* Operations *)

Init ==
    /\ files = <<>> /\ synced = <<>>
    /\ writer = Closed /\ op = Idle /\ failed = FALSE
    /\ attempts = 0 /\ exposed = {} /\ acked = {} /\ crashes = 0

Set(map, key, value) ==
    [k \in DOMAIN map \cup {key} |-> IF k = key THEN value ELSE map[k]]

\* Store::open of an empty directory: segment 1 is created, synced and linked.
OpenEmpty ==
    /\ writer = Closed /\ Segments = {}
    /\ files' = Set(files, 1, <<>>)
    /\ synced' = Set(synced, 1, 0)
    /\ writer' = [segment |-> 1, size |-> 0]
    /\ failed' = FALSE
    /\ UNCHANGED <<op, attempts, exposed, acked, crashes>>

\* Mutant: the size of the file is taken before the torn tail is cut.
OpenExistingStaleSize ==
    /\ writer = Closed /\ Segments # {}
    /\ \E n \in RecoveredLen(files[LastSegment]) \ {Refused} :
         LET s == LastSegment
         IN  /\ files' = [files EXCEPT ![s] = SubSeq(@, 1, n)]
             /\ synced' = [synced EXCEPT ![s] = IF n < Len(files[s]) THEN n ELSE @]
             /\ writer' = [segment |-> s, size |-> Len(files[s])]
    /\ failed' = FALSE
    /\ UNCHANGED <<op, attempts, exposed, acked, crashes>>

\* Store::open of an existing log repairs the tail of its last segment.  When
\* it cannot, it returns an error and nothing changes.  A repaired file is
\* synced; a clean one is not.
OpenExisting ==
    /\ writer = Closed /\ Segments # {}
    /\ \E n \in RecoveredLen(files[LastSegment]) \ {Refused} :
         LET s == LastSegment
             cut == n < Len(files[s])
         IN  /\ files' = [files EXCEPT ![s] = SubSeq(@, 1, n)]
             /\ synced' = [synced EXCEPT ![s] = IF cut THEN n ELSE @]
             /\ writer' = [segment |-> s, size |-> n]
    /\ failed' = FALSE
    /\ UNCHANGED <<op, attempts, exposed, acked, crashes>>

\* Store::append is called, whether or not the one before it failed;
\* WalWriter::append rotates first if the frame does not fit.
AppendBegin ==
    /\ writer # Closed /\ op = Idle
    /\ attempts < MaxAppends
    /\ attempts' = attempts + 1
    /\ exposed' = exposed \cup (IF failed THEN {attempts'} ELSE {})
    /\ op' = [at |-> IF writer.size + RecordSize(attempts') > Rotation
                      THEN "rotate_sync" ELSE "len",
               rec |-> attempts']
    /\ UNCHANGED <<files, synced, writer, failed, acked, crashes>>

RotateSync ==
    /\ op.at = "rotate_sync"
    /\ synced' = [synced EXCEPT ![writer.segment] = Len(files[writer.segment])]
    /\ op' = [op EXCEPT !.at = "rotate_create"]
    /\ UNCHANGED <<files, writer, failed, attempts, exposed, acked, crashes>>

\* The next segment is created, truncated if it exists, and synced.
RotateCreate ==
    /\ op.at = "rotate_create"
    /\ files' = Set(files, writer.segment + 1, <<>>)
    /\ synced' = Set(synced, writer.segment + 1, 0)
    /\ op' = [op EXCEPT !.at = "rotate_dir"]
    /\ UNCHANGED <<writer, failed, attempts, exposed, acked, crashes>>

\* The directory is synced and the writer moves to the new segment.
RotateSwitch ==
    /\ op.at = "rotate_dir"
    /\ writer' = [segment |-> writer.segment + 1, size |-> 0]
    /\ op' = [op EXCEPT !.at = "len"]
    /\ UNCHANGED <<files, synced, failed, attempts, exposed, acked, crashes>>

\* The writer's cursor is at the end of its file: it appends.
Write(cells) ==
    files' = [files EXCEPT ![writer.segment] = @ \o cells]

WriteLen ==
    /\ op.at = "len"
    /\ Write(<<LenCell(op.rec)>>)
    /\ op' = [op EXCEPT !.at = "payload"]
    /\ UNCHANGED <<synced, writer, failed, attempts, exposed, acked, crashes>>

WritePayload ==
    /\ op.at = "payload"
    /\ Write(Payload(op.rec))
    /\ op' = [op EXCEPT !.at = "crc"]
    /\ UNCHANGED <<synced, writer, failed, attempts, exposed, acked, crashes>>

\* Mutant: the append is acknowledged without a sync.
WriteCrcUnsynced ==
    /\ op.at = "crc"
    /\ Write(<<CrcCell(op.rec)>>)
    /\ writer' = [writer EXCEPT !.size = @ + RecordSize(op.rec)]
    /\ op' = [op EXCEPT !.at = "ack"]
    /\ UNCHANGED <<synced, failed, attempts, exposed, acked, crashes>>

\* The checksum, the flush and the new size.
WriteCrc ==
    /\ op.at = "crc"
    /\ Write(<<CrcCell(op.rec)>>)
    /\ writer' = [writer EXCEPT !.size = @ + RecordSize(op.rec)]
    /\ op' = [op EXCEPT !.at = "sync"]
    /\ UNCHANGED <<synced, failed, attempts, exposed, acked, crashes>>

Sync ==
    /\ op.at = "sync"
    /\ synced' = [synced EXCEPT ![writer.segment] = Len(files[writer.segment])]
    /\ op' = [op EXCEPT !.at = "ack"]
    /\ UNCHANGED <<files, writer, failed, attempts, exposed, acked, crashes>>

Ack ==
    /\ op.at = "ack"
    /\ acked' = acked \cup {op.rec}
    /\ op' = Idle
    /\ UNCHANGED <<files, synced, writer, failed, attempts, exposed, crashes>>

\* Any step of an append returns an error instead of taking effect.
AppendFails ==
    /\ op # Idle
    /\ op' = Idle /\ failed' = TRUE
    /\ UNCHANGED <<files, synced, writer, attempts, exposed, acked, crashes>>

\* A write stops part way through its field and returns an error.
AppendTears ==
    /\ \/ op.at \in {"len", "crc"} /\ \E n \in StubBytes : Write(<<Stub(op.rec, n)>>)
       \/ /\ op.at = "payload"
          /\ \E k \in 1..(PayloadLen(op.rec) - 1) :
               Write(SubSeq(Payload(op.rec), 1, k))
    /\ op' = Idle /\ failed' = TRUE
    /\ UNCHANGED <<synced, writer, attempts, exposed, acked, crashes>>

\* The process dies, or exits: the lock is released, memory is lost.
Crash ==
    /\ writer # Closed /\ crashes < MaxCrashes
    /\ crashes' = crashes + 1
    /\ writer' = Closed /\ op' = Idle /\ failed' = FALSE
    /\ UNCHANGED <<files, synced, attempts, exposed, acked>>

Longest == CHOOSE n \in {Len(files[s]) : s \in Segments} :
             \A s \in Segments : Len(files[s]) <= n

\* The machine dies: of what was not synced, any prefix of each file survives,
\* in whole cells (AppendTears leaves the parts of them).
\* Directory entries do survive.
CrashPower ==
    /\ PowerLoss
    /\ writer # Closed /\ crashes < MaxCrashes
    /\ crashes' = crashes + 1
    /\ writer' = Closed /\ op' = Idle /\ failed' = FALSE
    /\ \E lens \in [Segments -> 0..Longest] :
         /\ \A s \in Segments : lens[s] \in synced[s]..Len(files[s])
         /\ files' = [s \in Segments |-> SubSeq(files[s], 1, lens[s])]
         /\ synced' = lens
    /\ UNCHANGED <<attempts, exposed, acked>>

Next ==
    \/ OpenEmpty
    \/ OpenExisting
    \/ AppendBegin
    \/ RotateSync
    \/ RotateCreate
    \/ RotateSwitch
    \/ WriteLen
    \/ WritePayload
    \/ WriteCrc
    \/ Sync
    \/ Ack
    \/ AppendFails
    \/ AppendTears
    \/ Crash
    \/ CrashPower

Spec == Init /\ [][Next]_vars

-----------------------------------------------------------------------------
(* Properties *)

\* The records the log holds: the whole frames each segment begins with, which
\* a stream from the segment on yields.
Contents ==
    LET from[s \in 1..(Cardinality(Segments) + 1)] ==
          IF s \in Segments THEN Scan(files[s]).recs \o from[s + 1] ELSE <<>>
    IN  from[1]

\* When an open store is between appends and has not failed, the writer's
\* segment and size, from which snapshots take their offset, are the real end
\* of the log, and a full stream succeeds and yields all the log holds -
\* unless a store was ever appended to after a failure: the broken frame then
\* stays in the middle of the log.
OpenStoreReadable ==
    writer # Closed /\ op = Idle /\ ~ failed =>
      /\ writer = [segment |-> LastSegment, size |-> Len(files[LastSegment])]
      /\ exposed = {} => Stream = [recs |-> Contents, ok |-> TRUE]

\* Store::open refuses a log only because of a frame that was never
\* acknowledged: a part of a payload at the very end, or whatever a failed
\* append left, when the store was appended to all the same.
RefusesOnlyBrokenFrame ==
    writer = Closed /\ Segments # {} =>
      LET file == files[LastSegment]
          last == Scan(file)
          broken == file[last.pos + 1][2]
      IN  Refused \in RecoveredLen(file) =>
            /\ broken \notin acked
            /\ \/ last.stop = "partial"
               \/ \E i \in (last.pos + 1)..Len(file) : file[i][2] \in exposed /\ file[i][2] > broken

\* What the durability matrix says of a truncated record: a complete length
\* prefix with a missing payload or checksum is rejected when the store is
\* opened.  recover_last_segment_tail cuts most of them off instead.
TruncatedRecordRejected ==
    writer = Closed /\ Segments # {} =>
      (Scan(files[LastSegment]).stop \in {"torn", "partial"} =>
         RecoveredLen(files[LastSegment]) = {Refused})

\* The log implements DurableLog: what it holds grows one record at a time, in
\* the order of the calls, and nothing is invented, repeated or reordered by
\* failures, crashes and reopening.  A record is never lost once it was
\* acknowledged by a store no append of which had failed since it was opened;
\* the Ok of any other append promises nothing.
Durable == INSTANCE DurableLog WITH contents <- Contents, acked <- acked \ exposed,
                                    Records <- 1..MaxAppends
DurableSpec == Durable!Spec
=============================================================================
