---------------------------- MODULE FieldJournal ----------------------------
(***************************************************************************)
(* The journal of the field on disk (liminal-store/src/journal_impl.rs,    *)
(* gc.rs) as its hosts use it: deltas appended under the field's lock,     *)
(* snapshots by a timer and by the :snapshot command, garbage collection   *)
(* after each, a process crash at any step, and the recovery at startup.   *)
(*                                                                         *)
(* A field is the sequence of the deltas it is made of (ClusterField shows *)
(* that replaying them gives the field), without the root, which is added  *)
(* to an empty field at startup and is not journaled.                      *)
(*                                                                         *)
(* A segment of the log is the sequence of its records, with a mark where  *)
(* a failed append left a part of a frame: append_delta prints the error   *)
(* and the next delta is written behind it.  Positions count records; the  *)
(* writer's does not count the mark.  Wal shows how the bytes are read.    *)
(***************************************************************************)
EXTENDS Integers, Sequences

CONSTANTS
    Snapper,       \* the timer and the command
    SegmentLen,    \* most records of a segment
    MaxDeltas,     \* bound: deltas ever made
    MaxSnaps,      \* bound: snapshot files ever written
    NoManifest, Torn

\* A manifest that can be read is neither of the two.
ASSUME JournalAssumption ==
    /\ NoManifest # Torn
    /\ {NoManifest, Torn} \cap [id : Nat, offset : Nat \X Nat] = {}

VARIABLES
    field,     \* the live field
    segments,  \* segment number -> its records and marks
    writer,    \* the segment of the WalWriter and the size it believes it has
    snaps,     \* snapshot id -> what its file holds, or Torn
    manifest,  \* the latest snapshot's id and its offset, Torn, or NoManifest
    snapper,   \* what each snapshotter is doing, and the offset it works with
    made,      \* deltas ever made
    dropped    \* may the log lack deltas of the field, until the next snapshot?

journalVars == <<field, segments, writer, snaps, manifest, snapper, made, dropped>>

\* the part of a frame that a failed append left; deltas are numbered from 1
Broken == 0

Resting == [at |-> "rest", id |-> 0, offset |-> <<0, 0>>]

JournalInit ==
    /\ field = <<>>
    /\ segments = [s \in {1} |-> <<>>] /\ writer = [segment |-> 1, size |-> 0]
    /\ snaps = [i \in {} |-> Torn] /\ manifest = NoManifest
    /\ snapper = [p \in Snapper |-> Resting]
    /\ made = 0 /\ dropped = FALSE

Greatest(set) == CHOOSE x \in set : \A y \in set : y <= x
Current == Greatest(DOMAIN segments)
EndOffset == <<writer.segment, writer.size>>

-----------------------------------------------------------------------------
(* Recovery *)

\* the records of a segment that a stream from an offset yields
Piece(segs, offset, s) ==
    IF s < offset[1] \/ s \notin DOMAIN segs THEN <<>>
    ELSE SubSeq(segs[s], (IF s = offset[1] THEN offset[2] ELSE 0) + 1, Len(segs[s]))

\* the records from an offset on, segment by segment (WalStream)
Streamed(segs, offset, last) ==
    LET read[s \in 0 .. last] == IF s = 0 THEN <<>> ELSE read[s - 1] \o Piece(segs, offset, s)
    IN  read[last]

\* a part of a frame at the end of a segment may read as the end
Trimmed(q) == IF q # <<>> /\ q[Len(q)] = Broken THEN SubSeq(q, 1, Len(q) - 1) ELSE q
Legible == [s \in DOMAIN segments |-> Trimmed(segments[s])]

StreamFrom(offset) == Streamed(Legible, offset, Current)

\* load_latest_snapshot, then the replay of the hosts
StartField == IF manifest = NoManifest THEN <<>> ELSE snaps[manifest.id]
StartOffset == IF manifest = NoManifest THEN <<1, 0>> ELSE manifest.offset
Recovered == StartField \o StreamFrom(StartOffset)

\* the segments a stream from the offset reads hold whole frames only
WholeFrom(offset) ==
    \A s \in DOMAIN segments : s >= offset[1] => \A i \in DOMAIN segments[s] : segments[s][i] # Broken

\* startup fails when the manifest or the snapshot it names cannot be read
Readable == manifest # NoManifest => (manifest # Torn /\ snaps[manifest.id] # Torn)

-----------------------------------------------------------------------------
(* The running host *)

\* the store's lock is held by a snapshotter
Locked == \E p \in Snapper : snapper[p].at \in {"write", "manifest"}

Put(f, k, v) == [x \in DOMAIN f \cup {k} |-> IF x = k THEN v ELSE f[x]]

\* the segments an append may write to: the next one when its record does not fit
Target ==
    (IF writer.size < SegmentLen THEN {writer.segment} ELSE {}) \cup {writer.segment + 1}

\* the file before the append: a rotation creates it, or empties it
File(s) == IF s = writer.segment THEN segments[s] ELSE <<>>

\* the writer in that file
Placed(s) == IF s = writer.segment THEN writer ELSE [segment |-> s, size |-> 0]

\* append_delta, under the field's lock.  Only the sync may have failed: the
\* frame is in the file all the same.
AppendDelta ==
    /\ ~Locked /\ made < MaxDeltas
    /\ made' = made + 1
    /\ field' = Append(field, made')
    /\ \E s \in Target : /\ segments' = Put(segments, s, Append(File(s), made'))
                         /\ writer' = [segment |-> s, size |-> Placed(s).size + 1]
    /\ UNCHANGED <<snaps, manifest, snapper, dropped>>

\* A failing append is printed, and the field goes on with the delta.  Nothing
\* was written; or the next segment was created, and the writer moved to it or
\* not; or a part of the frame was written, which the writer's size leaves out.
DropDelta ==
    /\ ~Locked /\ made < MaxDeltas
    /\ made' = made + 1
    /\ field' = Append(field, made')
    /\ dropped' = TRUE
    /\ \/ UNCHANGED <<segments, writer>>
       \/ /\ segments' = Put(segments, writer.segment + 1, <<>>)
          /\ writer' \in {writer, Placed(writer.segment + 1)}
       \/ \E s \in Target : /\ segments' = Put(segments, s, Append(Trimmed(File(s)), Broken))
                            /\ writer' = Placed(s)
    /\ UNCHANGED <<snaps, manifest, snapper>>

\* next_snapshot_id: one more than the largest on disk.
NextSnapshotId ==
    1 + CHOOSE n \in DOMAIN snaps \cup {0} : \A i \in DOMAIN snaps : i <= n

\* write_snapshot takes both locks and the next free id, and starts its file
BeginSnapshot(p) ==
    LET id == NextSnapshotId
    IN  /\ ~Locked /\ snapper[p].at = "rest" /\ id <= MaxSnaps
        /\ snaps' = Put(snaps, id, Torn)
        /\ snapper' = [snapper EXCEPT ![p] = [at |-> "write", id |-> id, offset |-> EndOffset]]
        /\ UNCHANGED <<field, segments, writer, manifest, made, dropped>>

\* fs::write of the snapshot is done; that of the manifest empties the old one first
WriteSnapshotFile(p) ==
    /\ snapper[p].at = "write"
    /\ snaps' = [snaps EXCEPT ![snapper[p].id] = field]
    /\ manifest' = Torn
    /\ snapper' = [snapper EXCEPT ![p].at = "manifest"]
    /\ UNCHANGED <<field, segments, writer, made, dropped>>

WriteManifest(p) ==
    /\ snapper[p].at = "manifest"
    /\ manifest' = [id |-> snapper[p].id, offset |-> snapper[p].offset]
    /\ snapper' = [snapper EXCEPT ![p].at = "gc"]
    /\ dropped' = FALSE
    /\ UNCHANGED <<field, segments, writer, snaps, made>>

\* a write fails: the file stays cut short, the locks are released, nothing is collected
SnapshotFails(p) ==
    /\ snapper[p].at \in {"write", "manifest"}
    /\ snapper' = [snapper EXCEPT ![p] = Resting]
    /\ UNCHANGED <<field, segments, writer, snaps, manifest, made, dropped>>

\* Mutant: the segment of the snapshot's offset goes too
CollectThrough(p) ==
    /\ snapper[p].at = "gc" /\ ~Locked
    /\ segments' = [s \in {t \in DOMAIN segments : t > snapper[p].offset[1] \/ t = writer.segment} |-> segments[s]]
    /\ snapper' = [snapper EXCEPT ![p] = Resting]
    /\ UNCHANGED <<field, writer, snaps, manifest, made, dropped>>

\* run_gc, after the locks were released: deltas may have been appended since
Collect(p) ==
    /\ snapper[p].at = "gc" /\ ~Locked
    /\ segments' = [s \in {t \in DOMAIN segments : t >= snapper[p].offset[1] \/ t = writer.segment} |-> segments[s]]
    /\ snapper' = [snapper EXCEPT ![p] = Resting]
    /\ UNCHANGED <<field, writer, snaps, manifest, made, dropped>>

\* The process ends anywhere and is started again, if it can be.  Store::open
\* cuts the last segment at the first part of a frame, or refuses the log; a
\* stream that meets one is an error.  The cut may leave the segment shorter
\* than the offset of the manifest.
Restart ==
    /\ Readable
    /\ \E n \in 0 .. Len(segments[Current]) :
         /\ \A i \in 1..n : segments[Current][i] # Broken
         /\ n < Len(segments[Current]) => segments[Current][n + 1] = Broken
         /\ segments' = [segments EXCEPT ![Current] = SubSeq(@, 1, n)]
         /\ writer' = [segment |-> Current, size |-> n]
         /\ dropped' = (StartOffset[1] = Current /\ StartOffset[2] > n)
    /\ UNCHANGED <<snaps, manifest, made>>
    /\ \A s \in DOMAIN segments : LET read == Piece(Legible', StartOffset, s)
                                 IN  \A i \in DOMAIN read : read[i] # Broken
    /\ field' = StartField \o Streamed(Legible', StartOffset, Current)
    /\ snapper' = [p \in Snapper |-> Resting]

JournalNext ==
    \/ AppendDelta \/ DropDelta \/ Restart
    \/ \E p \in Snapper : BeginSnapshot(p) \/ WriteSnapshotFile(p) \/ WriteManifest(p)
                          \/ SnapshotFails(p) \/ Collect(p)

JournalSpec == JournalInit /\ [][JournalNext]_journalVars

-----------------------------------------------------------------------------
(* Properties *)

\* Wherever the process ends, the next start recovers the field it had: every
\* delta in order, across rotations, snapshots that were cut short, and garbage
\* collection that lags behind new deltas.  Excepted are the moment in which the
\* manifest is rewritten, and what a failed append spoils: its delta, until a
\* snapshot holds it; and all the segment in which it left a part of a frame,
\* until a snapshot was taken in a later segment or after a restart.
RecoversLiveField == Readable /\ ~dropped /\ WholeFrom(StartOffset) => Recovered = field
=============================================================================
