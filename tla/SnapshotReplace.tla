-------------------------- MODULE SnapshotReplace --------------------------
(***************************************************************************)
(* Crash-safe replacement of the ledger snapshot, one file operation per   *)
(* step (liminal-store/src/snapshot_durability.rs): the snapshot file, its *)
(* ".rollback" and its ".tmp" sibling, for calls of write_snapshot         *)
(* ("direct") and of write_snapshot_crash_safe ("wrapped", which calls     *)
(* write_snapshot in turn).  Every file operation may fail, and the        *)
(* process may die between any two.                                        *)
(***************************************************************************)
CONSTANTS
    Snapshots,   \* serialized snapshots
    None         \* no such file, no such call

ASSUME SnapshotAssumption ==
    /\ None \notin Snapshots
    /\ None \notin [snapshot : Snapshots, whole : BOOLEAN]

VARIABLES
    main,        \* the snapshot file
    backup,      \* its .rollback sibling
    temp,        \* its .tmp sibling
    pc,          \* the next step of the call in progress, or "idle"
    call,        \* "direct" or "wrapped"
    offered,     \* the snapshot being written, or None
    result       \* how the last call ended: "ok", "err" or "none"

files == <<main, backup, temp>>
vars == <<main, backup, temp, pc, call, offered, result>>

\* The contents of a file: the whole snapshot or its first half.
Whole(s) == [snapshot |-> s, whole |-> TRUE]
Half(s) == [snapshot |-> s, whole |-> FALSE]

InnerSteps ==
    {"tidy", "sweep", "half", "rest", "displace", "install", "remove", "finish"}
WrapperSteps == {"w_tidy", "w_sweep", "w_displace", "w_remove", "w_restore"}

Init ==
    /\ main = None /\ backup = None /\ temp = None
    /\ pc = "idle" /\ call = "direct" /\ offered = None /\ result = "none"

-----------------------------------------------------------------------------
(* Steps *)

\* The step at `from' is done; the call goes on at `to'.
Goto(from, to) ==
    /\ pc = from /\ pc' = to
    /\ UNCHANGED <<call, offered, result>>

Return(outcome) ==
    /\ pc' = "idle" /\ offered' = None /\ result' = outcome
    /\ UNCHANGED call

Begin(s, how) ==
    /\ pc = "idle"
    /\ pc' = IF how = "wrapped" THEN "w_tidy" ELSE "tidy"
    /\ call' = how /\ offered' = s
    /\ UNCHANGED <<main, backup, temp, result>>

\* recover_interrupted_snapshot_replace: an installed snapshot wins over a
\* left-over rollback file, which is restored when there is none ...
TidyFiles ==
    /\ main' = IF main = None THEN backup ELSE main
    /\ backup' = None
    /\ UNCHANGED temp

\* ... and a left-over temporary file is removed.
SweepFiles == temp' = None /\ UNCHANGED <<main, backup>>

WrapperTidy == Goto("w_tidy", "w_sweep") /\ TidyFiles
WrapperSweep == Goto("w_sweep", "w_displace") /\ SweepFiles
Tidy == Goto("tidy", "sweep") /\ TidyFiles
Sweep == Goto("sweep", "half") /\ SweepFiles

\* Mutant: the current snapshot is deleted to make room for the new one.
DisplaceFilesDeletes ==
    /\ main' = None
    /\ UNCHANGED <<backup, temp>>

\* The current snapshot, if there is one, becomes the rollback file; an older
\* rollback file is removed first, which the snapshot outlives.
DisplaceFiles ==
    /\ IF main = None THEN UNCHANGED <<main, backup>>
       ELSE backup' = main /\ main' = None
    /\ UNCHANGED temp

WrapperDisplace == Goto("w_displace", "tidy") /\ DisplaceFiles

\* Mutant: the second half of the bytes is never written.
WriteHalfOnly ==
    /\ Goto("half", "displace")
    /\ temp' = Half(offered)
    /\ UNCHANGED <<main, backup>>

WriteHalf ==
    /\ Goto("half", "rest")
    /\ temp' = Half(offered)
    /\ UNCHANGED <<main, backup>>

WriteRest ==
    /\ Goto("rest", "displace")
    /\ temp' = Whole(offered)
    /\ UNCHANGED <<main, backup>>

Displace == Goto("displace", "install") /\ DisplaceFiles

Install ==
    /\ Goto("install", "remove")
    /\ main' = temp /\ temp' = None
    /\ UNCHANGED backup

\* The directory is synced, the rollback file removed ...
Remove ==
    /\ Goto("remove", "finish")
    /\ backup' = None
    /\ UNCHANGED <<main, temp>>

\* ... and the directory synced again.
Finish ==
    /\ pc = "finish"
    /\ IF call = "wrapped" THEN Goto("finish", "w_remove") ELSE Return("ok")
    /\ UNCHANGED files

WrapperRemove ==
    /\ pc = "w_remove"
    /\ backup' = None
    /\ UNCHANGED <<main, temp>>
    /\ Return("ok")

\* An error inside write_snapshot reaches the wrapper's error path.
ReturnError ==
    IF call = "wrapped" /\ pc \in InnerSteps
    THEN /\ pc' = "w_restore"
         /\ UNCHANGED <<call, offered, result>>
    ELSE Return("err")

\* Any step fails: nothing it does takes effect.
StepFails ==
    /\ pc \in (InnerSteps \cup WrapperSteps) \ {"install", "w_restore"}
    /\ ReturnError
    /\ UNCHANGED files

RestoreFiles ==
    /\ IF main = None /\ backup # None
       THEN main' = backup /\ backup' = None
       ELSE UNCHANGED <<main, backup>>
    /\ UNCHANGED temp

\* The last rename fails: the rollback file is renamed back, whose own failure
\* is ignored.
InstallFails ==
    /\ pc = "install"
    /\ ReturnError
    /\ RestoreFiles \/ UNCHANGED files

\* The wrapper's error path does so again.
WrapperRestore ==
    /\ pc = "w_restore"
    /\ Return("err")
    /\ RestoreFiles \/ UNCHANGED files

\* The process dies.  The next one may open the ledger or replace the snapshot.
Crash ==
    /\ pc # "idle"
    /\ Return("err")
    /\ UNCHANGED files

Step ==
    \/ WrapperTidy
    \/ WrapperSweep
    \/ WrapperDisplace
    \/ Tidy
    \/ Sweep
    \/ WriteHalf
    \/ WriteRest
    \/ Displace
    \/ Install
    \/ Remove
    \/ Finish
    \/ WrapperRemove
    \/ StepFails
    \/ InstallFails
    \/ WrapperRestore

Next ==
    \/ \E s \in Snapshots, how \in {"direct", "wrapped"} : Begin(s, how)
    \/ Step
    \/ Crash

Spec == Init /\ [][Next]_vars

-----------------------------------------------------------------------------
(* Properties *)

OptFile == {None} \cup [snapshot : Snapshots, whole : BOOLEAN]

\* Type invariant.
TypeOK ==
    /\ main \in OptFile /\ backup \in OptFile /\ temp \in OptFile
    /\ pc \in {"idle"} \cup InnerSteps \cup WrapperSteps
    /\ call \in {"direct", "wrapped"}
    /\ offered \in Snapshots \cup {None}
    /\ result \in {"ok", "err", "none"}

\* A half-written snapshot only ever exists under the temporary name: neither
\* open() nor a restored rollback file can show one.
NoTornSnapshot ==
    \A file \in {main, backup} : file # None => file.whole

\* A call that returned Ok left exactly one file, until the next call.
SuccessIsClean ==
    pc = "idle" /\ result = "ok" => main # None /\ backup = None /\ temp = None

\* The snapshot a restart recovers: the installed one, else the rollback one.
Stored ==
    IF main # None THEN main.snapshot
    ELSE IF backup # None THEN backup.snapshot
    ELSE None

\* The replacement is atomic: what a restart recovers is the old snapshot
\* until it is the new one, whatever fails and whenever the process dies, and
\* Ok is returned only once it is the new one.
Cell == INSTANCE SnapshotCell WITH value <- Stored
CellSpec == Cell!Spec
=============================================================================
