--------------------------- MODULE Storage_proof ----------------------------
(***************************************************************************)
(* What is kept on disk: the replacement of a snapshot file, the recovery  *)
(* of the transition ledger and the ingestion of ProofPath evidence.       *)
(***************************************************************************)
EXTENDS SnapshotReplace, LedgerRecovery, ProofPathLedger,
        DataInduction, WellFoundedInduction, SequenceTheorems, TLAPS

\* A non-empty set of natural numbers has a least element.
LEMMA LeastElement ==
    ASSUME NEW T \in SUBSET Nat, T # {}
    PROVE  \E n \in T : \A m \in T : n <= m
<1> DEFINE R == OpToRel(<, Nat)
<1>1. IsWellFoundedOn(R, Nat)
  BY NatLessThanWellFounded, Zenon
<1>2. \A x, y \in Nat : y < x => <<y, x>> \in R
  BY DEF OpToRel
<1> HIDE DEF R
<1>3. PICK x \in T : \A y \in T : ~ (<<y, x>> \in R)
  BY <1>1, WFMin
<1>4. ASSUME NEW y \in T PROVE x <= y
  <2>1. x \in Nat /\ y \in Nat
    OBVIOUS
  <2>2. ~ (y < x)
    BY <2>1, <1>2, <1>3
  <2> QED
    BY <2>1, <2>2
<1> QED
  BY <1>4

\* The induction over the recursive definitions starts from here.
LEMMA NaturalsOrdered == WellOrdered
BY LeastElement DEF WellOrdered

-----------------------------------------------------------------------------
(***************************************************************************)
(* SnapshotReplace implements SnapshotCell, for every set of snapshots.    *)
(***************************************************************************)

\* What the steps know of the files: the snapshot being written is whole under
\* the temporary name before it is installed, and installed before the
\* rollback file goes.
Written ==
    /\ pc = "idle" <=> offered = None
    /\ pc \in {"displace", "install"} => temp = Whole(offered)
    /\ pc \in {"remove", "finish", "w_remove"} =>
         main = Whole(offered) /\ temp = None
    /\ pc \in {"finish", "w_remove"} => backup = None

\* The inductive invariant.
ReplaceInv == TypeOK /\ NoTornSnapshot /\ SuccessIsClean /\ Written

\* A whole snapshot is the contents of a file that exists.
LEMMA WholeIsFile ==
  \A s \in Snapshots :
    /\ Whole(s) \in [snapshot : Snapshots, whole : BOOLEAN]
    /\ Whole(s) # None /\ Whole(s).snapshot = s /\ Whole(s).whole = TRUE
<1> TAKE s \in Snapshots
<1>1. Whole(s) \in [snapshot : Snapshots, whole : BOOLEAN] BY DEF Whole
<1>2. Whole(s).snapshot = s /\ Whole(s).whole = TRUE BY DEF Whole
<1>3. None \notin [snapshot : Snapshots, whole : BOOLEAN]
  BY SnapshotAssumption
<1>4. Whole(s) # None BY <1>1, <1>3, Zenon
<1> QED BY <1>1, <1>2, <1>4

\* The initial states satisfy the inductive invariant.
THEOREM InitReplaceInv == Init => ReplaceInv
  BY SnapshotAssumption
  DEF Init, ReplaceInv, TypeOK, NoTornSnapshot, SuccessIsClean, Written, OptFile,
      InnerSteps, WrapperSteps

\* Starting a replacement preserves it: the call owns the one snapshot offered.
LEMMA BeginReplaceInv ==
  ASSUME ReplaceInv, NEW s \in Snapshots, NEW how \in {"direct", "wrapped"},
         Begin(s, how)
  PROVE  ReplaceInv'
  BY SnapshotAssumption
  DEF Begin, ReplaceInv, TypeOK, NoTornSnapshot, SuccessIsClean, Written, OptFile,
      InnerSteps, WrapperSteps

USE DEF InnerSteps, WrapperSteps, OptFile, files

\* Every step of a replacement, and every failure of one, preserves it.
LEMMA StepReplaceInv == ASSUME ReplaceInv, Step PROVE ReplaceInv'
<1> USE SnapshotAssumption
    DEF ReplaceInv, TypeOK, NoTornSnapshot, SuccessIsClean, Written, Goto, Return
<1>1. CASE WrapperTidy BY <1>1 DEF WrapperTidy, TidyFiles
<1>2. CASE WrapperSweep BY <1>2 DEF WrapperSweep, SweepFiles
<1>3. CASE WrapperDisplace BY <1>3 DEF WrapperDisplace, DisplaceFiles
<1>4. CASE Tidy BY <1>4 DEF Tidy, TidyFiles
<1>5. CASE Sweep BY <1>5 DEF Sweep, SweepFiles
<1>6. CASE WriteHalf BY <1>6 DEF WriteHalf, Half
<1>7. CASE WriteRest BY <1>7, WholeIsFile DEF WriteRest
<1>8. CASE Displace BY <1>8 DEF Displace, DisplaceFiles
<1>9. CASE Install BY <1>9, WholeIsFile DEF Install
<1>10. CASE Remove BY <1>10, WholeIsFile DEF Remove
<1>11. CASE Finish BY <1>11, WholeIsFile DEF Finish
<1>12. CASE WrapperRemove BY <1>12, WholeIsFile DEF WrapperRemove
<1>13. CASE StepFails BY <1>13 DEF StepFails, ReturnError
<1>14. CASE InstallFails BY <1>14 DEF InstallFails, ReturnError, RestoreFiles
<1>15. CASE WrapperRestore BY <1>15 DEF WrapperRestore, RestoreFiles
<1> QED
  BY Zenon, <1>1, <1>2, <1>3, <1>4, <1>5, <1>6, <1>7, <1>8, <1>9, <1>10, <1>11,
     <1>12, <1>13, <1>14, <1>15, Step DEF Step

\* The inductive invariant holds in every reachable state.
THEOREM Invariance == Spec => []ReplaceInv
<1>1. Init => ReplaceInv BY InitReplaceInv
<1>2. ReplaceInv /\ [Next]_vars => ReplaceInv'
  <2> SUFFICES ASSUME ReplaceInv, [Next]_vars PROVE ReplaceInv'
    OBVIOUS
  <2>1. CASE \E s \in Snapshots, how \in {"direct", "wrapped"} : Begin(s, how)
    BY <2>1, BeginReplaceInv
  <2>2. CASE Step BY <2>2, StepReplaceInv
  <2>3. CASE Crash
    BY <2>3, SnapshotAssumption
    DEF Crash, Return, ReplaceInv, TypeOK, NoTornSnapshot, SuccessIsClean, Written
  <2>4. CASE UNCHANGED vars
    BY <2>4
    DEF vars, ReplaceInv, TypeOK, NoTornSnapshot, SuccessIsClean, Written
  <2> QED BY <2>1, <2>2, <2>3, <2>4 DEF Next
<1> QED BY <1>1, <1>2, PTL DEF Spec

\* Type correctness of the replacement's files and program counter.
THEOREM TypeCorrect == Spec => []TypeOK
  BY Invariance, PTL DEF ReplaceInv

\* A half-written file is never reachable under the name open() reads, nor
\* under the name recovery restores.
THEOREM NeverTorn == Spec => []NoTornSnapshot
  BY Invariance, PTL DEF ReplaceInv

\* A replacement that returned Ok left no rollback and no temporary file.
THEOREM SuccessLeavesOneFile == Spec => []SuccessIsClean
  BY Invariance, PTL DEF ReplaceInv

\* Starting a replacement is the abstract Begin.
LEMMA BeginImplements ==
  ASSUME ReplaceInv, NEW s \in Snapshots, NEW how \in {"direct", "wrapped"},
         Begin(s, how)
  PROVE  Cell!Begin
  BY DEF Begin, ReplaceInv, Written, Cell!Begin, Stored

\* Every step is an abstract step or leaves the stored snapshot alone.
LEMMA StepImplements == ASSUME ReplaceInv, Step PROVE [Cell!Next]_(Cell!vars)
<1> USE DEF ReplaceInv, TypeOK, NoTornSnapshot, Written, Goto, Return, Stored
<1>s. SUFFICES Cell!Install \/ Cell!Succeed \/ Cell!Fail \/ UNCHANGED Cell!vars
  BY DEF Cell!Next
<1>1. CASE WrapperTidy BY <1>1 DEF WrapperTidy, TidyFiles, Cell!vars
<1>2. CASE WrapperSweep BY <1>2 DEF WrapperSweep, SweepFiles, Cell!vars
<1>3. CASE WrapperDisplace
  BY <1>3 DEF WrapperDisplace, DisplaceFiles, Cell!vars
<1>4. CASE Tidy BY <1>4 DEF Tidy, TidyFiles, Cell!vars
<1>5. CASE Sweep BY <1>5 DEF Sweep, SweepFiles, Cell!vars
<1>6. CASE WriteHalf BY <1>6 DEF WriteHalf, Cell!vars
<1>7. CASE WriteRest BY <1>7 DEF WriteRest, Cell!vars
<1>8. CASE Displace BY <1>8 DEF Displace, DisplaceFiles, Cell!vars
<1>9. CASE Install
  BY <1>9, SnapshotAssumption, WholeIsFile DEF Install, Cell!Install
<1>10. CASE Remove
  BY <1>10, SnapshotAssumption, WholeIsFile DEF Remove, Cell!vars
<1>11. CASE Finish
  BY <1>11, SnapshotAssumption, WholeIsFile DEF Finish, Cell!Succeed, Cell!vars
<1>12. CASE WrapperRemove
  BY <1>12, SnapshotAssumption, WholeIsFile DEF WrapperRemove, Cell!Succeed
<1>13. CASE StepFails
  BY <1>13 DEF StepFails, ReturnError, Cell!Fail, Cell!vars
<1>14. CASE InstallFails
  BY <1>14 DEF InstallFails, ReturnError, RestoreFiles, Cell!Fail, Cell!vars
<1>15. CASE WrapperRestore
  BY <1>15 DEF WrapperRestore, RestoreFiles, Cell!Fail
<1> QED
  BY <1>1, <1>2, <1>3, <1>4, <1>5, <1>6, <1>7, <1>8, <1>9, <1>10, <1>11,
     <1>12, <1>13, <1>14, <1>15, Step DEF Step

\* The file-by-file replacement implements the atomic cell: a restart finds
\* the old snapshot or the new one, never neither, and Ok means the new one.
THEOREM ReplaceIsAtomic == Spec => CellSpec
<1>1. Init => Cell!Init BY DEF Init, Cell!Init, Stored
<1>2. ReplaceInv /\ [Next]_vars => [Cell!Next]_(Cell!vars)
  <2> SUFFICES ASSUME ReplaceInv, [Next]_vars PROVE [Cell!Next]_(Cell!vars)
    OBVIOUS
  <2>1. CASE \E s \in Snapshots, how \in {"direct", "wrapped"} : Begin(s, how)
    BY <2>1, BeginImplements DEF Cell!Next
  <2>2. CASE Step BY <2>2, StepImplements
  <2>3. CASE Crash
    BY <2>3
    DEF Crash, Return, ReplaceInv, Written, Stored, Cell!Next, Cell!Fail
  <2>4. CASE UNCHANGED vars BY <2>4 DEF vars, Stored, Cell!vars
  <2> QED BY <2>1, <2>2, <2>3, <2>4 DEF Next
<1> QED BY <1>1, <1>2, Invariance, PTL DEF Spec, CellSpec, Cell!Spec

-----------------------------------------------------------------------------
(***************************************************************************)
(* Recovery of the ledger, for every log length and every set of inputs,   *)
(* as long as no poisoned ledger is snapshotted.                           *)
(***************************************************************************)

-----------------------------------------------------------------------------
(* Prefixes of histories *)

\* A prefix of a history is a history of that length, element by element.
LEMMA PrefixOf ==
    ASSUME NEW s \in Histories, NEW n \in 0..Len(s)
    PROVE  /\ SubSeq(s, 1, n) \in Histories /\ Len(SubSeq(s, 1, n)) = n
           /\ \A k \in 1..n : SubSeq(s, 1, n)[k] = s[k]
  BY DEF Histories

\* An event has the history before it as its prefix, and all of that history's
\* prefixes.
LEMMA EventPrefixes ==
    ASSUME NEW s \in Histories, NEW x \in Inputs
    PROVE  /\ Append(s, x) \in Histories /\ Len(Append(s, x)) = Len(s) + 1
           /\ \A n \in 0..Len(s) : SubSeq(Append(s, x), 1, n) = SubSeq(s, 1, n)
           /\ SubSeq(s, 1, Len(s)) = s
           /\ SubSeq(Append(s, x), 1, Len(s) + 1) = Append(s, x)
<1>1. /\ Append(s, x) \in Histories /\ Len(Append(s, x)) = Len(s) + 1 /\ Len(s) \in Nat
      /\ \A k \in 1..Len(s) : Append(s, x)[k] = s[k]
  BY DEF Histories
<1>2. ASSUME NEW n \in 0..Len(s)
      PROVE  SubSeq(Append(s, x), 1, n) = SubSeq(s, 1, n)
  <2> DEFINE a == SubSeq(Append(s, x), 1, n)
             b == SubSeq(s, 1, n)
  <2>1. a \in Seq(Inputs) /\ Len(a) = n /\ \A k \in 1..n : a[k] = Append(s, x)[k]
    BY <1>1, PrefixOf DEF Histories
  <2>2. b \in Seq(Inputs) /\ Len(b) = n /\ \A k \in 1..n : b[k] = s[k]
    BY PrefixOf DEF Histories
  <2>3. \A k \in 1..Len(a) : a[k] = b[k]
    BY <1>1, <2>1, <2>2
  <2> HIDE DEF a, b
  <2>4. a = b
    BY <2>1, <2>2, <2>3, SeqEqual
  <2> QED
    BY <2>4 DEF a, b
<1>3. ASSUME NEW h \in Histories PROVE SubSeq(h, 1, Len(h)) = h
  <2> DEFINE a == SubSeq(h, 1, Len(h))
  <2>1. a \in Seq(Inputs) /\ Len(a) = Len(h) /\ \A k \in 1..Len(h) : a[k] = h[k]
    BY PrefixOf DEF Histories
  <2> HIDE DEF a
  <2>2. a = h
    BY <2>1, SeqEqual DEF Histories
  <2> QED
    BY <2>2 DEF a
<1> QED
  BY <1>1, <1>2, <1>3

-----------------------------------------------------------------------------
(* The inductive invariant *)

\* The log is one line of histories: the i-th event is the i-th prefix of
\* every later one.
OneLine ==
    \A i \in DOMAIN wal :
      /\ Len(wal[i]) = i
      /\ \A j \in i..Len(wal) : SubSeq(wal[j], 1, i) = wal[i]

\* A snapshot is what the log gave at its offset.
Faithful(s) ==
    /\ s \in LedgerSnapshots /\ s.wal_offset <= Len(wal)
    /\ s.state = IF s.wal_offset = 0 THEN <<>> ELSE wal[s.wal_offset]

\* So is every snapshot that a file holds or a call is writing; a half-written
\* one is under the temporary name only.
FilesFaithful ==
    /\ \A file \in {mainFile, backupFile} : file # NoFile => file.whole /\ Faithful(file.snapshot)
    /\ snapPc # "idle" => Faithful(snapOffered)
    /\ snapPc \in {"displace", "install"} => tempFile = Files!Whole(snapOffered)

\* A ledger that is not poisoned holds what a replay of the log would give.
MemoryCurrent == ledger.open /\ ~ ledger.poisoned => ledger.state = FullReplay

AckedLogged == \A event \in acked : \E i \in DOMAIN wal : event = wal[i]

RecoveryTypeOK ==
    /\ wal \in Seq(Histories)
    /\ ledger \in [open : BOOLEAN, poisoned : BOOLEAN, state : Histories]

RInv ==
    /\ RecoveryTypeOK /\ OneLine /\ FilesFaithful /\ MemoryCurrent
    /\ AckedLogged /\ AckedShown

-----------------------------------------------------------------------------
(* What the invariant gives *)

\* Replaying the log gives its last event, or the empty history.
LEMMA ReplayedHistory ==
    ASSUME RecoveryTypeOK, OneLine
    PROVE  /\ FullReplay \in Histories /\ Len(FullReplay) = Len(wal) /\ Len(wal) \in Nat
           /\ \A i \in DOMAIN wal : /\ wal[i] \in Histories /\ Len(wal[i]) = i
                                    /\ SubSeq(FullReplay, 1, i) = wal[i]
<1>1. Len(wal) \in Nat /\ DOMAIN wal = 1..Len(wal) /\ \A i \in DOMAIN wal : wal[i] \in Histories
  BY DEF RecoveryTypeOK
<1>2. CASE Len(wal) = 0
  <2>1. FullReplay = <<>>
    BY <1>2 DEF FullReplay, Replayed
  <2> QED
    BY <1>1, <1>2, <2>1 DEF Histories
<1>3. CASE Len(wal) > 0
  <2>1. FullReplay = wal[Len(wal)]
    BY <1>3 DEF FullReplay, Replayed
  <2> QED
    BY <1>1, <1>3, <2>1 DEF OneLine
<1> QED
  BY <1>1, <1>2, <1>3

\* Every event follows the one before it in the log.
LEMMA Chained ==
    ASSUME RecoveryTypeOK, OneLine
    PROVE  \A i \in DOMAIN wal : Before(wal[i]) = IF i = 1 THEN <<>> ELSE wal[i - 1]
<1> TAKE i \in DOMAIN wal
<1>1. Len(wal) \in Nat /\ DOMAIN wal = 1..Len(wal) /\ wal[i] \in Histories /\ Len(wal[i]) = i /\ i \in Nat
  BY DEF RecoveryTypeOK, OneLine
<1>2. Before(wal[i]) = SubSeq(wal[i], 1, i - 1)
  BY <1>1 DEF Before
<1>3. CASE i = 1
  <2>1. SubSeq(wal[i], 1, 0) = <<>>
    BY SubSeqEmpty
  <2> QED
    BY <1>2, <1>3, <2>1
<1>4. CASE i # 1
  <2>1. i - 1 \in DOMAIN wal /\ i \in (i - 1)..Len(wal)
    BY <1>1, <1>4
  <2> QED
    BY <1>2, <1>4, <2>1 DEF OneLine
<1> QED
  BY <1>3, <1>4

\* A snapshot faithful to the log passes the checks of open().
LEMMA FaithfulVerifies ==
    ASSUME RecoveryTypeOK, OneLine, NEW file, file.whole, Faithful(file.snapshot)
    PROVE  SnapshotVerifies(file)
<1> DEFINE s == file.snapshot
           o == s.wal_offset
<1>1. o \in 0..Len(wal) /\ s.state = IF o = 0 THEN <<>> ELSE wal[o]
  BY ReplayedHistory DEF Faithful, LedgerSnapshots
<1>2. Len(wal) \in Nat /\ DOMAIN wal = 1..Len(wal)
  BY DEF RecoveryTypeOK
<1> HIDE DEF o
<1>3. Replays(o, s.state)
  BY <1>1, <1>2, Chained DEF Replays
<1>4. Replayed(o, s.state) = FullReplay
  BY <1>1, <1>2 DEF Replayed, FullReplay
<1> QED
  BY <1>3, <1>4 DEF SnapshotVerifies, o

\* The properties of states follow from the invariant.
LEMMA InvImplies ==
    ASSUME RInv
    PROVE  AckedShown /\ SnapshotsVerify /\ ReopenSucceeds
<1>1. SnapshotsVerify
  BY FaithfulVerifies DEF RInv, FilesFaithful, SnapshotsVerify
<1>2. Replays(0, <<>>)
  <2>1. Len(wal) \in Nat /\ DOMAIN wal = 1..Len(wal)
    BY DEF RInv, RecoveryTypeOK
  <2> QED
    BY <2>1, Chained DEF RInv, Replays
<1>3. ReopenSucceeds
  BY <1>1, <1>2 DEF SnapshotsVerify, ReopenSucceeds, ReplayVerifies
<1> QED
  BY <1>1, <1>3 DEF RInv

-----------------------------------------------------------------------------
(* The steps *)

\* Initially there is nothing to be wrong about.
LEMMA InitRInv == RecoveryInit => RInv
<1> SUFFICES ASSUME RecoveryInit PROVE RInv
  OBVIOUS
<1>1. /\ wal = <<>> /\ ledger = Closed /\ acked = {}
      /\ mainFile = NoFile /\ backupFile = NoFile /\ snapPc = "idle"
  BY DEF RecoveryInit, Files!Init
<1>2. Closed \in [open : BOOLEAN, poisoned : BOOLEAN, state : Histories] /\ Closed.open = FALSE
  BY DEF Closed, Histories
<1>3. RecoveryTypeOK
  BY <1>1, <1>2 DEF RecoveryTypeOK
<1>4. OneLine /\ FilesFaithful /\ AckedLogged
  BY <1>1 DEF OneLine, FilesFaithful, AckedLogged
<1>5. MemoryCurrent /\ AckedShown
  BY <1>1, <1>2 DEF MemoryCurrent, AckedShown
<1> QED
  BY <1>3, <1>4, <1>5 DEF RInv

\* An event built on what a replay gives extends the line, and everything that
\* was said of the log's earlier part stays true.
LEMMA LogExtends ==
    ASSUME RecoveryTypeOK, OneLine, NEW x \in Inputs,
           wal' = Append(wal, Append(FullReplay, x))
    PROVE  /\ wal' \in Seq(Histories) /\ OneLine'
           /\ FullReplay' = Append(FullReplay, x)
           /\ Len(wal') = Len(wal) + 1 /\ wal'[Len(wal) + 1] = Append(FullReplay, x)
           /\ \A i \in DOMAIN wal : i \in DOMAIN wal' /\ wal'[i] = wal[i]
<1> DEFINE e == Append(FullReplay, x)
           n == Len(wal)
<1>1. /\ FullReplay \in Histories /\ Len(FullReplay) = n /\ n \in Nat /\ DOMAIN wal = 1..n
      /\ \A i \in DOMAIN wal : /\ wal[i] \in Histories /\ Len(wal[i]) = i
                               /\ SubSeq(FullReplay, 1, i) = wal[i]
  BY ReplayedHistory DEF RecoveryTypeOK
<1>2. /\ e \in Histories /\ Len(e) = n + 1 /\ SubSeq(e, 1, n + 1) = e
      /\ \A i \in DOMAIN wal : SubSeq(e, 1, i) = wal[i]
  <2>1. \A i \in DOMAIN wal : i \in 0..Len(FullReplay)
    BY <1>1
  <2>2. /\ e \in Histories /\ Len(e) = Len(FullReplay) + 1
        /\ \A k \in 0..Len(FullReplay) : SubSeq(e, 1, k) = SubSeq(FullReplay, 1, k)
        /\ SubSeq(e, 1, Len(FullReplay) + 1) = e
    BY <1>1, EventPrefixes, Zenon
  <2> HIDE DEF e
  <2> QED
    BY <1>1, <2>1, <2>2
<1> HIDE DEF e
<1>3. /\ wal' \in Seq(Histories) /\ Len(wal') = n + 1 /\ DOMAIN wal' = 1..(n + 1)
      /\ wal'[n + 1] = e /\ \A i \in 1..n : wal'[i] = wal[i]
  BY <1>1, <1>2 DEF RecoveryTypeOK, e
<1> HIDE DEF n
<1>4. ASSUME NEW i \in DOMAIN wal', NEW j \in i..Len(wal')
      PROVE  Len(wal'[i]) = i /\ SubSeq(wal'[j], 1, i) = wal'[i]
  <2>1. CASE i = n + 1
    BY <1>1, <1>2, <1>3, <2>1
  <2>2. CASE i # n + 1 /\ j = n + 1
    BY <1>1, <1>2, <1>3, <2>2
  <2>3. CASE i # n + 1 /\ j # n + 1
    <3>1. i \in DOMAIN wal /\ j \in i..Len(wal) /\ wal'[i] = wal[i] /\ wal'[j] = wal[j]
      BY <1>1, <1>3, <2>3 DEF n
    <3> QED
      BY <3>1 DEF OneLine
  <2> QED
    BY Zenon, <2>1, <2>2, <2>3
<1>5. OneLine'
  <2>1. \A i \in DOMAIN wal' : i \in i..Len(wal')
    BY <1>1, <1>3
  <2> QED
    BY <1>4, <2>1 DEF OneLine
<1>6. FullReplay' = e
  BY <1>1, <1>3 DEF FullReplay, Replayed
<1> QED
  BY <1>1, <1>3, <1>5, <1>6 DEF e, n

\* What a file holds stays faithful while the log grows and no file changes.
LEMMA FilesKept ==
    ASSUME RecoveryTypeOK, FilesFaithful, wal' \in Seq(Histories), Len(wal') >= Len(wal),
           \A i \in DOMAIN wal : wal'[i] = wal[i], UNCHANGED snapVars
    PROVE  FilesFaithful'
<1>1. Len(wal) \in Nat /\ DOMAIN wal = 1..Len(wal) /\ Len(wal') \in Nat
  BY DEF RecoveryTypeOK
<1>2. ASSUME NEW s, Faithful(s) PROVE Faithful(s)'
  <2>1. s.wal_offset \in Nat /\ s.wal_offset <= Len(wal)
    BY <1>2 DEF Faithful, LedgerSnapshots
  <2>2. s.wal_offset # 0 => wal'[s.wal_offset] = wal[s.wal_offset]
    BY <1>1, <2>1
  <2> QED
    BY <1>1, <1>2, <2>1, <2>2 DEF Faithful
<1>3. UNCHANGED <<mainFile, backupFile, tempFile, snapPc, snapOffered>>
  BY DEF snapVars
<1> QED
  BY <1>2, <1>3 DEF FilesFaithful, Files!Whole

\* Every file operation of a snapshot replacement, failed or not, and a crash
\* in the middle of one, keeps the files faithful.
LEMMA FileStepKeeps ==
    ASSUME FilesFaithful, Files!Step \/ Files!Crash, UNCHANGED wal
    PROVE  FilesFaithful'
<1>1. \A s : Faithful(s)' <=> Faithful(s)
  BY DEF Faithful
<1>2. ASSUME NEW s PROVE Files!Whole(s).whole /\ Files!Whole(s).snapshot = s
  BY DEF Files!Whole
<1>3. (/\ \A file \in {mainFile, backupFile} : file # NoFile => file.whole /\ Faithful(file.snapshot)
       /\ snapPc # "idle" => Faithful(snapOffered)
       /\ snapPc \in {"displace", "install"} => tempFile = Files!Whole(snapOffered))
  BY DEF FilesFaithful
<1> SUFFICES /\ \A file \in {mainFile', backupFile'} : file # NoFile => file.whole /\ Faithful(file.snapshot)
             /\ snapPc' # "idle" => Faithful(snapOffered')
             /\ snapPc' \in {"displace", "install"} => tempFile' = Files!Whole(snapOffered')
  BY <1>1 DEF FilesFaithful, Files!Whole
<1> USE DEF Files!Goto, Files!Return, Files!TidyFiles, Files!SweepFiles, Files!DisplaceFiles,
            Files!ReturnError, Files!RestoreFiles, Files!files, Files!InnerSteps, Files!WrapperSteps
<1>4. CASE Files!WrapperTidy
  BY <1>3, <1>4 DEF Files!WrapperTidy
<1>5. CASE Files!WrapperSweep
  BY <1>3, <1>5 DEF Files!WrapperSweep
<1>6. CASE Files!WrapperDisplace
  BY <1>3, <1>6 DEF Files!WrapperDisplace
<1>7. CASE Files!Tidy
  BY <1>3, <1>7 DEF Files!Tidy
<1>8. CASE Files!Sweep
  BY <1>3, <1>8 DEF Files!Sweep
<1>9. CASE Files!WriteHalf
  BY <1>3, <1>9 DEF Files!WriteHalf
<1>10. CASE Files!WriteRest
  BY <1>3, <1>10 DEF Files!WriteRest
<1>11. CASE Files!Displace
  BY <1>3, <1>11 DEF Files!Displace
<1>12. CASE Files!Install
  BY <1>2, <1>3, <1>12 DEF Files!Install
<1>13. CASE Files!Remove
  BY <1>3, <1>13 DEF Files!Remove
<1>14. CASE Files!Finish
  BY <1>3, <1>14 DEF Files!Finish
<1>15. CASE Files!WrapperRemove
  BY <1>3, <1>15 DEF Files!WrapperRemove
<1>16. CASE Files!StepFails
  BY <1>3, <1>16 DEF Files!StepFails
<1>17. CASE Files!InstallFails
  BY <1>3, <1>17 DEF Files!InstallFails
<1>18. CASE Files!WrapperRestore
  BY <1>3, <1>18 DEF Files!WrapperRestore
<1>19. CASE Files!Crash
  BY <1>3, <1>19 DEF Files!Crash
<1> QED
  BY <1>4, <1>5, <1>6, <1>7, <1>8, <1>9, <1>10, <1>11, <1>12, <1>13, <1>14,
     <1>15, <1>16, <1>17, <1>18, <1>19 DEF Files!Step

\* open() shows the acknowledged events: they are all in the log it replays.
LEMMA OpenKeeps == ASSUME RInv, Open PROVE RInv'
<1>1. ReplayVerifies
  BY InvImplies DEF Open, ReopenSucceeds
<1>2. ledger' = Opened(FullReplay) /\ UNCHANGED <<wal, acked, snapVars>>
  BY <1>1 DEF Open
<1>3. FullReplay' = FullReplay
  BY <1>2 DEF FullReplay, Replayed
<1>4. /\ FullReplay \in Histories /\ Len(FullReplay) = Len(wal) /\ Len(wal) \in Nat
      /\ \A i \in DOMAIN wal : Len(wal[i]) = i /\ SubSeq(FullReplay, 1, i) = wal[i]
  BY ReplayedHistory DEF RInv
<1>5. /\ ledger' \in [open : BOOLEAN, poisoned : BOOLEAN, state : Histories]
      /\ ledger'.state = FullReplay
  BY <1>2, <1>4 DEF Opened
<1>6. RecoveryTypeOK' /\ OneLine' /\ AckedLogged'
  BY <1>2, <1>5 DEF RInv, RecoveryTypeOK, OneLine, AckedLogged
<1>7. FilesFaithful'
  BY <1>2, FilesKept DEF RInv, RecoveryTypeOK
<1>8. MemoryCurrent'
  BY <1>3, <1>5 DEF MemoryCurrent
<1>9. AckedShown'
  <2>1. DOMAIN wal = 1..Len(wal)
    BY DEF RInv, RecoveryTypeOK
  <2>2. ASSUME NEW event \in acked
        PROVE  Len(event) <= Len(FullReplay) /\ SubSeq(FullReplay, 1, Len(event)) = event
    <3>1. PICK i \in DOMAIN wal : event = wal[i]
      BY DEF RInv, AckedLogged
    <3> QED
      BY <1>4, <2>1, <3>1
  <2> QED
    BY <1>2, <1>5, <2>2 DEF AckedShown
<1> QED
  BY <1>6, <1>7, <1>8, <1>9 DEF RInv

\* What an unpoisoned, open ledger appends is built on the replay of the log.
LEMMA AppendsToReplay ==
    ASSUME RInv, Ready, ~ ledger.poisoned
    PROVE  ledger.state = FullReplay
  BY DEF RInv, Ready, MemoryCurrent

\* An acknowledged append extends the log and the memory alike.
LEMMA AppendKeeps == ASSUME RInv, NEW x \in Inputs, Append1(x) PROVE RInv'
<1> DEFINE e == Append(FullReplay, x)
<1>1. ledger.state = FullReplay
  BY AppendsToReplay DEF Append1
<1>2. /\ wal' = Append(wal, e) /\ ledger' = [ledger EXCEPT !.state = e]
      /\ acked' = acked \cup {e} /\ UNCHANGED snapVars
  BY <1>1 DEF Append1
<1>3. /\ wal' \in Seq(Histories) /\ OneLine' /\ FullReplay' = e
      /\ Len(wal') = Len(wal) + 1 /\ wal'[Len(wal) + 1] = e
      /\ \A i \in DOMAIN wal : i \in DOMAIN wal' /\ wal'[i] = wal[i]
  BY <1>2, LogExtends DEF RInv
<1>4. /\ FullReplay \in Histories /\ Len(FullReplay) \in Nat /\ Len(wal) \in Nat
  BY ReplayedHistory DEF RInv, Histories
<1>5. /\ e \in Histories /\ Len(e) = Len(FullReplay) + 1
      /\ \A k \in 0..Len(FullReplay) : SubSeq(e, 1, k) = SubSeq(FullReplay, 1, k)
      /\ SubSeq(e, 1, Len(FullReplay) + 1) = e
  BY <1>4, EventPrefixes, Zenon
<1> HIDE DEF e
<1>6. ledger.open /\ ledger \in [open : BOOLEAN, poisoned : BOOLEAN, state : Histories]
  BY DEF Append1, Ready, RInv, RecoveryTypeOK
<1>7. RecoveryTypeOK' /\ ledger'.state = e
  BY <1>2, <1>3, <1>5, <1>6 DEF RecoveryTypeOK
<1>8. MemoryCurrent'
  BY <1>3, <1>7 DEF MemoryCurrent
<1>9. FilesFaithful'
  BY <1>2, <1>3, <1>4, FilesKept DEF RInv
<1>10. AckedLogged'
  <2>1. Len(wal) + 1 \in DOMAIN wal'
    BY <1>3, <1>4
  <2> QED
    BY <1>2, <1>3, <2>1 DEF RInv, AckedLogged
<1>11. AckedShown'
  <2>1. ASSUME NEW event \in acked
        PROVE  Len(event) <= Len(e) /\ SubSeq(e, 1, Len(event)) = event
    <3>1. Len(event) <= Len(FullReplay) /\ SubSeq(FullReplay, 1, Len(event)) = event
      BY <1>1, <1>6 DEF RInv, AckedShown
    <3>2. Len(event) \in Nat
      BY DEF RInv, AckedLogged, RecoveryTypeOK, Histories
    <3> QED
      BY <1>4, <1>5, <3>1, <3>2
  <2>2. Len(e) <= Len(e) /\ SubSeq(e, 1, Len(e)) = e
    BY <1>4, <1>5
  <2> QED
    BY <1>2, <1>7, <2>1, <2>2 DEF AckedShown
<1> QED
  BY <1>3, <1>7, <1>8, <1>9, <1>10, <1>11 DEF RInv

\* A failed append poisons the ledger, whose memory stays where it was.
LEMMA FailureKeeps == ASSUME RInv, NEW x \in Inputs, AppendFails(x) PROVE RInv'
<1>1. ledger.state = FullReplay
  BY AppendsToReplay DEF AppendFails
<1>2. ledger' = [ledger EXCEPT !.poisoned = TRUE] /\ UNCHANGED <<acked, snapVars>>
  BY DEF AppendFails
<1>3. /\ ledger' \in [open : BOOLEAN, poisoned : BOOLEAN, state : Histories]
      /\ ledger'.poisoned /\ ledger'.open = ledger.open /\ ledger'.state = ledger.state
  BY Zenon, <1>2 DEF RInv, RecoveryTypeOK
<1>4. MemoryCurrent' /\ AckedShown'
  BY <1>2, <1>3 DEF RInv, MemoryCurrent, AckedShown
<1>5. CASE UNCHANGED wal
  <2>1. RecoveryTypeOK' /\ OneLine' /\ AckedLogged'
    BY <1>2, <1>3, <1>5 DEF RInv, RecoveryTypeOK, OneLine, AckedLogged
  <2>2. FilesFaithful'
    BY <1>2, <1>5, FilesKept DEF RInv, RecoveryTypeOK
  <2> QED
    BY <1>4, <2>1, <2>2 DEF RInv
<1>6. CASE wal' = Append(wal, Append(ledger.state, x))
  <2>1. /\ wal' \in Seq(Histories) /\ OneLine' /\ Len(wal') = Len(wal) + 1
        /\ \A i \in DOMAIN wal : i \in DOMAIN wal' /\ wal'[i] = wal[i]
    BY <1>1, <1>6, LogExtends DEF RInv
  <2>2. RecoveryTypeOK' /\ AckedLogged'
    BY <1>2, <1>3, <2>1 DEF RInv, RecoveryTypeOK, AckedLogged
  <2>3. Len(wal) \in Nat
    BY DEF RInv, RecoveryTypeOK
  <2>4. FilesFaithful'
    BY <1>2, <2>1, <2>3, FilesKept DEF RInv
  <2> QED
    BY <1>4, <2>1, <2>2, <2>4 DEF RInv
<1> QED
  BY <1>5, <1>6 DEF AppendFails

\* A snapshot is begun from a ledger that is not poisoned: its state is what
\* the log gives at the writer's end.
LEMMA SnapshotKeeps ==
    ASSUME RInv, ~ SnapshotWhilePoisoned, NEW how, WriteSnapshot(how)
    PROVE  RInv'
<1> DEFINE s == [state |-> ledger.state, wal_offset |-> Len(wal)]
<1>1. /\ UNCHANGED <<wal, ledger, acked, mainFile, backupFile, tempFile>> /\ snapOffered' = s
      /\ snapPc' \in {"w_tidy", "tidy"} /\ ledger.state = FullReplay
  BY AppendsToReplay DEF WriteSnapshot, Files!Begin
<1>2. Faithful(s)
  <2>1. FullReplay \in Histories /\ Len(wal) \in Nat
    BY ReplayedHistory DEF RInv
  <2>2. s \in LedgerSnapshots /\ s.wal_offset = Len(wal) /\ s.state = FullReplay
    BY <1>1, <2>1 DEF LedgerSnapshots
  <2>3. FullReplay = IF Len(wal) = 0 THEN <<>> ELSE wal[Len(wal)]
    BY <2>1 DEF FullReplay, Replayed
  <2> HIDE DEF s
  <2> QED
    BY <2>1, <2>2, <2>3 DEF Faithful
<1> HIDE DEF s
<1>3. \A t : Faithful(t)' <=> Faithful(t)
  BY <1>1 DEF Faithful
<1>4. FilesFaithful'
  BY <1>1, <1>2, <1>3 DEF RInv, FilesFaithful
<1>5. RecoveryTypeOK' /\ OneLine' /\ AckedLogged' /\ AckedShown'
  BY <1>1 DEF RInv, RecoveryTypeOK, OneLine, AckedLogged, AckedShown
<1>6. MemoryCurrent'
  BY <1>1 DEF RInv, MemoryCurrent, FullReplay, Replayed
<1> QED
  BY <1>4, <1>5, <1>6 DEF RInv

\* The steps of a snapshot touch the files only.
LEMMA SnapshotStepKeeps == ASSUME RInv, SnapshotStep PROVE RInv'
<1>1. Files!Step /\ UNCHANGED <<wal, ledger, acked>>
  BY DEF SnapshotStep
<1>2. FilesFaithful'
  BY <1>1, FileStepKeeps DEF RInv
<1>3. RecoveryTypeOK' /\ OneLine' /\ AckedLogged' /\ AckedShown'
  BY <1>1 DEF RInv, RecoveryTypeOK, OneLine, AckedLogged, AckedShown
<1>4. MemoryCurrent'
  BY <1>1 DEF RInv, MemoryCurrent, FullReplay, Replayed
<1> QED
  BY <1>2, <1>3, <1>4 DEF RInv

\* A crash loses the memory and leaves log and files as they are.
LEMMA CrashKeeps == ASSUME RInv, RecoveryCrash PROVE RInv'
<1>1. ledger' = Closed /\ UNCHANGED <<wal, acked>>
  BY DEF RecoveryCrash
<1>2. /\ Closed \in [open : BOOLEAN, poisoned : BOOLEAN, state : Histories]
      /\ Closed.open = FALSE
  BY DEF Closed, Histories
<1>3. FilesFaithful'
  <2>1. CASE UNCHANGED snapVars
    BY <1>1, <2>1, FilesKept DEF RInv, RecoveryTypeOK
  <2>2. CASE Files!Crash
    BY <1>1, <2>2, FileStepKeeps DEF RInv
  <2> QED
    BY <2>1, <2>2 DEF RecoveryCrash
<1>4. RecoveryTypeOK' /\ OneLine' /\ AckedLogged'
  BY <1>1, <1>2 DEF RInv, RecoveryTypeOK, OneLine, AckedLogged
<1>5. MemoryCurrent' /\ AckedShown'
  BY <1>1, <1>2 DEF MemoryCurrent, AckedShown
<1> QED
  BY <1>3, <1>4, <1>5 DEF RInv

\* Every step of the writer, a crash and a reopen keep the invariant.
LEMMA NextKeeps == ASSUME ~ SnapshotWhilePoisoned, RInv, [RecoveryNext]_recoveryVars PROVE RInv'
<1>1. CASE UNCHANGED recoveryVars
  <2>1. UNCHANGED <<wal, ledger, acked, snapVars>>
    BY <1>1 DEF recoveryVars
  <2>2. FilesFaithful'
    BY <2>1, FilesKept DEF RInv, RecoveryTypeOK
  <2>3. RecoveryTypeOK' /\ OneLine' /\ AckedLogged' /\ AckedShown'
    BY <2>1 DEF RInv, RecoveryTypeOK, OneLine, AckedLogged, AckedShown
  <2>4. MemoryCurrent'
    BY <2>1 DEF RInv, MemoryCurrent, FullReplay, Replayed
  <2> QED
    BY <2>2, <2>3, <2>4 DEF RInv
<1> QED
  BY <1>1, OpenKeeps, AppendKeeps, FailureKeeps, SnapshotKeeps, SnapshotStepKeeps, CrashKeeps
  DEF RecoveryNext

\* Every step adds at most one event, and it follows the replay of the log.
LEMMA NextGrows ==
    ASSUME RInv, [RecoveryNext]_recoveryVars
    PROVE  /\ Len(wal') >= Len(wal)
           /\ \A i \in DOMAIN wal : wal'[i] = wal[i]
           /\ \A i \in DOMAIN wal' \ DOMAIN wal : Before(wal'[i]) = FullReplay
<1>1. Len(wal) \in Nat /\ DOMAIN wal = 1..Len(wal) /\ FullReplay \in Histories
  BY ReplayedHistory DEF RInv, RecoveryTypeOK
<1>2. CASE UNCHANGED wal
  BY <1>1, <1>2
<1>3. ASSUME NEW x \in Inputs, wal' = Append(wal, Append(FullReplay, x))
      PROVE  /\ Len(wal') >= Len(wal)
             /\ \A i \in DOMAIN wal : wal'[i] = wal[i]
             /\ \A i \in DOMAIN wal' \ DOMAIN wal : Before(wal'[i]) = FullReplay
  <2>1. /\ wal' \in Seq(Histories) /\ Len(wal') = Len(wal) + 1
        /\ wal'[Len(wal) + 1] = Append(FullReplay, x)
        /\ \A i \in DOMAIN wal : wal'[i] = wal[i]
    BY <1>3, LogExtends DEF RInv
  <2>2. \A i \in DOMAIN wal' \ DOMAIN wal : i = Len(wal) + 1
    BY <1>1, <2>1
  <2>3. Before(Append(FullReplay, x)) = FullReplay
    <3>1. /\ Len(Append(FullReplay, x)) = Len(FullReplay) + 1
          /\ \A n \in 0..Len(FullReplay) :
               SubSeq(Append(FullReplay, x), 1, n) = SubSeq(FullReplay, 1, n)
          /\ SubSeq(FullReplay, 1, Len(FullReplay)) = FullReplay
      BY <1>1, EventPrefixes, Zenon
    <3>2. Len(FullReplay) \in Nat
      BY <1>1 DEF Histories
    <3>3. Before(Append(FullReplay, x)) = SubSeq(Append(FullReplay, x), 1, Len(FullReplay))
      BY <3>1, <3>2 DEF Before
    <3> QED
      BY <3>1, <3>2, <3>3
  <2>4. \A i \in DOMAIN wal' \ DOMAIN wal : Before(wal'[i]) = FullReplay
    <3> TAKE i \in DOMAIN wal' \ DOMAIN wal
    <3>1. wal'[i] = Append(FullReplay, x)
      BY <2>1, <2>2
    <3> QED
      BY <2>3, <3>1 DEF Before
  <2>5. Len(wal') >= Len(wal)
    BY <1>1, <2>1
  <2> QED
    BY <2>1, <2>4, <2>5
<1>4. ASSUME NEW x \in Inputs, Append1(x)
      PROVE  wal' = Append(wal, Append(FullReplay, x))
  BY <1>4, AppendsToReplay DEF Append1
<1>5. ASSUME NEW x \in Inputs, AppendFails(x)
      PROVE  UNCHANGED wal \/ wal' = Append(wal, Append(FullReplay, x))
  BY <1>5, AppendsToReplay DEF AppendFails
<1>6. UNCHANGED wal \/ \E x \in Inputs : wal' = Append(wal, Append(FullReplay, x))
  BY <1>4, <1>5 DEF RecoveryNext, recoveryVars, Open, WriteSnapshot, SnapshotStep, RecoveryCrash
<1> QED
  BY <1>2, <1>3, <1>6

-----------------------------------------------------------------------------
(* The theorems *)

\* The invariant holds in every reachable state of a ledger whose callers do
\* not snapshot it while it is poisoned.
THEOREM Recoverable == ASSUME ~ SnapshotWhilePoisoned PROVE RecoverySpec => []RInv
<1>1. RecoveryInit => RInv
  BY InitRInv
<1>2. RInv /\ [RecoveryNext]_recoveryVars => RInv'
  BY NextKeeps
<1> QED
  BY <1>1, <1>2, PTL DEF RecoverySpec

\* No acknowledged event is lost: an open ledger shows each one after the same
\* events as when append returned Ok, after any failures, crashes and reopenings.
THEOREM AckedIsShown == ASSUME ~ SnapshotWhilePoisoned PROVE RecoverySpec => []AckedShown
<1>1. RInv => AckedShown
  BY DEF RInv
<1> QED
  BY <1>1, Recoverable, PTL

\* Every snapshot file that open() or an interrupted replacement can come
\* across passes load_and_verify_snapshot and the replay from its offset.
THEOREM SnapshotsAgree == ASSUME ~ SnapshotWhilePoisoned PROVE RecoverySpec => []SnapshotsVerify
<1>1. RInv => SnapshotsVerify
  BY InvImplies
<1> QED
  BY <1>1, Recoverable, PTL

\* A closed ledger whose store opens can always be reopened.
THEOREM ReopenWorks == ASSUME ~ SnapshotWhilePoisoned PROVE RecoverySpec => []ReopenSucceeds
<1>1. RInv => ReopenSucceeds
  BY InvImplies
<1> QED
  BY <1>1, Recoverable, PTL

\* The log only grows, by events that follow what its replay gives.
THEOREM LogGrows == ASSUME ~ SnapshotWhilePoisoned PROVE RecoverySpec => LogOnlyGrows
<1>1. RInv /\ [RecoveryNext]_recoveryVars =>
        [/\ Len(wal') >= Len(wal)
         /\ \A i \in DOMAIN wal : wal'[i] = wal[i]
         /\ \A i \in DOMAIN wal' \ DOMAIN wal : Before(wal'[i]) = FullReplay]_recoveryVars
  BY NextGrows
<1> QED
  BY <1>1, Recoverable, PTL DEF RecoverySpec, LogOnlyGrows

-----------------------------------------------------------------------------
(***************************************************************************)
(* ProofPath ingestion, for every set of clients and offers and any number *)
(* of failures.                                                            *)
(***************************************************************************)

-----------------------------------------------------------------------------
(* Replaying a log *)

ReplayStart == [ok |-> TRUE, state |-> DefaultState]

\* What replay_from does with one more record.
ReplayOne(before, record) ==
    IF before.ok /\ Accepts(before.state, record)
    THEN [ok |-> TRUE, state |-> ApplyRecord(before.state, record)]
    ELSE [ok |-> FALSE, state |-> DefaultState]

\* h is replay_from's progress through the first n records of a log.
Progress(h, log, n) ==
    h = [i \in 0..n |-> IF i = 0 THEN ReplayStart ELSE ReplayOne(h[i - 1], log[i])]

\* Replaying any number of records is well defined.
LEMMA ProgressExists ==
    ASSUME NEW log, NEW N \in Nat
    PROVE  \E h : Progress(h, log, N)
<1> DEFINE T == {n \in Nat : \E h : Progress(h, log, n)}
<1>1. 0 \in T
  <2> DEFINE h == [i \in 0..0 |-> ReplayStart]
  <2>1. h = [i \in 0..0 |-> IF i = 0 THEN ReplayStart ELSE ReplayOne(h[i - 1], log[i])]
    OBVIOUS
  <2> QED
    BY Zenon, <2>1 DEF Progress
<1>2. ASSUME NEW n \in Nat, n \in T PROVE n + 1 \in T
  <2>1. PICK h : Progress(h, log, n)
    BY <1>2
  <2> DEFINE k == [i \in 0..(n + 1) |-> IF i = n + 1 THEN ReplayOne(h[n], log[n + 1]) ELSE h[i]]
  <2>2. ASSUME NEW i \in 0..(n + 1)
        PROVE  k[i] = IF i = 0 THEN ReplayStart ELSE ReplayOne(k[i - 1], log[i])
    <3>1. CASE i = n + 1
      <4>1. k[i] = ReplayOne(h[n], log[n + 1]) /\ i # 0
        BY <3>1
      <4>2. k[i - 1] = h[n]
        BY <3>1
      <4> QED
        BY <3>1, <4>1, <4>2
    <3>2. CASE i # n + 1
      <4>1. i \in 0..n /\ k[i] = h[i]
        BY <3>2
      <4>2. h[i] = IF i = 0 THEN ReplayStart ELSE ReplayOne(h[i - 1], log[i])
        BY <4>1, <2>1 DEF Progress
      <4>3. i # 0 => k[i - 1] = h[i - 1]
        BY <4>1
      <4> QED
        BY <4>1, <4>2, <4>3
    <3> QED
      BY <3>1, <3>2
  <2>3. k = [i \in 0..(n + 1) |-> IF i = 0 THEN ReplayStart ELSE ReplayOne(k[i - 1], log[i])]
    BY <2>2
  <2>4. Progress(k, log, n + 1)
    BY <2>3 DEF Progress
  <2> HIDE DEF k
  <2> QED
    BY <2>4
<1> HIDE DEF T
<1>3. Nat \subseteq T
  BY <1>1, <1>2, NaturalsOrdered, NatInduct
<1> QED
  BY <1>3 DEF T

\* Replay gives the end of that progress.
LEMMA ReplayProgress ==
    ASSUME NEW log, Len(log) \in Nat
    PROVE  \E h : Progress(h, log, Len(log)) /\ Replay(log) = h[Len(log)]
<1> DEFINE h == CHOOSE h : Progress(h, log, Len(log))
<1>1. Progress(h, log, Len(log))
  BY ProgressExists
<1>2. Replay(log) = h[Len(log)]
  BY DEF Replay, Progress, ReplayOne, ReplayStart
<1> QED
  BY Zenon, <1>1, <1>2

\* A log is replayed alike as far as it goes when a record follows.
LEMMA SameProgress ==
    \A N \in Nat : \A a, b, f, g :
      /\ \A i \in 1..N : a[i] = b[i]
      /\ Progress(f, a, N) /\ Progress(g, b, N + 1)
      => f[N] = g[N]
<1> TAKE N \in Nat
<1> TAKE a, b, f, g
<1> HAVE /\ \A i \in 1..N : a[i] = b[i]
         /\ Progress(f, a, N) /\ Progress(g, b, N + 1)
<1> DEFINE T == {i \in Nat : f[i] = g[i]}
<1>1. 0 \in T
  BY DEF Progress
<1>2. ASSUME NEW i \in Nat, i < N, i \in T PROVE i + 1 \in T
  <2>1. f[i + 1] = ReplayOne(f[i], a[i + 1])
    BY <1>2 DEF Progress
  <2>2. g[i + 1] = ReplayOne(g[i], b[i + 1])
    BY <1>2 DEF Progress
  <2> QED
    BY <1>2, <2>1, <2>2
<1> HIDE DEF T
<1>3. 0..N \subseteq T
  BY <1>1, <1>2, NaturalsOrdered, RangeInduct
<1> QED
  BY <1>3 DEF T

\* The empty log replays to the default state.
LEMMA ReplayEmpty == Replay(<<>>) = ReplayStart
<1>1. PICK h : Progress(h, <<>>, 0) /\ Replay(<<>>) = h[0]
  BY ReplayProgress
<1> QED
  BY <1>1 DEF Progress

IsLog(log) == \E R : log \in Seq(R)

\* A record more is one step of replay_from more.
LEMMA ReplayLonger ==
    ASSUME NEW log, NEW longer, NEW N \in Nat, Len(log) = N, Len(longer) = N + 1,
           \A i \in 1..N : log[i] = longer[i]
    PROVE  Replay(longer) = ReplayOne(Replay(log), longer[N + 1])
<1>1. PICK f : Progress(f, log, N) /\ Replay(log) = f[N]
  BY ReplayProgress
<1>2. PICK g : Progress(g, longer, N + 1) /\ Replay(longer) = g[N + 1]
  BY ReplayProgress
<1>3. g[N + 1] = ReplayOne(g[N], longer[N + 1])
  BY <1>2 DEF Progress
<1>4. f[N] = g[N]
  BY <1>1, <1>2, SameProgress
<1> QED
  BY <1>1, <1>2, <1>3, <1>4

\* In particular when a record is appended.
LEMMA ReplayAppend ==
    ASSUME NEW log, IsLog(log), NEW record
    PROVE  Replay(Append(log, record)) = ReplayOne(Replay(log), record)
<1>1. PICK R : log \in Seq(R)
  BY DEF IsLog
<1> DEFINE longer == Append(log, record)
<1>2. /\ Len(log) \in Nat /\ Len(longer) = Len(log) + 1 /\ longer[Len(log) + 1] = record
      /\ \A i \in 1..Len(log) : log[i] = longer[i]
  <2>1. log \in Seq(R \cup {record}) /\ record \in R \cup {record}
    BY <1>1
  <2> QED
    BY <2>1
<1> HIDE DEF longer
<1>3. Replay(longer) = ReplayOne(Replay(log), longer[Len(log) + 1])
  BY <1>2, ReplayLonger
<1> QED
  BY <1>2, <1>3 DEF longer

-----------------------------------------------------------------------------
(* The inductive invariant *)

KeyOf(record) == record.body.ingestion_key

\* The records of a state are those of a log, each under its own key.
Holds(state, log) ==
    /\ DOMAIN state.records = {KeyOf(log[i]) : i \in DOMAIN log}
    /\ \A i \in DOMAIN log : state.records[KeyOf(log[i])] = log[i]
    /\ \A i, j \in DOMAIN log : KeyOf(log[i]) = KeyOf(log[j]) => i = j

\* A log can be replayed, to a state that holds its records.
Replayable(log) == IsLog(log) /\ Replay(log).ok /\ Holds(Replay(log).state, log)

Answers == {"pending", "invalid", "already_present", "conflict", "inserted"}

\* The log can be replayed, and a ledger that still appends is what replaying it
\* gives: a failed append poisons the ledger, whether its record is in or not.
PInv ==
    /\ Replayable(evidenceWal)
    /\ \E o, p \in BOOLEAN : \E s : evidenceLedger = [open |-> o, poisoned |-> p, state |-> s]
    /\ evidenceLedger.open /\ ~ evidenceLedger.poisoned =>
         evidenceLedger.state = Replay(evidenceWal).state
    /\ answer \in [Clients -> Answers]
    /\ AnswersHold

\* A record the ledger makes from new, well-formed input passes the checks of
\* apply_record, so it can be read back.
LEMMA RecordAccepted ==
    ASSUME NEW state, NEW input, WellFormed(input),
           input.logical_operation_id \notin DOMAIN state.records
    PROVE  /\ Accepts(state, RecordFor(state, input))
           /\ KeyOf(RecordFor(state, input)) = input.logical_operation_id
           /\ Equivalent(RecordFor(state, input), input)
  BY Zenon DEF Accepts, RecordFor, WellFormed, KeyOf, Equivalent, Hash

\* Appending a record that the state after a log accepts keeps the log
\* replayable: the new state is apply_record's.
LEMMA AppendReplayable ==
    ASSUME NEW log, Replayable(log), NEW record, Accepts(Replay(log).state, record)
    PROVE  /\ Replayable(Append(log, record))
           /\ Replay(Append(log, record)).state = ApplyRecord(Replay(log).state, record)
<1> DEFINE longer == Append(log, record)
           state  == Replay(log).state
           after  == ApplyRecord(state, record)
<1>1. PICK R : log \in Seq(R)
  BY DEF Replayable, IsLog
<1>2. Replay(longer).ok /\ Replay(longer).state = after
  <2>1. Replay(longer) = ReplayOne(Replay(log), record)
    BY ReplayAppend DEF Replayable
  <2> QED
    BY <2>1 DEF ReplayOne, Replayable
<1>3. /\ longer \in Seq(R \cup {record}) /\ Len(longer) = Len(log) + 1 /\ Len(log) \in Nat
      /\ longer[Len(log) + 1] = record
      /\ \A i \in 1..Len(log) : longer[i] = log[i]
      /\ DOMAIN longer = 1..(Len(log) + 1) /\ DOMAIN log = 1..Len(log)
  <2>1. log \in Seq(R \cup {record}) /\ record \in R \cup {record}
    BY <1>1
  <2> QED
    BY <2>1
<1>4. IsLog(longer)
  BY <1>3 DEF IsLog
<1>5. Holds(state, log)
  BY DEF Replayable
<1>6. KeyOf(record) \notin DOMAIN state.records
  BY DEF Accepts, KeyOf
<1>7. /\ DOMAIN after.records = DOMAIN state.records \cup {KeyOf(record)}
      /\ after.records[KeyOf(record)] = record
      /\ \A k \in DOMAIN state.records : after.records[k] = state.records[k]
  BY <1>6 DEF ApplyRecord, KeyOf
<1> HIDE DEF longer, state, after
<1>8. DOMAIN after.records = {KeyOf(longer[i]) : i \in DOMAIN longer}
  <2>1. ASSUME NEW k \in DOMAIN after.records
        PROVE  \E i \in DOMAIN longer : k = KeyOf(longer[i])
    <3>1. CASE k = KeyOf(record)
      BY <3>1, <1>3
    <3>2. CASE k \in DOMAIN state.records
      BY <3>2, <1>3, <1>5 DEF Holds
    <3> QED
      BY <2>1, <3>1, <3>2, <1>7
  <2>2. ASSUME NEW i \in DOMAIN longer
        PROVE  KeyOf(longer[i]) \in DOMAIN after.records
    <3>1. CASE i = Len(log) + 1
      BY <3>1, <1>3, <1>7
    <3>2. CASE i \in DOMAIN log
      BY <3>2, <1>3, <1>5, <1>7 DEF Holds
    <3> QED
      BY <3>1, <3>2, <1>3
  <2> QED
    BY <2>1, <2>2
<1>9. ASSUME NEW i \in DOMAIN longer
      PROVE  after.records[KeyOf(longer[i])] = longer[i]
  <2>1. CASE i = Len(log) + 1
    BY <2>1, <1>3, <1>7
  <2>2. CASE i \in DOMAIN log
    <3>1. longer[i] = log[i] /\ KeyOf(log[i]) \in DOMAIN state.records
      BY <2>2, <1>3, <1>5 DEF Holds
    <3> QED
      BY <3>1, <2>2, <1>5, <1>7 DEF Holds
  <2> QED
    BY <2>1, <2>2, <1>3
<1>10. ASSUME NEW i \in DOMAIN longer, NEW j \in DOMAIN longer,
              KeyOf(longer[i]) = KeyOf(longer[j])
       PROVE  i = j
  <2>1. \A n \in DOMAIN log : KeyOf(longer[n]) # KeyOf(record)
    BY <1>3, <1>5, <1>6 DEF Holds
  <2>2. CASE i \in DOMAIN log /\ j \in DOMAIN log
    BY <2>2, <1>3, <1>5, <1>10 DEF Holds
  <2>3. CASE ~ (i \in DOMAIN log /\ j \in DOMAIN log)
    BY <2>1, <2>3, <1>3, <1>10
  <2> QED
    BY <2>2, <2>3
<1> QED
  BY <1>2, <1>4, <1>8, <1>9, <1>10 DEF Replayable, Holds, longer, after, state

-----------------------------------------------------------------------------
(* Every step keeps it *)

\* Before the first open, the log is empty.
LEMMA InitPInv == ProofPathInit => PInv
<1> SUFFICES ASSUME ProofPathInit PROVE PInv
  OBVIOUS
<1>1. Replayable(evidenceWal)
  <2>1. evidenceWal = <<>> /\ IsLog(<<>>)
    <3>1. <<>> \in Seq({})
      OBVIOUS
    <3> QED
      BY <3>1 DEF ProofPathInit, IsLog
  <2>2. Replay(<<>>).ok /\ Replay(<<>>).state.records = <<>>
    BY ReplayEmpty DEF ReplayStart, DefaultState
  <2>3. Holds(Replay(<<>>).state, <<>>)
    BY <2>2 DEF Holds
  <2> QED
    BY <2>1, <2>2, <2>3 DEF Replayable
<1>2. /\ evidenceLedger = [open |-> FALSE, poisoned |-> FALSE, state |-> DefaultState]
      /\ answer = [c \in Clients |-> "pending"]
  BY DEF ProofPathInit, ClosedEvidence
<1>3. AnswersHold
  BY <1>2 DEF AnswersHold
<1> QED
  BY Zenon, <1>1, <1>2, <1>3 DEF PInv, Answers

\* What has been answered stays true as the log grows.
LEMMA AnswersKept ==
    ASSUME AnswersHold, IsLog(evidenceWal), NEW record,
           evidenceWal' \in {evidenceWal, Append(evidenceWal, record)},
           UNCHANGED <<wants, answer>>
    PROVE  AnswersHold'
<1>1. \A i \in DOMAIN evidenceWal : i \in DOMAIN evidenceWal' /\ evidenceWal'[i] = evidenceWal[i]
  <2>1. PICK R : evidenceWal \in Seq(R)
    BY DEF IsLog
  <2>2. evidenceWal \in Seq(R \cup {record}) /\ record \in R \cup {record}
    BY <2>1
  <2> QED
    BY <2>2
<1> QED
  BY <1>1 DEF AnswersHold

\* open: the ledger is what the log replays to.
LEMMA OpenKeepsP == ASSUME PInv, OpenEvidence PROVE PInv'
<1>1. /\ evidenceWal' = evidenceWal /\ wants' = wants /\ answer' = answer
      /\ evidenceLedger' = [open |-> TRUE, poisoned |-> FALSE, state |-> Replay(evidenceWal).state]
  BY DEF OpenEvidence, PInv, Replayable
<1>2. AnswersHold'
  BY Zenon, <1>1 DEF PInv, AnswersHold
<1> QED
  BY Zenon, <1>1, <1>2 DEF PInv

\* A ledger that is dropped or dies leaves the log as it is.
LEMMA CloseKeepsP == ASSUME PInv, Drop \/ ProofPathCrash PROVE PInv'
<1>1. /\ evidenceWal' = evidenceWal /\ wants' = wants /\ answer' = answer
      /\ evidenceLedger' = [open |-> FALSE, poisoned |-> FALSE, state |-> DefaultState]
  BY DEF Drop, ProofPathCrash, ClosedEvidence
<1>2. AnswersHold'
  BY <1>1 DEF PInv, AnswersHold
<1> QED
  BY Zenon, <1>1, <1>2 DEF PInv

\* An answer without a write compares the input with the stored record, which
\* is in the log.
LEMMA AnsweredKeepsP ==
    ASSUME PInv, NEW c \in Clients, AppendAnswered(c)
    PROVE  PInv'
<1> DEFINE w == wants[c]
<1>1. UNCHANGED <<evidenceWal, evidenceLedger, wants>>
  BY DEF AppendAnswered
<1>2. /\ answer' \in [Clients -> Answers]
      /\ \A d \in Clients : d # c => answer'[d] = answer[d]
      /\ answer'[c] = IF ~ WellFormed(w) THEN "invalid"
                      ELSE IF Equivalent(Existing(c), w) THEN "already_present" ELSE "conflict"
  BY DEF AppendAnswered, PInv, Answers
<1>3. ASSUME WellFormed(w)
      PROVE  \E i \in DOMAIN evidenceWal :
               evidenceWal[i] = Existing(c) /\ KeyOf(evidenceWal[i]) = w.logical_operation_id
  <2>1. w.logical_operation_id \in DOMAIN Replay(evidenceWal).state.records
    BY Zenon, <1>3 DEF AppendAnswered, Calls, IsNew, PInv
  <2>2. PICK i \in DOMAIN evidenceWal : w.logical_operation_id = KeyOf(evidenceWal[i])
    BY <2>1 DEF PInv, Replayable, Holds
  <2>3. Existing(c) = evidenceWal[i]
    BY Zenon, <2>2 DEF AppendAnswered, Calls, PInv, Replayable, Holds, Existing
  <2> QED
    BY <2>2, <2>3
<1>4. AnswersHold'
  <2> SUFFICES ASSUME NEW d \in Clients
               PROVE  /\ answer'[d] \in {"inserted", "already_present"} =>
                           \E i \in DOMAIN evidenceWal : Equivalent(evidenceWal[i], wants[d])
                      /\ answer'[d] = "conflict" =>
                           \E i \in DOMAIN evidenceWal :
                             /\ KeyOf(evidenceWal[i]) = wants[d].logical_operation_id
                             /\ ~ Equivalent(evidenceWal[i], wants[d])
    BY <1>1 DEF AnswersHold, KeyOf
  <2>1. CASE d = c
    <3>1. CASE ~ WellFormed(w)
      BY <3>1, <2>1, <1>2
    <3>2. CASE WellFormed(w)
      BY <3>2, <2>1, <1>2, <1>3
    <3> QED
      BY <3>1, <3>2
  <2>2. CASE d # c
    BY Zenon, <2>2, <1>2 DEF PInv, AnswersHold, KeyOf
  <2> QED
    BY <2>1, <2>2
<1> QED
  BY Zenon, <1>1, <1>2, <1>4 DEF PInv

\* New evidence goes to the log and to the ledger alike.
LEMMA InsertedKeepsP ==
    ASSUME PInv, NEW c \in Clients, AppendInserted(c)
    PROVE  PInv'
<1> DEFINE state  == Replay(evidenceWal).state
           record == RecordFor(state, wants[c])
<1>1. evidenceLedger.open /\ ~ evidenceLedger.poisoned /\ evidenceLedger.state = state
  BY DEF AppendInserted, Calls, PInv
<1>2. Accepts(state, record) /\ Equivalent(record, wants[c])
  BY <1>1, RecordAccepted DEF AppendInserted, IsNew
<1>3. /\ evidenceWal' = Append(evidenceWal, record) /\ wants' = wants
      /\ evidenceLedger' = [evidenceLedger EXCEPT !.state = ApplyRecord(@, record)]
      /\ answer' = [answer EXCEPT ![c] = "inserted"]
  BY <1>1 DEF AppendInserted
<1> HIDE DEF record, state
<1>4. Replayable(evidenceWal') /\ Replay(evidenceWal').state = ApplyRecord(state, record)
  BY <1>2, <1>3, AppendReplayable DEF PInv, state
<1>5. evidenceLedger' = [open |-> TRUE, poisoned |-> FALSE, state |-> ApplyRecord(state, record)]
  <2>1. PICK o, p \in BOOLEAN : \E s : evidenceLedger = [open |-> o, poisoned |-> p, state |-> s]
    BY Zenon DEF PInv
  <2>2. PICK s : evidenceLedger = [open |-> o, poisoned |-> p, state |-> s]
    BY Zenon, <2>1
  <2> QED
    BY Zenon, <1>1, <1>3, <2>2
<1>6. /\ answer' \in [Clients -> Answers] /\ answer'[c] = "inserted"
      /\ \A d \in Clients : d # c => answer'[d] = answer[d]
  BY <1>3 DEF PInv, Answers
<1>7. /\ \A i \in DOMAIN evidenceWal : i \in DOMAIN evidenceWal' /\ evidenceWal'[i] = evidenceWal[i]
      /\ \E i \in DOMAIN evidenceWal' : evidenceWal'[i] = record
  <2>1. PICK R : evidenceWal \in Seq(R)
    BY DEF PInv, Replayable, IsLog
  <2>2. evidenceWal \in Seq(R \cup {record}) /\ record \in R \cup {record}
    BY <2>1
  <2>3. /\ DOMAIN evidenceWal' = 1..(Len(evidenceWal) + 1) /\ DOMAIN evidenceWal = 1..Len(evidenceWal)
        /\ Len(evidenceWal) \in Nat /\ evidenceWal'[Len(evidenceWal) + 1] = record
        /\ \A i \in 1..Len(evidenceWal) : evidenceWal'[i] = evidenceWal[i]
    BY <2>2, <1>3
  <2> QED
    BY <2>3
<1>8. AnswersHold'
  <2> SUFFICES ASSUME NEW d \in Clients
               PROVE  /\ answer'[d] \in {"inserted", "already_present"} =>
                           \E i \in DOMAIN evidenceWal' : Equivalent(evidenceWal'[i], wants[d])
                      /\ answer'[d] = "conflict" =>
                           \E i \in DOMAIN evidenceWal' :
                             /\ KeyOf(evidenceWal'[i]) = wants[d].logical_operation_id
                             /\ ~ Equivalent(evidenceWal'[i], wants[d])
    BY <1>3 DEF AnswersHold, KeyOf
  <2>1. CASE d = c
    BY Zenon, <2>1, <1>2, <1>6, <1>7
  <2>2. CASE d # c
    BY Zenon, <2>2, <1>6, <1>7 DEF PInv, AnswersHold, KeyOf
  <2> QED
    BY <2>1, <2>2
<1> QED
  BY Zenon, <1>4, <1>5, <1>6, <1>8 DEF PInv

\* A failed append may have written its record, which the log then accepts, and
\* poisons the ledger either way.
LEMMA FailsKeepsP ==
    ASSUME PInv, NEW c \in Clients, IngestFails(c)
    PROVE  PInv'
<1> DEFINE state  == Replay(evidenceWal).state
           record == RecordFor(state, wants[c])
<1>1. evidenceLedger.open /\ ~ evidenceLedger.poisoned /\ evidenceLedger.state = state
  BY DEF IngestFails, Calls, PInv
<1>2. Accepts(state, record)
  BY <1>1, RecordAccepted DEF IngestFails, IsNew
<1>3. /\ evidenceWal' \in {evidenceWal, Append(evidenceWal, record)}
      /\ wants' = wants /\ answer' = answer
      /\ evidenceLedger' = [evidenceLedger EXCEPT !.poisoned = TRUE]
  BY <1>1 DEF IngestFails
<1> HIDE DEF record, state
<1>4. Replayable(evidenceWal')
  BY Zenon, <1>2, <1>3, AppendReplayable DEF PInv, state
<1>5. evidenceLedger' = [open |-> TRUE, poisoned |-> TRUE, state |-> state]
  <2>1. PICK o, p \in BOOLEAN : \E s : evidenceLedger = [open |-> o, poisoned |-> p, state |-> s]
    BY Zenon DEF PInv
  <2>2. PICK s : evidenceLedger = [open |-> o, poisoned |-> p, state |-> s]
    BY Zenon, <2>1
  <2> QED
    BY Zenon, <1>1, <1>3, <2>2
<1>6. AnswersHold'
  BY <1>3, AnswersKept DEF PInv, Replayable
<1> QED
  BY Zenon, <1>3, <1>4, <1>5, <1>6 DEF PInv

-----------------------------------------------------------------------------
(* Theorems *)

\* The log can be replayed at any time, to the state of the ledger that appends
\* to it, through retries, failed appends, lost answers and crashes.
THEOREM ProofPathInvariance == ProofPathSpec => []PInv
<1>1. PInv /\ [ProofPathNext]_proofPathVars => PInv'
  <2> SUFFICES ASSUME PInv, [ProofPathNext]_proofPathVars PROVE PInv'
    OBVIOUS
  <2>1. CASE UNCHANGED proofPathVars
    <3>1. UNCHANGED <<evidenceWal, evidenceLedger, wants, answer>>
      BY <2>1 DEF proofPathVars
    <3>2. AnswersHold'
      BY <3>1 DEF PInv, AnswersHold
    <3> QED
      BY Zenon, <3>1, <3>2 DEF PInv
  <2>2. CASE OpenEvidence
    BY <2>2, OpenKeepsP
  <2>3. CASE Drop \/ ProofPathCrash
    BY <2>3, CloseKeepsP
  <2>4. CASE \E c \in Clients : AppendAnswered(c)
    BY <2>4, AnsweredKeepsP
  <2>5. CASE \E c \in Clients : AppendInserted(c)
    BY <2>5, InsertedKeepsP
  <2>6. CASE \E c \in Clients : IngestFails(c)
    BY <2>6, FailsKeepsP
  <2> QED
    BY <2>1, <2>2, <2>3, <2>4, <2>5, <2>6 DEF ProofPathNext
<1> QED
  BY <1>1, InitPInv, PTL DEF ProofPathSpec

\* Whatever was retried, the log holds one record per operation and replays
\* (append's duplicate check and the poisoning after a failed write).
THEOREM StoredOnce == ProofPathSpec => []OncePerOperation
<1>1. PInv => OncePerOperation
  BY Zenon DEF PInv, Replayable, Holds, KeyOf, OncePerOperation
<1> QED
  BY <1>1, ProofPathInvariance, PTL

\* No client is told that evidence is stored, or in conflict, when the log does
\* not say so, then or later.
THEOREM AnsweredTruly == ProofPathSpec => []AnswersHold
<1>1. PInv => AnswersHold
  BY DEF PInv
<1> QED
  BY <1>1, ProofPathInvariance, PTL
=============================================================================
