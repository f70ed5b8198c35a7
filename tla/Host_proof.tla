----------------------------- MODULE Host_proof -----------------------------
(***************************************************************************)
(* What surrounds the field in one process or beside it: the C bridge, the *)
(* governance bridge, the clients and the life loop.                       *)
(***************************************************************************)
EXTENDS Bridge, Governance, SdkClients, LifeLoop, SequenceTheorems, FiniteSetTheorems, TLAPS

-----------------------------------------------------------------------------
(***************************************************************************)
(* The outbox of the C bridge loses, repeats and reorders nothing, for any *)
(* number of threads, any buffers and any number of events.                *)
(***************************************************************************)

\* The inductive invariant: the property, and the types it needs.
BridgeInv ==
    /\ posted \in Nat /\ pulled \in Seq(Nat)
    /\ box \in [events : Seq(Nat), metrics : BOOLEAN]
    /\ answer \in [Thread -> Nat \cup {Idle}]
    /\ OutboxExact

\* The lines a push leaves make a number of events.
LEMMA EventCount == ASSUME NEW S, NEW lines \in Seq(S) PROVE EventsOf(lines) \in Nat
<1> DEFINE known == {i \in DOMAIN lines : Recognised(lines[i])}
<1>1. DOMAIN lines = 1..Len(lines) /\ Len(lines) \in Nat
  OBVIOUS
<1>2. IsFiniteSet(1..Len(lines))
  BY <1>1, FS_Interval
<1>3. IsFiniteSet(known)
  BY <1>1, <1>2, FS_Subset
<1> QED
  BY <1>3, FS_CardinalityType DEF EventsOf

\* The lines a push leaves.
Line == {"cell", "json", "dream", "collective"}

\* What each kind of push leaves is a sequence of lines.
LEMMA PushedLines == \A lines \in PushLines : lines \in Seq(Line)
<1>1. \A x, y, z \in Line : /\ <<>> \in Seq(Line) /\ <<x>> \in Seq(Line)
                            /\ <<x, y>> \in Seq(Line) /\ <<x, y, z>> \in Seq(Line)
  OBVIOUS
<1>2. "cell" \in Line /\ "json" \in Line /\ "dream" \in Line /\ "collective" \in Line
  BY DEF Line
<1>3. /\ ImpulseLines \subseteq Seq(Line) /\ NoeticLines \subseteq Seq(Line)
      /\ DreamLines \subseteq Seq(Line) /\ SyncLines \subseteq Seq(Line)
  BY <1>1, <1>2 DEF ImpulseLines, NoeticLines, DreamLines, SyncLines
<1>4. /\ TrsLines \subseteq Seq(Line) /\ LqlLines \subseteq Seq(Line)
      /\ DreamConfigLines \subseteq Seq(Line) /\ SyncConfigLines \subseteq Seq(Line)
      /\ AwakenLines \subseteq Seq(Line) /\ MirrorLines \subseteq Seq(Line)
      /\ PeerLines \subseteq Seq(Line) /\ IntrospectLines \subseteq Seq(Line)
  BY <1>1, <1>2
     DEF TrsLines, LqlLines, DreamConfigLines, SyncConfigLines, AwakenLines, MirrorLines,
         PeerLines, IntrospectLines
<1> QED
  BY <1>3, <1>4 DEF PushLines

\* Consecutive runs of numbers make one run.
LEMMA RunsJoin ==
    ASSUME NEW m \in Nat, NEW n \in Nat
    PROVE  /\ Numbers(m, n) \in Seq(Nat)
           /\ Numbers(0, m) \o Numbers(m, n) = Numbers(0, m + n)
<1> DEFINE a == Numbers(0, m)
           b == Numbers(m, n)
           c == Numbers(0, m + n)
<1>1. /\ a \in Seq(Nat) /\ Len(a) = m /\ \A i \in 1..m : a[i] = i
      /\ b \in Seq(Nat) /\ Len(b) = n /\ \A i \in 1..n : b[i] = m + i
      /\ c \in Seq(Nat) /\ Len(c) = m + n /\ \A i \in 1..(m + n) : c[i] = i
  BY DEF Numbers
<1> HIDE DEF a, b, c
<1>2. /\ a \o b \in Seq(Nat) /\ Len(a \o b) = m + n
      /\ \A i \in 1..(m + n) : (a \o b)[i] = IF i <= m THEN a[i] ELSE b[i - m]
  BY <1>1, ConcatProperties
<1>3. \A i \in 1..Len(a \o b) : (a \o b)[i] = c[i]
  BY <1>1, <1>2
<1>4. a \o b = c
  BY Zenon, <1>1, <1>2, <1>3, SeqEqual
<1> QED
  BY <1>1, <1>4 DEF a, b, c

\* Appending twice is appending once, for the numbers in the outbox.
LEMMA JoinAgain ==
    ASSUME NEW a \in Seq(Nat), NEW b \in Seq(Nat), NEW c \in Seq(Nat)
    PROVE  a \o (b \o c) = (a \o b) \o c
  OBVIOUS

\* Posting extends what was posted, in whoever's name.
LEMMA PostKeeps ==
    ASSUME BridgeInv, NEW n \in Nat, NEW metrics \in BOOLEAN, Post(n, metrics),
           UNCHANGED pulled, answer' \in [Thread -> Nat \cup {Idle}]
    PROVE  BridgeInv'
<1> DEFINE ev == box.events
           new == Numbers(posted, n)
<1>1. /\ posted' = posted + n /\ box'.events = ev \o new /\ box'.metrics \in BOOLEAN
      /\ box' = [events |-> ev \o new, metrics |-> box.metrics \/ metrics]
  BY DEF Post, BridgeInv
<1>2. posted \in Nat /\ pulled \in Seq(Nat) /\ ev \in Seq(Nat) /\ pulled \o ev = Numbers(0, posted)
  BY DEF BridgeInv, OutboxExact
<1>3. new \in Seq(Nat) /\ Numbers(0, posted) \o new = Numbers(0, posted + n)
  BY Zenon, <1>2, RunsJoin
<1> HIDE DEF ev, new
<1>4. pulled \o (ev \o new) = (pulled \o ev) \o new
  BY Zenon, <1>2, <1>3, JoinAgain
<1>5. ev \o new \in Seq(Nat)
  BY <1>2, <1>3, ConcatProperties
<1>6. OutboxExact'
  <2>1. pulled \o (ev \o new) = Numbers(0, posted + n)
    BY <1>2, <1>3, <1>4
  <2> QED
    BY <1>1, <2>1 DEF OutboxExact
<1>7. box' \in [events : Seq(Nat), metrics : BOOLEAN]
  BY <1>1, <1>5 DEF BridgeInv
<1> QED
  BY <1>1, <1>2, <1>6, <1>7 DEF BridgeInv

\* A pull hands out everything, or leaves everything where it was.
LEMMA PullKeeps == ASSUME BridgeInv, NEW cap, Pull(cap) PROVE BridgeInv'
<1>1. box \in [events : Seq(Nat), metrics : BOOLEAN] /\ pulled \in Seq(Nat)
  BY DEF BridgeInv
<1>2. UNCHANGED <<answer, posted>>
  BY DEF Pull
<1>3. CASE box' = Restore(Taken(box), box) /\ UNCHANGED pulled
  <2>1. box.events \o <<>> = box.events
    BY <1>1, ConcatEmptySeq
  <2>2. box' = [events |-> box.events, metrics |-> FALSE \/ box.metrics]
    BY <1>3, <2>1 DEF Restore, Taken
  <2>3. box' \in [events : Seq(Nat), metrics : BOOLEAN] /\ box'.events = box.events
    BY <1>1, <2>2
  <2>4. OutboxExact'
    BY Zenon, <1>2, <1>3, <2>3 DEF BridgeInv, OutboxExact, Numbers
  <2> QED
    BY <1>2, <1>3, <2>3, <2>4 DEF BridgeInv
<1>4. CASE box' = Taken(box) /\ pulled' = pulled \o box.events
  <2>1. pulled' \in Seq(Nat) /\ pulled' \o <<>> = pulled'
    BY <1>1, <1>4, ConcatProperties, ConcatEmptySeq
  <2>2. box' \in [events : Seq(Nat), metrics : BOOLEAN] /\ box'.events = <<>>
    BY <1>4 DEF Taken
  <2>3. OutboxExact'
    BY <1>2, <1>4, <2>1, <2>2 DEF BridgeInv, OutboxExact, Numbers
  <2> QED
    BY <1>2, <2>1, <2>2, <2>3 DEF BridgeInv
<1> QED
  BY <1>3, <1>4 DEF Pull

\* Every step of the bridge keeps the invariant.
LEMMA BridgeStep == BridgeInv /\ [BridgeNext]_bridgeVars => BridgeInv'
<1> SUFFICES ASSUME BridgeInv, [BridgeNext]_bridgeVars PROVE BridgeInv'
  OBVIOUS
<1>1. CASE UNCHANGED bridgeVars
  BY Zenon, <1>1 DEF bridgeVars, BridgeInv, OutboxExact, Numbers
<1>2. CASE InitBridge
  BY Zenon, <1>2 DEF InitBridge, BridgeInv, OutboxExact, Numbers
<1>3. CASE LoopPosts
  <2>1. \A line \in LoopLines : EventsOf(<<line>>) \in Nat
    <3> TAKE line \in LoopLines
    <3>1. <<line>> \in Seq(LoopLines)
      OBVIOUS
    <3> QED
      BY Zenon, <3>1, EventCount
  <2>2. UNCHANGED pulled /\ answer' \in [Thread -> Nat \cup {Idle}]
    BY <1>3 DEF LoopPosts, BridgeInv
  <2>3. \E n \in Nat, metrics \in BOOLEAN : Post(n, metrics)
    BY Zenon, <1>3, <2>1 DEF LoopPosts
  <2> QED
    BY <2>2, <2>3, PostKeeps
<1>4. CASE SnapshotPosts
  <2>1. UNCHANGED pulled /\ answer' \in [Thread -> Nat \cup {Idle}] /\ Post(1, FALSE)
    BY Zenon, <1>4 DEF SnapshotPosts, BridgeInv
  <2> QED
    BY Zenon, <2>1, PostKeeps
<1>5. ASSUME NEW t \in Thread, Push(t) PROVE BridgeInv'
  <2>1. PICK lines \in PushLines : answer' = [answer EXCEPT ![t] = EventsOf(lines)]
    BY Zenon, <1>5 DEF Push
  <2>2. EventsOf(lines) \in Nat
    BY PushedLines, EventCount
  <2>3. answer' \in [Thread -> Nat \cup {Idle}]
    BY <2>1, <2>2 DEF BridgeInv
  <2> QED
    BY <1>5, <2>3 DEF Push, BridgeInv, OutboxExact, Numbers
<1>6. ASSUME NEW t \in Thread, Answer(t) PROVE BridgeInv'
  <2>1. answer[t] \in Nat
    BY <1>6 DEF Answer, BridgeInv
  <2>2. UNCHANGED pulled /\ answer' \in [Thread -> Nat \cup {Idle}] /\ Post(answer[t], FALSE)
    BY Zenon, <1>6 DEF Answer, BridgeInv
  <2> QED
    BY Zenon, <2>1, <2>2, PostKeeps
<1> QED
  BY <1>1, <1>2, <1>3, <1>4, <1>5, <1>6, PullKeeps DEF BridgeNext

\* Every event posted to the outbox is handed out by liminal_pull exactly once
\* and in the order of posting, whichever threads and loops post it and
\* however often a buffer is too small.
THEOREM OutboxIsExact == BridgeSpec => []OutboxExact
<1>1. BridgeInit => BridgeInv
  <2> SUFFICES ASSUME BridgeInit PROVE BridgeInv
    OBVIOUS
  <2>1. <<>> \in Seq(Nat) /\ <<>> \o <<>> = <<>> /\ Numbers(0, 0) = <<>>
    BY DEF Numbers
  <2> QED
    BY <2>1 DEF BridgeInit, BridgeInv, OutboxExact
<1>2. BridgeInv => OutboxExact
  BY DEF BridgeInv
<1> QED
  BY <1>1, <1>2, BridgeStep, PTL DEF BridgeSpec

-----------------------------------------------------------------------------
(***************************************************************************)
(* Receipts of the governance bridge pin their envelopes, for any callers  *)
(* and any envelopes they bring.                                           *)
(***************************************************************************)

Steps == {"away", "append", "snapshot", "sign", "receipt"}

\* The shape of the state; whoever is inside a call holds the writer lock.
GovTypeOK ==
    /\ ledger \in Seq(Bodies)
    /\ call \in [Caller -> [at : Steps, body : Bodies \cup {NoBody}, event : Nat, covers : Nat]]
    /\ receipts \subseteq [body : Bodies, event : Nat, last : Nat]

LockHeld == \A p \in Caller : call[p].at # "away" => holder = p /\ call[p].body \in Bodies

\* An event names its envelope: no envelope is in the ledger twice.
EventsDistinct == \A i, j \in DOMAIN ledger : ledger[i] = ledger[j] => i = j

\* From its append to its receipt, a call's event is the last of the ledger,
\* and the checkpoint it signed ends there.
CallIsLast ==
    \A p \in Caller :
      /\ call[p].at \in {"snapshot", "sign", "receipt"} =>
           /\ call[p].event = Len(ledger) /\ call[p].event \in DOMAIN ledger
           /\ ledger[call[p].event] = call[p].body
      /\ call[p].at = "receipt" => call[p].covers = call[p].event

ReceiptsHold ==
    \A r \in receipts : r.event \in DOMAIN ledger /\ r.last = r.event /\ ledger[r.event] = r.body

GovInv == GovTypeOK /\ LockHeld /\ EventsDistinct /\ CallIsLast /\ ReceiptsHold

\* The host starts with no receipt and no call.
LEMMA InitEstablishes == GovInit => GovInv
<1> SUFFICES ASSUME GovInit PROVE GovInv
  OBVIOUS
<1>1. ledger = <<>> /\ receipts = {} /\ call = [p \in Caller |-> Away]
  BY DEF GovInit
<1>2. Away \in [at : Steps, body : Bodies \cup {NoBody}, event : Nat, covers : Nat]
  BY DEF Away, Steps
<1>3. GovTypeOK
  BY <1>1, <1>2 DEF GovTypeOK
<1>4. \A p \in Caller : call[p].at = "away"
  BY <1>1 DEF Away
<1> QED
  BY <1>1, <1>3, <1>4 DEF GovInv, LockHeld, EventsDistinct, CallIsLast, ReceiptsHold

\* Appending an envelope that is not stored keeps the old events and their
\* distinctness.
LEMMA AppendDistinct ==
    ASSUME GovTypeOK, EventsDistinct, ReceiptsHold, NEW b \in Bodies, b \notin Stored,
           ledger' = Append(ledger, b), receipts' = receipts
    PROVE  /\ ledger' \in Seq(Bodies) /\ Len(ledger') = Len(ledger) + 1
           /\ ledger'[Len(ledger) + 1] = b
           /\ EventsDistinct' /\ ReceiptsHold'
<1>1. ledger \in Seq(Bodies)
  BY DEF GovTypeOK
<1>2. /\ ledger' \in Seq(Bodies) /\ Len(ledger') = Len(ledger) + 1 /\ Len(ledger) \in Nat
      /\ DOMAIN ledger = 1..Len(ledger) /\ DOMAIN ledger' = 1..(Len(ledger) + 1)
      /\ ledger'[Len(ledger) + 1] = b
      /\ \A i \in 1..Len(ledger) : ledger'[i] = ledger[i]
  BY <1>1
<1>3. \A i \in DOMAIN ledger : ledger[i] # b
  BY DEF Stored
<1>4. EventsDistinct'
  BY <1>2, <1>3 DEF EventsDistinct
<1>5. ReceiptsHold'
  BY <1>2 DEF ReceiptsHold
<1> QED
  BY <1>2, <1>4, <1>5

\* Every step of every caller keeps the invariant.
LEMMA StepPreserves == GovInv /\ [GovNext]_govVars => GovInv'
<1> SUFFICES ASSUME GovInv, [GovNext]_govVars PROVE GovInv'
  OBVIOUS
<1> USE DEF GovInv
<1>0. CASE UNCHANGED govVars
  BY <1>0 DEF govVars, GovTypeOK, LockHeld, EventsDistinct, CallIsLast, ReceiptsHold
<1>1. ASSUME NEW p \in Caller, NEW body \in Offered \cap Bodies, NEW t \in BOOLEAN, Begin(p, body, t)
      PROVE  GovInv'
  <2> DEFINE fresh == [Away EXCEPT !.at = "append", !.body = body]
  <2>0. /\ fresh \in [at : Steps, body : Bodies \cup {NoBody}, event : Nat, covers : Nat]
        /\ fresh.at = "append" /\ fresh.body = body
    BY Zenon DEF Away, Steps
  <2>1. call' = [call EXCEPT ![p] = fresh]
    BY <1>1 DEF Begin
  <2> HIDE DEF fresh
  <2>2. holder = NoBody /\ holder' = p /\ UNCHANGED <<ledger, receipts>>
    BY <1>1 DEF Begin
  <2>3. GovTypeOK'
    BY <2>0, <2>1, <2>2 DEF GovTypeOK
  <2>4. \A q \in Caller : call[q].at = "away"
    BY <2>2, GovernanceAssumption DEF LockHeld
  <2>5. \A q \in Caller : q # p => call'[q] = call[q]
    BY <2>1 DEF GovTypeOK
  <2>6. call'[p].at = "append" /\ call'[p].body = body
    BY <2>0, <2>1 DEF GovTypeOK
  <2>7. LockHeld' /\ CallIsLast'
    BY <2>2, <2>4, <2>5, <2>6 DEF LockHeld, CallIsLast
  <2>8. EventsDistinct' /\ ReceiptsHold'
    BY <2>2 DEF EventsDistinct, ReceiptsHold
  <2> QED
    BY <2>3, <2>7, <2>8
<1>2. ASSUME NEW p \in Caller, call[p].at # "away"
      PROVE  /\ call[p].body \in Bodies
             /\ \A q \in Caller : q # p => call[q].at = "away"
  BY <1>2 DEF LockHeld
<1>3. ASSUME NEW p \in Caller, AppendEnvelope(p)
      PROVE  GovInv'
  <2>1. /\ call[p].at = "append" /\ call[p].body \notin Stored
        /\ ledger' = Append(ledger, call[p].body)
        /\ call' = [call EXCEPT ![p].at = "snapshot", ![p].event = Len(ledger')]
        /\ UNCHANGED <<holder, receipts>>
    BY <1>3 DEF AppendEnvelope
  <2>2. call[p].body \in Bodies /\ \A q \in Caller : q # p => call[q].at = "away"
    BY <1>2, <2>1
  <2>3. /\ ledger' \in Seq(Bodies) /\ Len(ledger') = Len(ledger) + 1
        /\ ledger'[Len(ledger) + 1] = call[p].body
        /\ EventsDistinct' /\ ReceiptsHold'
    BY <2>1, <2>2, AppendDistinct
  <2>4. Len(ledger') \in Nat /\ Len(ledger') \in DOMAIN ledger'
    BY <2>3 DEF GovTypeOK
  <2>5. GovTypeOK'
    BY Zenon, <2>1, <2>3, <2>4 DEF GovTypeOK, Steps
  <2>6. /\ call'[p].at = "snapshot" /\ call'[p].event = Len(ledger') /\ call'[p].body = call[p].body
        /\ \A q \in Caller : q # p => call'[q] = call[q]
    BY <2>1 DEF GovTypeOK
  <2>7. LockHeld'
    BY Zenon, <2>1, <2>2, <2>6 DEF LockHeld
  <2>8. CallIsLast'
    BY <2>2, <2>3, <2>4, <2>6 DEF CallIsLast
  <2> QED
    BY <2>3, <2>5, <2>7, <2>8
<1>4. ASSUME NEW p \in Caller, WriteSnapshot(p)
      PROVE  GovInv'
  <2>1. /\ call[p].at = "snapshot"
        /\ call' = [call EXCEPT ![p].at = "sign"]
        /\ UNCHANGED <<ledger, holder, receipts>>
    BY <1>4 DEF WriteSnapshot
  <2>2. /\ call'[p].at = "sign" /\ call'[p].event = call[p].event /\ call'[p].body = call[p].body
        /\ \A q \in Caller : q # p => call'[q] = call[q]
    BY <2>1 DEF GovTypeOK
  <2>3. GovTypeOK'
    BY Zenon, <2>1 DEF GovTypeOK, Steps
  <2>4. LockHeld' /\ CallIsLast'
    BY <2>1, <2>2 DEF LockHeld, CallIsLast
  <2>5. EventsDistinct' /\ ReceiptsHold'
    BY <2>1 DEF EventsDistinct, ReceiptsHold
  <2> QED
    BY <2>3, <2>4, <2>5
<1>5. ASSUME NEW p \in Caller, SignCheckpoint(p)
      PROVE  GovInv'
  <2>1. /\ call[p].at = "sign"
        /\ call' = [call EXCEPT ![p].at = "receipt", ![p].covers = Len(ledger)]
        /\ UNCHANGED <<ledger, holder, receipts>>
    BY <1>5 DEF SignCheckpoint
  <2>2. Len(ledger) \in Nat
    BY DEF GovTypeOK
  <2>3. /\ call'[p].at = "receipt" /\ call'[p].event = call[p].event /\ call'[p].body = call[p].body
        /\ call'[p].covers = Len(ledger)
        /\ \A q \in Caller : q # p => call'[q] = call[q]
    BY <2>1 DEF GovTypeOK
  <2>4. GovTypeOK'
    BY Zenon, <2>1, <2>2 DEF GovTypeOK, Steps
  <2>5. LockHeld'
    BY Zenon, <2>1, <2>3 DEF LockHeld
  <2>6. call[p].event = Len(ledger) /\ call[p].event \in DOMAIN ledger /\ ledger[call[p].event] = call[p].body
    BY <2>1 DEF CallIsLast
  <2>7. CallIsLast'
    BY Zenon, <2>1, <2>3, <2>6 DEF CallIsLast
  <2>8. EventsDistinct' /\ ReceiptsHold'
    BY <2>1 DEF EventsDistinct, ReceiptsHold
  <2> QED
    BY <2>4, <2>5, <2>7, <2>8
<1>6. ASSUME NEW p \in Caller, call[p].at # "away", call' = [call EXCEPT ![p] = Away],
             holder' = IF holder = p THEN NoBody ELSE holder
      PROVE  /\ call' \in [Caller -> [at : Steps, body : Bodies \cup {NoBody}, event : Nat, covers : Nat]]
             /\ \A q \in Caller : call'[q].at = "away"
  <2>1. Away \in [at : Steps, body : Bodies \cup {NoBody}, event : Nat, covers : Nat] /\ Away.at = "away"
    BY DEF Away, Steps
  <2> QED
    BY <1>2, <1>6, <2>1 DEF GovTypeOK
<1>7. ASSUME NEW p \in Caller, ReturnReceipt(p)
      PROVE  GovInv'
  <2> DEFINE r == [body |-> call[p].body, event |-> call[p].event, last |-> call[p].covers]
  <2>1. /\ call[p].at = "receipt"
        /\ receipts' = receipts \cup {r}
        /\ holder' = NoBody /\ call' = [call EXCEPT ![p] = Away]
        /\ UNCHANGED ledger
    BY <1>7 DEF ReturnReceipt
  <2>2. holder = p
    BY <2>1 DEF LockHeld
  <2>3. /\ call' \in [Caller -> [at : Steps, body : Bodies \cup {NoBody}, event : Nat, covers : Nat]]
        /\ \A q \in Caller : call'[q].at = "away"
    BY Zenon, <1>6, <2>1, <2>2
  <2>4. /\ call[p].body \in Bodies /\ call[p].event \in DOMAIN ledger
        /\ ledger[call[p].event] = call[p].body /\ call[p].covers = call[p].event
    BY <1>2, <2>1 DEF CallIsLast
  <2>5. call[p].event \in Nat /\ call[p].covers \in Nat
    BY DEF GovTypeOK
  <2>6. GovTypeOK'
    BY <2>1, <2>3, <2>4, <2>5 DEF GovTypeOK
  <2>7. ReceiptsHold'
    BY <2>1, <2>4 DEF ReceiptsHold
  <2>8. LockHeld' /\ CallIsLast' /\ EventsDistinct'
    BY <2>1, <2>3 DEF LockHeld, CallIsLast, EventsDistinct
  <2> QED
    BY <2>6, <2>7, <2>8
<1>8. ASSUME NEW p \in Caller, FailCall(p)
      PROVE  GovInv'
  <2>1. /\ call[p].at # "away" /\ call' = [call EXCEPT ![p] = Away]
        /\ holder' = IF holder = p THEN NoBody ELSE holder
        /\ UNCHANGED receipts
    BY <1>8 DEF FailCall
  <2>2. /\ call' \in [Caller -> [at : Steps, body : Bodies \cup {NoBody}, event : Nat, covers : Nat]]
        /\ \A q \in Caller : call'[q].at = "away"
    BY Zenon, <1>6, <2>1
  <2>3. LockHeld' /\ CallIsLast'
    BY <2>2 DEF LockHeld, CallIsLast
  <2>4. CASE ledger' = Append(ledger, call[p].body) /\ call[p].body \notin Stored
    <3>1. ledger' \in Seq(Bodies) /\ EventsDistinct' /\ ReceiptsHold'
      BY <1>2, <2>1, <2>4, AppendDistinct
    <3> QED
      BY <2>1, <2>2, <2>3, <3>1 DEF GovTypeOK
  <2>5. CASE UNCHANGED ledger
    <3>1. EventsDistinct' /\ ReceiptsHold'
      BY <2>1, <2>5 DEF EventsDistinct, ReceiptsHold
    <3> QED
      BY <2>1, <2>2, <2>3, <2>5, <3>1 DEF GovTypeOK
  <2> QED
    BY <1>8, <2>4, <2>5 DEF FailCall
<1> QED
  BY <1>0, <1>1, <1>3, <1>4, <1>5, <1>7, <1>8 DEF GovNext

\* The invariant gives the property: two receipts for one envelope are for
\* the same event, and equal.
LEMMA InvImpliesPinned == GovInv => ReceiptPinsEnvelope
<1> SUFFICES ASSUME GovInv PROVE ReceiptPinsEnvelope
  OBVIOUS
<1>1. \A r \in receipts : r.last = r.event /\ ledger[r.event] = r.body
  BY DEF GovInv, ReceiptsHold
<1>2. ASSUME NEW r \in receipts, NEW s \in receipts, r.body = s.body PROVE r = s
  <2>1. r.event = s.event
    BY <1>2 DEF GovInv, ReceiptsHold, EventsDistinct
  <2>2. r.last = s.last
    BY <1>1, <2>1
  <2>3. r \in [body : Bodies, event : Nat, last : Nat] /\ s \in [body : Bodies, event : Nat, last : Nat]
    BY DEF GovInv, GovTypeOK
  <2> QED
    BY <1>2, <2>1, <2>2, <2>3
<1> QED
  BY <1>1, <1>2 DEF ReceiptPinsEnvelope

\* A receipt's checkpoint ends exactly at the event of its own envelope and no
\* envelope gets two receipts, whatever concurrent calls of
\* append_governance_checkpoint append, fail at or retry.
THEOREM ReceiptsArePinned == GovSpec => []ReceiptPinsEnvelope
<1>1. GovInit => GovInv
  BY InitEstablishes
<1>2. GovInv /\ [GovNext]_govVars => GovInv'
  BY StepPreserves
<1>3. GovInv => ReceiptPinsEnvelope
  BY InvImpliesPinned
<1> QED
  BY <1>1, <1>2, <1>3, PTL DEF GovSpec

-----------------------------------------------------------------------------
(***************************************************************************)
(* The clients write commands once and in order, for every buffer, rate    *)
(* and number of sockets.                                                  *)
(***************************************************************************)

Rising(s) == \A i, j \in 1..Len(s) : i < j => s[i] < s[j]

Below(a, b) == \A i \in 1..Len(a), j \in 1..Len(b) : a[i] < b[j]

Under(a, n) == \A i \in 1..Len(a) : a[i] < n

\* A full queue loses its oldest command before the next number is added.
Queued(queue, limit, next) == Append(IF Len(queue) >= limit THEN Tail(queue) ELSE queue, next)

\* Queueing the next number keeps a queue rising, and above what was below it.
LEMMA QueueRises ==
    ASSUME NEW queue \in Seq(Nat), NEW limit \in Nat \ {0}, NEW next \in Nat,
           NEW sent \in Seq(Nat), Rising(queue), Under(queue, next),
           Below(sent, queue), Under(sent, next)
    PROVE  /\ Queued(queue, limit, next) \in Seq(Nat)
           /\ Rising(Queued(queue, limit, next))
           /\ Under(Queued(queue, limit, next), next + 1)
           /\ Below(sent, Queued(queue, limit, next)) /\ Under(sent, next + 1)
<1> DEFINE kept == IF Len(queue) >= limit THEN Tail(queue) ELSE queue
           q == Append(kept, next)
<1>1. /\ kept \in Seq(Nat)
      /\ \A i \in 1..Len(kept) : \E d \in {0, 1} : i + d \in 1..Len(queue) /\ kept[i] = queue[i + d]
      /\ \E d \in {0, 1} : \A i \in 1..Len(kept) : i + d \in 1..Len(queue) /\ kept[i] = queue[i + d]
  <2>1. CASE Len(queue) >= limit
    <3>1. queue # <<>>
      BY <2>1
    <3>2. /\ Tail(queue) \in Seq(Nat) /\ Len(Tail(queue)) = Len(queue) - 1
          /\ \A i \in 1..(Len(queue) - 1) : Tail(queue)[i] = queue[i + 1]
      BY <3>1
    <3> QED
      BY <2>1, <3>2
  <2>2. CASE Len(queue) < limit
    BY <2>2
  <2> QED
    BY <2>1, <2>2
<1>2. PICK d \in {0, 1} : \A i \in 1..Len(kept) : i + d \in 1..Len(queue) /\ kept[i] = queue[i + d]
  BY <1>1
<1>3. kept \in Seq(Nat)
  BY <1>1
<1> HIDE DEF kept
<1>4. /\ q \in Seq(Nat) /\ Len(q) = Len(kept) + 1 /\ q[Len(kept) + 1] = next
      /\ \A i \in 1..Len(kept) : q[i] = kept[i]
  BY <1>3
<1> HIDE DEF q
<1>5. ASSUME NEW i \in 1..Len(q), i # Len(q)
      PROVE  i + d \in 1..Len(queue) /\ q[i] = queue[i + d] /\ i \in 1..Len(kept)
  BY <1>2, <1>3, <1>4, <1>5
<1>6. ASSUME NEW i \in 1..Len(q), NEW j \in 1..Len(q), i < j
      PROVE  q[i] < q[j]
  <2>1. i + d \in 1..Len(queue) /\ q[i] = queue[i + d]
    BY <1>4, <1>5, <1>6
  <2>2. CASE j = Len(q)
    <3>1. queue[i + d] < next
      BY <2>1 DEF Under
    <3> QED
      BY <1>3, <1>4, <2>1, <2>2, <3>1
  <2>3. CASE j # Len(q)
    <3>1. j + d \in 1..Len(queue) /\ q[j] = queue[j + d]
      BY <1>4, <1>5, <2>3
    <3>2. i + d < j + d
      BY <1>6
    <3>3. queue[i + d] < queue[j + d]
      BY <2>1, <3>1, <3>2 DEF Rising
    <3> QED
      BY <2>1, <3>1, <3>3
  <2> QED
    BY <2>2, <2>3
<1>7. ASSUME NEW i \in 1..Len(q) PROVE q[i] < next + 1
  <2>1. CASE i = Len(q)
    BY <1>3, <1>4, <2>1
  <2>2. CASE i # Len(q)
    <3>1. queue[i + d] < next /\ q[i] = queue[i + d] /\ q[i] \in Nat
      BY <1>4, <1>5, <2>2 DEF Under
    <3> QED
      BY <3>1
  <2> QED
    BY <2>1, <2>2
<1>8. ASSUME NEW k \in 1..Len(sent), NEW i \in 1..Len(q)
      PROVE  sent[k] < q[i] /\ sent[k] < next + 1
  <2>1. sent[k] < next /\ sent[k] \in Nat
    BY DEF Under
  <2>2. CASE i = Len(q)
    BY <1>3, <1>4, <2>1, <2>2
  <2>3. CASE i # Len(q)
    <3>1. i + d \in 1..Len(queue) /\ q[i] = queue[i + d]
      BY <1>5, <2>3
    <3>2. sent[k] < queue[i + d]
      BY <3>1 DEF Below
    <3> QED
      BY <2>1, <3>1, <3>2
  <2> QED
    BY <2>2, <2>3
<1>9. ASSUME NEW k \in 1..Len(sent) PROVE sent[k] < next + 1
  <2>1. sent[k] < next /\ sent[k] \in Nat
    BY DEF Under
  <2> QED
    BY <2>1
<1>10. Rising(q) /\ Under(q, next + 1) /\ Below(sent, q) /\ Under(sent, next + 1)
  BY <1>6, <1>7, <1>8, <1>9 DEF Rising, Under, Below
<1> QED
  BY <1>4, <1>10 DEF q, kept, Queued

\* Writing a rising run that is above what was written keeps that rising.
LEMMA SentRises ==
    ASSUME NEW a \in Seq(Nat), NEW b \in Seq(Nat), Rising(a), Rising(b), Below(a, b)
    PROVE  a \o b \in Seq(Nat) /\ Rising(a \o b)
<1> DEFINE c == a \o b
<1>1. /\ c \in Seq(Nat) /\ Len(c) = Len(a) + Len(b)
      /\ \A i \in 1..Len(a) : c[i] = a[i]
  OBVIOUS
<1>4. ASSUME NEW i \in 1..Len(c), i > Len(a)
      PROVE  c[i] = b[i - Len(a)] /\ i - Len(a) \in 1..Len(b)
  BY <1>4
<1> HIDE DEF c
<1>2. ASSUME NEW i \in 1..Len(c), NEW j \in 1..Len(c), i < j PROVE c[i] < c[j]
  <2>1. CASE j <= Len(a)
    <3>1. i \in 1..Len(a) /\ j \in 1..Len(a)
      BY <1>2, <2>1
    <3>2. a[i] < a[j] /\ c[i] = a[i] /\ c[j] = a[j]
      BY <1>1, <1>2, <3>1 DEF Rising
    <3> QED
      BY <3>2
  <2>2. CASE i <= Len(a) /\ j > Len(a)
    <3>1. j - Len(a) \in 1..Len(b) /\ c[j] = b[j - Len(a)]
      BY <1>4, <2>2
    <3>2. i \in 1..Len(a) /\ c[i] = a[i]
      BY <1>1, <2>2
    <3>3. a[i] < b[j - Len(a)]
      BY <3>1, <3>2 DEF Below
    <3> QED
      BY <3>1, <3>2, <3>3
  <2>3. CASE i > Len(a)
    <3>1. /\ i - Len(a) \in 1..Len(b) /\ c[i] = b[i - Len(a)]
          /\ j - Len(a) \in 1..Len(b) /\ c[j] = b[j - Len(a)]
      BY <1>2, <1>4, <2>3
    <3>2. i - Len(a) < j - Len(a)
      BY <1>2
    <3>3. b[i - Len(a)] < b[j - Len(a)]
      BY Zenon, <3>1, <3>2 DEF Rising
    <3> QED
      BY <3>1, <3>3
  <2> QED
    BY <2>1, <2>2, <2>3
<1>3. Rising(c)
  BY <1>1, <1>2 DEF Rising
<1> QED
  BY <1>1, <1>3 DEF c

-----------------------------------------------------------------------------
(* The TypeScript client *)

TsState ==
    [cur : {"none", "connecting", "open", "closed"}, older : Int, left : {0, 1},
     timer : BOOLEAN, heart : BOOLEAN, reconnect : BOOLEAN, backoff : Int,
     queue : Seq(Nat), tokens : Int, next : Nat, opens : Int, flushed : Seq(Nat)]

\* What was sent, what a method flushes and what waits in the queue rise, each
\* above the one before and below the next number.
TsOrdered(sent, t) ==
    /\ t \in TsState /\ sent \in Seq(Nat)
    /\ Rising(sent) /\ Rising(t.flushed) /\ Rising(t.queue)
    /\ Below(sent, t.flushed) /\ Below(sent, t.queue) /\ Below(t.flushed, t.queue)
    /\ Under(sent, t.next) /\ Under(t.flushed, t.next) /\ Under(t.queue, t.next)

TsInv == TsOrdered(tsSent, ts) /\ ts.flushed = <<>>

\* The order depends on the queue, the flushed commands and the next number.
LEMMA TsSameOrder ==
    ASSUME NEW sent, NEW t, TsOrdered(sent, t), NEW u \in TsState,
           u.queue = t.queue, u.flushed = t.flushed, u.next = t.next
    PROVE  TsOrdered(sent, u)
  BY DEF TsOrdered

\* Empty sequences are above and below everything.
LEMMA EmptyOrder ==
    /\ <<>> \in Seq(Nat) /\ Rising(<<>>)
    /\ \A s \in Seq(Nat) : Below(s, <<>>) /\ Below(<<>>, s)
    /\ \A n : Under(<<>>, n)
  BY DEF Rising, Below, Under

\* connect changes the sockets only.
LEMMA ConnectOrdered ==
    ASSUME NEW sent, NEW t, TsOrdered(sent, t)
    PROVE  TsOrdered(sent, Connect(t)) /\ Connect(t).queue = t.queue /\ Connect(t).flushed = t.flushed
<1>1. t \in TsState
  BY DEF TsOrdered
<1> DEFINE o == IF t.cur = "connecting" THEN t.older + 1 ELSE t.older
           u == [t EXCEPT !.cur = "connecting", !.older = o]
<1>3. o \in Int
  BY <1>1 DEF TsState
<1>4. Connect(t) = IF t.cur = "open" THEN t ELSE u
  BY <1>1 DEF Connect, TsState
<1> HIDE DEF o
<1>5. u \in TsState /\ u.queue = t.queue /\ u.flushed = t.flushed /\ u.next = t.next
  BY Zenon, <1>1, <1>3 DEF TsState
<1> HIDE DEF u
<1>2. /\ Connect(t) \in TsState /\ Connect(t).queue = t.queue
      /\ Connect(t).flushed = t.flushed /\ Connect(t).next = t.next
  BY <1>1, <1>4, <1>5
<1> QED
  BY <1>2, TsSameOrder

\* Joining two sequences: what is below or above both is below or above the
\* joined one.
LEMMA JoinOrder ==
    ASSUME NEW a \in Seq(Nat), NEW b \in Seq(Nat), NEW s \in Seq(Nat), NEW n \in Nat,
           Below(s, a), Below(s, b), Under(a, n), Under(b, n)
    PROVE  Below(s, a \o b) /\ Under(a \o b, n)
<1> DEFINE c == a \o b
<1>1. /\ c \in Seq(Nat) /\ Len(c) = Len(a) + Len(b)
      /\ \A i \in 1..Len(a) : c[i] = a[i]
  OBVIOUS
<1>2. ASSUME NEW i \in 1..Len(c), i > Len(a)
      PROVE  c[i] = b[i - Len(a)] /\ i - Len(a) \in 1..Len(b)
  BY <1>2
<1> HIDE DEF c
<1>3. ASSUME NEW i \in 1..Len(c)
      PROVE  c[i] < n /\ \A k \in 1..Len(s) : s[k] < c[i]
  <2>1. CASE i <= Len(a)
    <3>1. i \in 1..Len(a) /\ c[i] = a[i]
      BY <1>1, <2>1
    <3> QED
      BY <3>1 DEF Below, Under
  <2>2. CASE i > Len(a)
    <3>1. i - Len(a) \in 1..Len(b) /\ c[i] = b[i - Len(a)]
      BY <1>2, <2>2
    <3> QED
      BY <3>1 DEF Below, Under
  <2> QED
    BY <2>1, <2>2
<1> QED
  BY <1>3 DEF Below, Under, c

\* The same for what is joined below.
LEMMA JoinUnder ==
    ASSUME NEW a \in Seq(Nat), NEW b \in Seq(Nat), NEW s \in Seq(Nat), NEW n \in Nat,
           Below(a, s), Below(b, s), Under(a, n), Under(b, n)
    PROVE  Below(a \o b, s) /\ Under(a \o b, n)
<1> DEFINE c == a \o b
<1>1. /\ c \in Seq(Nat) /\ Len(c) = Len(a) + Len(b)
      /\ \A i \in 1..Len(a) : c[i] = a[i]
  OBVIOUS
<1>2. ASSUME NEW i \in 1..Len(c), i > Len(a)
      PROVE  c[i] = b[i - Len(a)] /\ i - Len(a) \in 1..Len(b)
  BY <1>2
<1> HIDE DEF c
<1>3. ASSUME NEW i \in 1..Len(c)
      PROVE  c[i] < n /\ \A k \in 1..Len(s) : c[i] < s[k]
  <2>1. CASE i <= Len(a)
    <3>1. i \in 1..Len(a) /\ c[i] = a[i]
      BY <1>1, <2>1
    <3> QED
      BY <3>1 DEF Below, Under
  <2>2. CASE i > Len(a)
    <3>1. i - Len(a) \in 1..Len(b) /\ c[i] = b[i - Len(a)]
      BY <1>2, <2>2
    <3> QED
      BY <3>1 DEF Below, Under
  <2> QED
    BY <2>1, <2>2
<1> QED
  BY <1>3 DEF Below, Under, c

\* flushQueue moves the queue behind what was flushed.
LEMMA FlushOrdered ==
    ASSUME NEW sent, NEW t, TsOrdered(sent, t)
    PROVE  TsOrdered(sent, FlushQueue(t))
<1>1. CASE t.cur # "open"
  BY <1>1, ConnectOrdered DEF FlushQueue
<1>2. CASE t.cur = "open"
  <2> DEFINE f == t.flushed \o t.queue
             u == [t EXCEPT !.flushed = f, !.queue = <<>>]
  <2>1. t \in TsState /\ sent \in Seq(Nat) /\ t.flushed \in Seq(Nat) /\ t.queue \in Seq(Nat)
        /\ t.next \in Nat
    BY DEF TsOrdered, TsState
  <2>2. f \in Seq(Nat) /\ Rising(f)
    BY <2>1, SentRises DEF TsOrdered
  <2>3. Below(sent, f) /\ Under(f, t.next)
    BY <2>1, JoinOrder DEF TsOrdered
  <2>6. FlushQueue(t) = u
    BY <1>2, <2>1 DEF FlushQueue, TsState
  <2> HIDE DEF f
  <2>7. <<>> \in Seq(Nat)
    OBVIOUS
  <2>4. u \in TsState /\ u.flushed = f /\ u.queue = <<>> /\ u.next = t.next
    BY Zenon, <2>1, <2>2, <2>7 DEF TsState
  <2> HIDE DEF u
  <2>5. TsOrdered(sent, u)
    BY <2>1, <2>2, <2>3, <2>4, EmptyOrder DEF TsOrdered
  <2> QED
    BY <2>5, <2>6
<1> QED
  BY <1>1, <1>2

\* enqueue numbers a command and puts it behind the queue, or drops it.
LEMMA EnqueueOrdered ==
    ASSUME NEW sent, NEW t, TsOrdered(sent, t)
    PROVE  TsOrdered(sent, Enqueue(t))
<1>1. CASE t.tokens = 0
  BY <1>1 DEF Enqueue
<1>2. CASE t.tokens # 0
  <2> DEFINE q == Queued(t.queue, TsBuffer, t.next)
             k == t.tokens - 1
             n == t.next + 1
             u == [t EXCEPT !.tokens = k, !.next = n, !.queue = q]
  <2>1. t \in TsState /\ sent \in Seq(Nat) /\ t.flushed \in Seq(Nat) /\ t.queue \in Seq(Nat)
        /\ t.next \in Nat /\ TsBuffer \in Nat \ {0}
    BY SdkTsAssumption DEF TsOrdered, TsState
  <2>2. /\ q \in Seq(Nat) /\ Rising(q) /\ Under(q, t.next + 1)
        /\ Below(sent, q) /\ Under(sent, t.next + 1)
    BY <2>1, QueueRises DEF TsOrdered
  <2>3. Below(t.flushed, q) /\ Under(t.flushed, t.next + 1)
    BY Zenon, <2>1, QueueRises DEF TsOrdered
  <2>4. Enqueue(t) = FlushQueue(u)
    BY <1>2, <2>1 DEF Enqueue, Queued, TsState
  <2>5. k \in Int /\ n \in Nat
    BY <2>1 DEF TsState
  <2> HIDE DEF q, k, n
  <2>6. u \in TsState /\ u.queue = q /\ u.flushed = t.flushed /\ u.next = n
    BY Zenon, <2>1, <2>2, <2>5 DEF TsState
  <2> HIDE DEF u
  <2>7. TsOrdered(sent, u)
    BY <2>1, <2>2, <2>3, <2>6 DEF TsOrdered, n
  <2> QED
    BY <2>4, <2>7, FlushOrdered
<1> QED
  BY <1>1, <1>2

\* A step takes over what a method leaves: the flushed commands are sent.
LEMMA BecomesKeeps ==
    ASSUME NEW t, TsOrdered(tsSent, t), TsBecomes(t)
    PROVE  TsInv'
<1>1. t \in TsState /\ tsSent \in Seq(Nat) /\ t.flushed \in Seq(Nat) /\ t.queue \in Seq(Nat)
      /\ t.next \in Nat
  BY DEF TsOrdered, TsState
<1>2. tsSent' \in Seq(Nat) /\ Rising(tsSent')
  BY <1>1, SentRises DEF TsOrdered, TsBecomes
<1>3. <<>> \in Seq(Nat)
  OBVIOUS
<1>4. ts' \in TsState /\ ts'.flushed = <<>> /\ ts'.queue = t.queue /\ ts'.next = t.next
  BY Zenon, <1>1, <1>3 DEF TsState, TsBecomes
<1>5. Below(tsSent', t.queue) /\ Under(tsSent', t.next)
  BY <1>1, JoinUnder DEF TsOrdered, TsBecomes
<1> QED
  BY <1>1, <1>2, <1>4, <1>5, EmptyOrder DEF TsOrdered, TsInv

\* The steps that leave the queue alone.
LEMMA SocketKeeps ==
    ASSUME TsInv, NEW u \in TsState, u.queue = ts.queue, u.flushed = ts.flushed, u.next = ts.next
    PROVE  TsOrdered(tsSent, u)
  BY TsSameOrder DEF TsInv

\* handleOpen flushes the queue and queues the authentication.
LEMMA OpenOrdered ==
    ASSUME NEW sent, NEW t, TsOrdered(sent, t)
    PROVE  TsOrdered(sent, HandleOpen(t))
<1> DEFINE o == 1 - t.opens
           b == [t EXCEPT !.backoff = 0, !.opens = o]
           f == FlushQueue(b)
           g == IF TsKeys THEN Enqueue(f) ELSE f
           h == [g EXCEPT !.heart = TsBeats]
<1>1. t \in TsState /\ TsBeats \in BOOLEAN
  BY SdkTsAssumption DEF TsOrdered
<1>2. o \in Int
  BY <1>1 DEF TsState
<1>3. HandleOpen(t) = h
  BY <1>1 DEF HandleOpen, TsState
<1> HIDE DEF o
<1>4. b \in TsState /\ b.queue = t.queue /\ b.flushed = t.flushed /\ b.next = t.next
  <2>1. ASSUME NEW z \in Int
        PROVE  LET c == [t EXCEPT !.backoff = z, !.opens = o]
               IN  c \in TsState /\ c.queue = t.queue /\ c.flushed = t.flushed /\ c.next = t.next
    BY Zenon, <1>1, <1>2 DEF TsState
  <2>2. 0 \in Int
    OBVIOUS
  <2> QED
    BY <2>1, <2>2, Zenon
<1> HIDE DEF b
<1>5. TsOrdered(sent, b)
  BY <1>4, TsSameOrder
<1>6. TsOrdered(sent, f)
  BY <1>5, FlushOrdered
<1> HIDE DEF f
<1>7. TsOrdered(sent, g)
  BY <1>6, EnqueueOrdered
<1> HIDE DEF g
<1>8. g \in TsState
  BY <1>7 DEF TsOrdered
<1>9. h \in TsState /\ h.queue = g.queue /\ h.flushed = g.flushed /\ h.next = g.next
  BY Zenon, <1>1, <1>8 DEF TsState
<1> HIDE DEF h
<1>10. TsOrdered(sent, h)
  BY <1>7, <1>9, TsSameOrder
<1> QED
  BY <1>3, <1>10

\* handleClose stops the heartbeat and may set the timer.
LEMMA CloseOrdered ==
    ASSUME NEW sent, NEW t, TsOrdered(sent, t)
    PROVE  TsOrdered(sent, HandleClose(t))
<1> DEFINE r == t.timer \/ t.reconnect
           u == [t EXCEPT !.heart = FALSE, !.timer = r]
<1>1. t \in TsState
  BY DEF TsOrdered
<1>2. r \in BOOLEAN
  BY <1>1 DEF TsState
<1>3. HandleClose(t) = u
  BY <1>1 DEF HandleClose, ScheduleReconnect, TsState
<1> HIDE DEF r
<1>4. u \in TsState /\ u.queue = t.queue /\ u.flushed = t.flushed /\ u.next = t.next
  BY Zenon, <1>1, <1>2 DEF TsState
<1> HIDE DEF u
<1>5. TsOrdered(sent, u)
  BY <1>4, TsSameOrder
<1> QED
  BY <1>3, <1>5

\* Every step of the client keeps the order.
LEMMA TsStepKeeps == ASSUME TsInv, TsNext PROVE TsInv'
<1>1. ts \in TsState /\ TsOrdered(tsSent, ts)
  BY DEF TsInv, TsOrdered
<1>2. CASE Command \/ Heartbeat
  BY <1>1, <1>2, EnqueueOrdered, BecomesKeeps DEF Command, Heartbeat
<1>3. CASE CallConnect
  BY <1>1, <1>3, ConnectOrdered, BecomesKeeps DEF CallConnect
<1>4. CASE Refill
  <2> DEFINE k == ts.tokens + 1
             u == [ts EXCEPT !.tokens = k]
  <2>1. k \in Int /\ TsBecomes(u)
    BY <1>1, <1>4 DEF Refill, TsState
  <2> HIDE DEF k
  <2>2. u \in TsState /\ u.queue = ts.queue /\ u.flushed = ts.flushed /\ u.next = ts.next
    BY Zenon, <1>1, <2>1 DEF TsState
  <2> HIDE DEF u
  <2> QED
    BY <2>1, <2>2, SocketKeeps, BecomesKeeps
<1>5. CASE CallDisconnect
  <2> DEFINE l == IF ts.cur \in {"connecting", "open"} THEN 1 ELSE ts.left
             u == [ts EXCEPT !.reconnect = FALSE, !.heart = FALSE, !.timer = FALSE, !.cur = "none",
                             !.left = l]
  <2>1. l \in {0, 1} /\ TsBecomes(u)
    BY <1>1, <1>5 DEF CallDisconnect, TsState
  <2> HIDE DEF l
  <2>2. u \in TsState
    BY Zenon, <1>1, <2>1 DEF TsState
  <2>3. u.queue = ts.queue /\ u.flushed = ts.flushed /\ u.next = ts.next
    BY <1>1, <2>1 DEF TsState
  <2> HIDE DEF u
  <2> QED
    BY <2>1, <2>2, <2>3, SocketKeeps, BecomesKeeps
<1>6. CASE OpenCurrent
  <2> DEFINE u == [ts EXCEPT !.cur = "open"]
  <2>1. TsBecomes(HandleOpen(u))
    BY <1>6 DEF OpenCurrent
  <2>2. u \in TsState /\ u.queue = ts.queue /\ u.flushed = ts.flushed /\ u.next = ts.next
    BY Zenon, <1>1 DEF TsState
  <2> HIDE DEF u
  <2> QED
    BY <2>1, <2>2, SocketKeeps, OpenOrdered, BecomesKeeps
<1>7. CASE OpenOlder
  <2> DEFINE o == ts.older - 1
             u == [ts EXCEPT !.older = o, !.left = 1]
  <2>1. o \in Int /\ TsBecomes(HandleOpen(u))
    BY <1>1, <1>7 DEF OpenOlder, TsState
  <2> HIDE DEF o
  <2>2. u \in TsState /\ u.queue = ts.queue /\ u.flushed = ts.flushed /\ u.next = ts.next
    BY Zenon, <1>1, <2>1 DEF TsState
  <2> HIDE DEF u
  <2> QED
    BY <2>1, <2>2, SocketKeeps, OpenOrdered, BecomesKeeps
<1>8. CASE CloseCurrent
  <2> DEFINE u == [ts EXCEPT !.cur = "closed"]
  <2>1. TsBecomes(HandleClose(u))
    BY <1>8 DEF CloseCurrent
  <2>2. u \in TsState /\ u.queue = ts.queue /\ u.flushed = ts.flushed /\ u.next = ts.next
    BY Zenon, <1>1 DEF TsState
  <2> HIDE DEF u
  <2> QED
    BY <2>1, <2>2, SocketKeeps, CloseOrdered, BecomesKeeps
<1>9. CASE CloseOlder
  <2>1. CASE ts.older > 0 /\ TsBecomes(HandleClose([ts EXCEPT !.older = @ - 1]))
    <3> DEFINE o == ts.older - 1
               u == [ts EXCEPT !.older = o]
    <3>1. o \in Int /\ TsBecomes(HandleClose(u))
      BY <1>1, <2>1 DEF TsState
    <3> HIDE DEF o
    <3>2. u \in TsState /\ u.queue = ts.queue /\ u.flushed = ts.flushed /\ u.next = ts.next
      BY Zenon, <1>1, <3>1 DEF TsState
    <3> HIDE DEF u
    <3> QED
      BY <3>1, <3>2, SocketKeeps, CloseOrdered, BecomesKeeps
  <2>2. ASSUME NEW n \in 0..1, TsBecomes(HandleClose([ts EXCEPT !.left = n]))
        PROVE  TsInv'
    <3> DEFINE u == [ts EXCEPT !.left = n]
    <3>1. n \in {0, 1} /\ TsBecomes(HandleClose(u))
      BY <2>2
    <3>2. u \in TsState /\ u.queue = ts.queue /\ u.flushed = ts.flushed /\ u.next = ts.next
      BY Zenon, <1>1, <3>1 DEF TsState
    <3> HIDE DEF u
    <3> QED
      BY <3>1, <3>2, SocketKeeps, CloseOrdered, BecomesKeeps
  <2> QED
    BY <1>9, <2>1, <2>2 DEF CloseOlder
<1>10. CASE TimerFires
  <2> DEFINE u == [ts EXCEPT !.timer = FALSE]
             c == Connect(u)
             b == IF c.backoff < TsBackoff THEN c.backoff + 1 ELSE c.backoff
             v == [c EXCEPT !.backoff = b]
  <2>1. TsBecomes([c EXCEPT !.backoff = IF @ < TsBackoff THEN @ + 1 ELSE @])
    BY <1>10 DEF TimerFires
  <2>2. u \in TsState /\ u.queue = ts.queue /\ u.flushed = ts.flushed /\ u.next = ts.next
    BY Zenon, <1>1 DEF TsState
  <2> HIDE DEF u
  <2>3. TsOrdered(tsSent, c)
    BY <2>2, SocketKeeps, ConnectOrdered
  <2> HIDE DEF c
  <2>4. c \in TsState /\ b \in Int /\ TsBecomes(v)
    BY <2>1, <2>3 DEF TsOrdered, TsState
  <2> HIDE DEF b
  <2>5. v \in TsState /\ v.queue = c.queue /\ v.flushed = c.flushed /\ v.next = c.next
    BY Zenon, <2>4 DEF TsState
  <2> HIDE DEF v
  <2>6. TsOrdered(tsSent, v)
    BY <2>3, <2>5, TsSameOrder
  <2> QED
    BY <2>4, <2>6, BecomesKeeps
<1> QED
  BY <1>2, <1>3, <1>4, <1>5, <1>6, <1>7, <1>8, <1>9, <1>10 DEF TsNext

-----------------------------------------------------------------------------
(* The Rust client *)

RsState ==
    [conn : {"connecting", "waiting", "running", "draining", "ended"}, broken : BOOLEAN,
     queue : Seq(Nat), permit : BOOLEAN, hand : Nat, backoff : Int, next : Nat, stuck : BOOLEAN]

\* What was sent, the command in hand and the queue rise, below the next number.
RsInv ==
    /\ rs \in RsState /\ rsSent \in Seq(Nat)
    /\ Rising(rsSent) /\ Rising(rs.queue) /\ Below(rsSent, rs.queue)
    /\ Under(rsSent, rs.next) /\ Under(rs.queue, rs.next)
    /\ rs.next > 0 /\ Below(<<0>>, rs.queue)
    /\ rs.hand # 0 => /\ Under(rsSent, rs.hand) /\ rs.hand < rs.next
                      /\ Below(<<rs.hand>>, rs.queue)

\* The order depends on what was sent, the queue, the hand and the next number.
LEMMA RsSameOrder ==
    ASSUME RsInv, rs' \in RsState, rsSent' = rsSent,
           rs'.queue = rs.queue, rs'.hand \in {0, rs.hand}, rs'.next = rs.next
    PROVE  RsInv'
  BY DEF RsInv

\* send puts a command with the next number behind the queue.
LEMMA RsSendKeeps == ASSUME RsInv, RsSend PROVE RsInv'
<1> DEFINE q == Queued(rs.queue, RsBuffer, rs.next)
           n == rs.next + 1
<1>1. rs \in RsState /\ rsSent \in Seq(Nat) /\ rs.queue \in Seq(Nat) /\ rs.next \in Nat
      /\ rs.hand \in Nat /\ RsBuffer \in Nat \ {0}
  BY SdkRustAssumption DEF RsInv, RsState
<1>2. /\ q \in Seq(Nat) /\ Rising(q) /\ Under(q, n)
      /\ Below(rsSent, q) /\ Under(rsSent, n)
  BY <1>1, QueueRises DEF RsInv
<1>3. /\ <<0>> \in Seq(Nat) /\ Under(<<0>>, rs.next)
  BY <1>1 DEF RsInv, Under
<1>4. Below(<<0>>, q)
  BY Zenon, <1>1, <1>3, QueueRises DEF RsInv
<1>5. rs.hand # 0 => Below(<<rs.hand>>, q)
  <2>1. <<rs.hand>> \in Seq(Nat)
    BY <1>1
  <2>2. rs.hand # 0 => Under(<<rs.hand>>, rs.next)
    BY <1>1 DEF RsInv, Under
  <2> QED
    BY Zenon, <1>1, <2>1, <2>2, QueueRises DEF RsInv
<1>6. rs' = [rs EXCEPT !.queue = q, !.next = n, !.permit = TRUE] /\ rsSent' = rsSent
  BY <1>1 DEF RsSend, Queued, RsState
<1>7. n \in Nat /\ n > 0 /\ \A h \in Nat : h < rs.next => h < n
  BY <1>1
<1> HIDE DEF q, n
<1>8. rs' \in RsState /\ rs'.queue = q /\ rs'.hand = rs.hand /\ rs'.next = n
  BY Zenon, <1>1, <1>2, <1>6, <1>7 DEF RsState
<1> QED
  BY <1>1, <1>2, <1>4, <1>5, <1>6, <1>7, <1>8 DEF RsInv

\* The connection task takes a command in hand.
LEMMA DrainKeeps == ASSUME RsInv, Drain PROVE RsInv'
<1>1. rs \in RsState /\ rsSent \in Seq(Nat) /\ rs.queue \in Seq(Nat) /\ rs.next \in Nat
  BY DEF RsInv, RsState
<1>2. CASE rs.queue = <<>>
  <2>1. rs' = [rs EXCEPT !.conn = "running", !.stuck = FALSE] /\ rsSent' = rsSent
    BY <1>2 DEF Drain
  <2>2. rs' \in RsState /\ rs'.queue = rs.queue /\ rs'.hand = rs.hand /\ rs'.next = rs.next
    BY Zenon, <1>1, <2>1 DEF RsState
  <2> QED
    BY <2>1, <2>2, RsSameOrder
<1>3. CASE rs.queue # <<>>
  <2> DEFINE h == Head(rs.queue)
             q == Tail(rs.queue)
  <2>1. rs' = [rs EXCEPT !.hand = h, !.queue = q] /\ rsSent' = rsSent
    BY <1>3 DEF Drain
  <2>2. /\ h \in Nat /\ q \in Seq(Nat) /\ Len(q) = Len(rs.queue) - 1 /\ h = rs.queue[1]
        /\ 1 \in 1..Len(rs.queue)
        /\ \A i \in 1..Len(q) : i + 1 \in 1..Len(rs.queue) /\ q[i] = rs.queue[i + 1]
    BY <1>1, <1>3
  <2> HIDE DEF h, q
  <2>3. rs' \in RsState /\ rs'.queue = q /\ rs'.hand = h /\ rs'.next = rs.next
    BY Zenon, <1>1, <2>1, <2>2 DEF RsState
  <2>4. ASSUME NEW i \in 1..Len(q), NEW j \in 1..Len(q), i < j PROVE q[i] < q[j]
    <3>1. i + 1 \in 1..Len(rs.queue) /\ j + 1 \in 1..Len(rs.queue) /\ i + 1 < j + 1
      BY <2>2, <2>4
    <3>2. rs.queue[i + 1] < rs.queue[j + 1]
      BY <3>1 DEF RsInv, Rising
    <3> QED
      BY <2>2, <3>2
  <2>5. ASSUME NEW i \in 1..Len(q)
        PROVE  /\ h < q[i] /\ q[i] < rs.next /\ 0 < q[i]
               /\ \A k \in 1..Len(rsSent) : rsSent[k] < q[i]
    <3>1. i + 1 \in 1..Len(rs.queue) /\ 1 < i + 1 /\ q[i] = rs.queue[i + 1]
      BY <2>2, SMTT(30)
    <3>2. rs.queue[1] < rs.queue[i + 1]
      BY <2>2, <3>1 DEF RsInv, Rising
    <3>3. rs.queue[i + 1] < rs.next /\ \A k \in 1..Len(rsSent) : rsSent[k] < rs.queue[i + 1]
      BY <3>1 DEF RsInv, Under, Below
    <3>4. 0 < rs.queue[i + 1]
      BY <3>1 DEF RsInv, Below
    <3> QED
      BY <2>2, <3>1, <3>2, <3>3, <3>4
  <2>6. h < rs.next /\ \A k \in 1..Len(rsSent) : rsSent[k] < h
    BY <2>2 DEF RsInv, Under, Below
  <2>7. /\ Rising(q) /\ Under(q, rs.next) /\ Below(<<h>>, q) /\ Below(<<0>>, q)
        /\ Below(rsSent, q) /\ Under(rsSent, h)
    BY <2>4, <2>5, <2>6 DEF Rising, Under, Below
  <2> QED
    BY <1>1, <2>1, <2>3, <2>6, <2>7 DEF RsInv
<1> QED
  BY <1>2, <1>3

\* The command in hand is written.
LEMMA SendCommandKeeps == ASSUME RsInv, SendCommand PROVE RsInv'
<1> DEFINE s == Append(rsSent, rs.hand)
<1>1. rs \in RsState /\ rsSent \in Seq(Nat) /\ rs.queue \in Seq(Nat) /\ rs.next \in Nat
      /\ rs.hand \in Nat
  BY DEF RsInv, RsState
<1>2. rs.hand # 0 /\ rsSent' = s /\ rs' = [rs EXCEPT !.hand = 0]
  BY DEF SendCommand
<1>3. rs' \in RsState /\ rs'.queue = rs.queue /\ rs'.hand = 0 /\ rs'.next = rs.next
  BY Zenon, <1>1, <1>2 DEF RsState
<1>4. /\ s \in Seq(Nat) /\ Len(s) = Len(rsSent) + 1 /\ s[Len(rsSent) + 1] = rs.hand
      /\ \A i \in 1..Len(rsSent) : s[i] = rsSent[i]
  BY <1>1
<1> HIDE DEF s
<1>5. ASSUME NEW i \in 1..Len(s), NEW j \in 1..Len(s), i < j PROVE s[i] < s[j]
  <2>0. Len(rsSent) \in Nat /\ Len(s) = Len(rsSent) + 1 /\ i <= Len(rsSent)
    BY <1>1, <1>4, <1>5
  <2>1. i \in 1..Len(rsSent) /\ s[i] = rsSent[i]
    BY <1>4, <2>0
  <2>2. CASE j = Len(s)
    <3>1. rsSent[i] < rs.hand
      BY <1>2, <2>1 DEF RsInv, Under
    <3> QED
      BY <1>1, <1>4, <2>1, <2>2, <3>1
  <2>3. CASE j # Len(s)
    <3>1. j \in 1..Len(rsSent) /\ s[j] = rsSent[j]
      BY <1>1, <1>4, <2>3
    <3>2. rsSent[i] < rsSent[j]
      BY <1>5, <2>1, <3>1 DEF RsInv, Rising
    <3> QED
      BY <2>1, <3>1, <3>2
  <2> QED
    BY <2>2, <2>3
<1>6. ASSUME NEW i \in 1..Len(s)
      PROVE  s[i] < rs.next /\ \A k \in 1..Len(rs.queue) : s[i] < rs.queue[k]
  <2>1. CASE i = Len(s)
    <3>1. rs.hand < rs.next /\ Below(<<rs.hand>>, rs.queue)
      BY <1>2 DEF RsInv
    <3>2. \A k \in 1..Len(rs.queue) : rs.hand < rs.queue[k]
      <4>1. 1 \in 1..Len(<<rs.hand>>) /\ <<rs.hand>>[1] = rs.hand
        OBVIOUS
      <4> QED
        BY <3>1, <4>1 DEF Below
    <3> QED
      BY <1>1, <1>4, <2>1, <3>1, <3>2
  <2>2. CASE i # Len(s)
    <3>1. i \in 1..Len(rsSent) /\ s[i] = rsSent[i]
      BY <1>1, <1>4, <2>2
    <3> QED
      BY <3>1 DEF RsInv, Under, Below
  <2> QED
    BY <2>1, <2>2
<1>7. Rising(s) /\ Under(s, rs.next) /\ Below(s, rs.queue)
  BY <1>5, <1>6 DEF Rising, Under, Below
<1> QED
  BY <1>1, <1>2, <1>3, <1>4, <1>7 DEF RsInv

\* Connecting, waiting, breaking and giving up leave the queue alone.
LEMMA TaskKeeps ==
    ASSUME RsInv,
           \/ Connected \/ AttemptFails \/ Delay \/ Breaks \/ Noticed \/ Notified \/ SendFails
    PROVE  RsInv'
<1>1. rs \in RsState /\ RsReconnect \in BOOLEAN
  BY SdkRustAssumption DEF RsInv
<1> DEFINE c == IF RsReconnect THEN "waiting" ELSE "ended"
<1>2. ASSUME NEW r \in RsState
      PROVE  /\ Down(r) \in RsState /\ Down(r).queue = r.queue /\ Down(r).hand = r.hand
             /\ Down(r).next = r.next
  <2>1. c \in {"waiting", "ended"} /\ Down(r) = [r EXCEPT !.conn = c, !.broken = FALSE]
    BY DEF Down
  <2> HIDE DEF c
  <2> QED
    BY Zenon, <2>1 DEF RsState
<1> HIDE DEF c
<1> SUFFICES /\ rs' \in RsState /\ rsSent' = rsSent /\ rs'.queue = rs.queue
             /\ rs'.hand \in {0, rs.hand} /\ rs'.next = rs.next
  BY RsSameOrder
<1>3. CASE Connected
  BY <1>1, <1>3 DEF Connected, RsState
<1>4. CASE AttemptFails
  BY <1>1, <1>2, <1>4 DEF AttemptFails
<1>5. CASE Delay
  <2> DEFINE b == IF rs.backoff < RsBackoff THEN rs.backoff + 1 ELSE rs.backoff
  <2>1. b \in Int /\ rs' = [rs EXCEPT !.conn = "connecting", !.backoff = b] /\ rsSent' = rsSent
    BY <1>1, <1>5 DEF Delay, RsState
  <2> HIDE DEF b
  <2> QED
    BY Zenon, <1>1, <2>1 DEF RsState
<1>6. CASE Breaks
  BY Zenon, <1>1, <1>6 DEF Breaks, RsState
<1>7. CASE Noticed
  <2>1. rs' = [Down(rs) EXCEPT !.backoff = 0] /\ rsSent' = rsSent
    BY <1>7 DEF Noticed
  <2>2. ASSUME NEW r \in RsState, NEW z \in Int
        PROVE  LET d == [r EXCEPT !.backoff = z]
               IN  d \in RsState /\ d.queue = r.queue /\ d.hand = r.hand /\ d.next = r.next
    BY DEF RsState
  <2>3. 0 \in Int
    OBVIOUS
  <2>4. /\ rs' \in RsState /\ rs'.queue = Down(rs).queue /\ rs'.hand = Down(rs).hand
        /\ rs'.next = Down(rs).next
    BY <1>1, <1>2, <2>1, <2>2, <2>3
  <2> QED
    BY <1>1, <1>2, <2>1, <2>4
<1>8. CASE Notified
  BY Zenon, <1>1, <1>8 DEF Notified, RsState
<1>9. CASE SendFails
  <2> DEFINE k == rs.queue # <<>>
  <2>1. /\ k \in BOOLEAN /\ rsSent' = rsSent
        /\ rs' = [rs EXCEPT !.hand = 0, !.conn = "running", !.stuck = k]
    BY <1>9 DEF SendFails
  <2> HIDE DEF k
  <2> QED
    BY Zenon, <1>1, <2>1 DEF RsState
<1> QED
  BY <1>3, <1>4, <1>5, <1>6, <1>7, <1>8, <1>9

-----------------------------------------------------------------------------
(* Theorems *)

\* Both clients begin with nothing sent and nothing queued.
LEMMA InitSdk == SdkInit => TsInv /\ RsInv
<1> SUFFICES ASSUME TsInit, RsInit PROVE TsInv /\ RsInv
  BY DEF SdkInit
<1>1. TsRate \in Int /\ 1 \in Nat /\ <<>> \in Seq(Nat)
  BY SdkTsAssumption
<1>2. ts \in TsState /\ ts.queue = <<>> /\ ts.flushed = <<>> /\ tsSent = <<>>
  <2>1. ASSUME NEW z \in Int, NEW l \in {0, 1}, NEW n \in Nat, NEW r \in Int, NEW q \in Seq(Nat)
        PROVE  [cur |-> "none", older |-> z, left |-> l, timer |-> FALSE, heart |-> FALSE,
                reconnect |-> TRUE, backoff |-> z, queue |-> q, tokens |-> r, next |-> n,
                opens |-> z, flushed |-> q] \in TsState
    BY DEF TsState
  <2>2. 0 \in Int /\ 0 \in {0, 1}
    OBVIOUS
  <2>3. ts \in TsState
    BY <1>1, <2>1, <2>2, Zenon DEF TsInit
  <2> QED
    BY <2>3 DEF TsInit
<1>3. TsInv
  BY Zenon, <1>1, <1>2, EmptyOrder DEF TsInv, TsOrdered
<1>4. rs \in RsState /\ rs.queue = <<>> /\ rs.hand = 0 /\ rs.next = 1 /\ rsSent = <<>>
  BY <1>1 DEF RsInit, RsState
<1>5. Below(<<0>>, <<>>) /\ rs.next > 0
  BY <1>4 DEF Below
<1>6. /\ Rising(rsSent) /\ Rising(rs.queue) /\ Below(rsSent, rs.queue)
      /\ Under(rsSent, rs.next) /\ Under(rs.queue, rs.next) /\ Below(<<0>>, rs.queue)
  BY <1>1, <1>4, <1>5, EmptyOrder, Zenon
<1>7. RsInv
  BY <1>1, <1>4, <1>5, <1>6 DEF RsInv
<1> QED
  BY <1>3, <1>7

\* Every command reaches a socket at most once and in the order in which the
\* client took it, in both clients: through full queues, lost connections,
\* reconnections, superseded sockets and failed writes.
THEOREM SdkOrder == SdkSpec => []SdkSentInOrder
<1>1. TsInv /\ RsInv /\ [SdkNext]_sdkVars => TsInv' /\ RsInv'
  <2> SUFFICES ASSUME TsInv, RsInv, [SdkNext]_sdkVars PROVE TsInv' /\ RsInv'
    OBVIOUS
  <2>1. UNCHANGED tsVars => TsInv'
    BY DEF tsVars, TsInv, TsOrdered
  <2>2. UNCHANGED rsVars => RsInv'
    BY DEF rsVars, RsInv
  <2>3. TsNext => TsInv'
    BY TsStepKeeps
  <2>4. RsNext => RsInv'
    BY RsSendKeeps, DrainKeeps, SendCommandKeeps, TaskKeeps DEF RsNext, RsCommand
  <2> QED
    BY <2>1, <2>2, <2>3, <2>4 DEF SdkNext, sdkVars
<1>2. TsInv /\ RsInv => SdkSentInOrder
  <2> SUFFICES ASSUME NEW s \in Seq(Nat), Rising(s)
               PROVE  \A i \in 2 .. Len(s) : s[i - 1] < s[i]
    BY DEF TsInv, TsOrdered, RsInv, SdkSentInOrder, TsSentInOrder, RsSentInOrder
  <2> TAKE i \in 2 .. Len(s)
  <2>1. i - 1 \in 1..Len(s) /\ i \in 1..Len(s) /\ i - 1 < i
    OBVIOUS
  <2> QED
    BY <2>1 DEF Rising
<1> QED
  BY <1>1, <1>2, InitSdk, PTL DEF SdkSpec

-----------------------------------------------------------------------------
(***************************************************************************)
(* Slowdowns of the life loop are undone, for every configuration of ticks *)
(* and phases and whatever the field measures.                             *)
(***************************************************************************)

Metrics == [sleep : 0..3, low : BOOLEAN]

LoopState ==
    [tick : Nat \ {0}, restore : Nat, slowedOnce : BOOLEAN, active : BOOLEAN, left : Int,
     saved : Nat, sinceMetrics : Int, sinceDream : Int, sincePhase : Int, metrics : Metrics]

\* A phase has saved a tick, and only a phase.
Sane(l) == l \in LoopState /\ (l.active <=> l.saved > 0)

\* l is k with pending slowdowns kept or ended, but none begun.
Eased(l, k) ==
    /\ Sane(l)
    /\ l.restore \in {k.restore, 0}
    /\ \/ l.active = k.active /\ l.saved = k.saved
       \/ ~ l.active /\ l.saved = 0

\* The inductive invariant: pending slowdowns have a base.
LifeInv ==
    /\ Sane(loop) /\ base \in Nat /\ overlap \in BOOLEAN
    /\ Pending(loop) => base > 0
    /\ SlowdownsUndone

-----------------------------------------------------------------------------
(* The parts of an iteration *)

\* The clamps keep a tick positive.
LEMMA TickPositive ==
    ASSUME NEW n \in Int, NEW lo \in Nat \ {0}, NEW hi \in Nat \ {0}
    PROVE  Between(n, lo, hi) \in Nat \ {0}
  BY DEF Between

\* Slowing down keeps a tick positive.
LEMMA SlowerPositive ==
    ASSUME NEW n \in Nat \ {0}, NEW percent \in Nat
    PROVE  Slower(n, percent) \in Nat \ {0}
<1> DEFINE s == (n * percent + 50) \div 100
           m == IF s <= n THEN n + 1 ELSE s
<1>1. s \in Int
  OBVIOUS
<1> HIDE DEF s
<1>2. m \in Int
  BY <1>1
<1>3. Slower(n, percent) = Between(m, MinTick, MaxTick)
  BY DEF Slower, s
<1> HIDE DEF m
<1> QED
  BY Zenon, <1>2, <1>3, TickPositive, LifeAssumption

\* The regulator and the hints keep a tick positive.
LEMMA HintedPositive ==
    ASSUME NEW n \in Nat \ {0}, NEW adjust \in Int, NEW m, NEW late \in BOOLEAN
    PROVE  Hinted(Between(n + adjust, MinTick, RegMax), m, late) \in Nat \ {0}
<1> DEFINE a == n + adjust
           t == Between(a, MinTick, RegMax)
           u == IF SlowHint(m) THEN UpTo(t + SlowStep, SlowMax) ELSE t
<1>1. t \in Nat \ {0}
  <2>1. a \in Int /\ MinTick \in Nat \ {0} /\ RegMax \in Nat \ {0}
    BY LifeAssumption
  <2> HIDE DEF a
  <2> QED
    BY <2>1, TickPositive
<1> HIDE DEF t
<1>2. u \in Nat \ {0}
  BY <1>1, LifeAssumption DEF UpTo
<1>3. Hinted(t, m, late) = IF late /\ u > FastMin THEN Between(u - FastStep, FastMin, u) ELSE u
  BY DEF Hinted
<1> HIDE DEF u
<1> DEFINE f == u - FastStep
<1>4. Between(f, FastMin, u) \in Nat \ {0}
  <2>1. f \in Int /\ FastMin \in Nat \ {0}
    BY <1>2, LifeAssumption
  <2> HIDE DEF f
  <2> QED
    BY <1>2, <2>1, TickPositive
<1>5. Hinted(t, m, late) \in Nat \ {0}
  BY <1>2, <1>3, <1>4
<1> QED
  BY <1>5 DEF t

\* Waking puts the tick back that a dream saved.
LEMMA WokenEases == ASSUME NEW l, Sane(l) PROVE Eased(Woken(l), l)
<1>1. l \in LoopState
  BY DEF Sane
<1>2. CASE l.restore > 0 /\ l.slowedOnce
  <2> DEFINE w == [l EXCEPT !.tick = l.restore, !.restore = 0, !.slowedOnce = FALSE]
  <2>1. Woken(l) = w /\ l.restore \in Nat \ {0}
    BY <1>1, <1>2 DEF Woken, LoopState
  <2>2. ASSUME NEW z \in Nat
        PROVE  [l EXCEPT !.tick = l.restore, !.restore = z, !.slowedOnce = FALSE] \in LoopState
    BY Zenon, <1>1, <2>1 DEF LoopState
  <2>3. w \in LoopState
    BY Zenon, <2>2
  <2>4. w.restore = 0 /\ w.active = l.active /\ w.saved = l.saved
    BY <1>1 DEF LoopState
  <2> HIDE DEF w
  <2> QED
    BY <2>1, <2>3, <2>4 DEF Eased, Sane
<1>3. CASE ~ (l.restore > 0 /\ l.slowedOnce)
  BY <1>3 DEF Woken, Eased, Sane
<1> QED
  BY <1>2, <1>3

\* Sleeping moves the timers only.
LEMMA SleptEases == ASSUME NEW l, Sane(l) PROVE Eased(Slept(l), l)
<1> DEFINE a == l.slowedOnce \/ l.restore > 0
           b == IF l.left > l.tick THEN l.left - l.tick ELSE 0
           c == UpTo(l.sinceDream + l.tick, MinIdle + 1)
           d == UpTo(l.sincePhase + l.tick, PhaseGap)
           s == [l EXCEPT !.slowedOnce = a, !.left = b, !.sinceDream = c, !.sincePhase = d]
<1>1. l \in LoopState
  BY DEF Sane
<1>2. a \in BOOLEAN /\ b \in Int /\ c \in Int /\ d \in Int
  BY <1>1, LifeAssumption DEF LoopState, UpTo
<1>3. Slept(l) = s
  BY <1>1 DEF Slept, LoopState
<1> HIDE DEF a, b, c, d
<1>4. s \in LoopState
  BY Zenon, <1>1, <1>2 DEF LoopState
<1>5. s.restore = l.restore /\ s.active = l.active /\ s.saved = l.saved
  BY <1>1 DEF LoopState
<1> HIDE DEF s
<1> QED
  BY <1>3, <1>4, <1>5 DEF Eased, Sane

\* The end of a phase puts the tick back that it saved.
LEMMA PhaseEndEases == ASSUME NEW l, Sane(l) PROVE Eased(PhaseEnded(l), l)
<1>1. l \in LoopState
  BY DEF Sane
<1>2. CASE l.active /\ l.left = 0
  <2> DEFINE e == [l EXCEPT !.active = FALSE, !.sincePhase = 0, !.tick = l.saved, !.saved = 0]
  <2>1. PhaseEnded(l) = e /\ l.saved \in Nat \ {0}
    BY <1>1, <1>2 DEF PhaseEnded, LoopState, Sane
  <2>2. ASSUME NEW y \in Int, NEW z \in Nat
        PROVE  [l EXCEPT !.active = FALSE, !.sincePhase = y, !.tick = l.saved, !.saved = z] \in LoopState
    BY Zenon, <1>1, <2>1 DEF LoopState
  <2>3. e \in LoopState
    <3>1. 0 \in Nat /\ 0 \in Int
      OBVIOUS
    <3> QED
      BY <2>2, <3>1, Zenon
  <2>4. e.restore = l.restore /\ ~ e.active /\ e.saved = 0
    BY <1>1 DEF LoopState
  <2> HIDE DEF e
  <2> QED
    BY <2>1, <2>3, <2>4 DEF Eased, Sane
<1>3. CASE ~ (l.active /\ l.left = 0)
  BY Zenon, <1>3 DEF PhaseEnded, Eased, Sane
<1> QED
  BY <1>2, <1>3

\* Counting the time since the last metrics moves a timer only.
LEMMA CountedEases == ASSUME NEW l, Sane(l) PROVE Eased(Counted(l), l)
<1> DEFINE n == l.sinceMetrics + l.tick
           c == [l EXCEPT !.sinceMetrics = n]
<1>1. l \in LoopState
  BY DEF Sane
<1>2. n \in Int /\ Counted(l) = c
  BY <1>1 DEF Counted, LoopState
<1> HIDE DEF n
<1>3. c \in LoopState /\ c.restore = l.restore /\ c.active = l.active /\ c.saved = l.saved
  BY <1>1, <1>2 DEF LoopState
<1> HIDE DEF c
<1> QED
  BY <1>2, <1>3 DEF Eased, Sane

\* The regulator and the hints change the tick in force only.
LEMMA RegulatedEases ==
    ASSUME NEW l, Sane(l), NEW m \in Measures, NEW adjust \in TrsAdjust, NEW late \in BOOLEAN
    PROVE  Eased(Regulated(l, m, adjust, late), l)
<1> DEFINE t == Hinted(Between(l.tick + adjust, MinTick, RegMax), m, late)
           r == [l EXCEPT !.tick = t, !.metrics = m, !.sinceMetrics = 0]
<1>1. l \in LoopState /\ adjust \in Int /\ m \in Metrics
  BY LifeAssumption DEF Sane, Metrics
<1>2. t \in Nat \ {0}
  BY <1>1, HintedPositive DEF LoopState
<1>3. Regulated(l, m, adjust, late) = r
  BY <1>1 DEF Regulated, LoopState
<1> HIDE DEF t
<1>4. ASSUME NEW z \in Int PROVE [l EXCEPT !.tick = t, !.metrics = m, !.sinceMetrics = z] \in LoopState
  BY Zenon, <1>1, <1>2 DEF LoopState
<1>5. r \in LoopState
  <2>1. 0 \in Int
    OBVIOUS
  <2> QED
    BY <1>4, <2>1, Zenon
<1>6. r.restore = l.restore /\ r.active = l.active /\ r.saved = l.saved
  BY <1>1 DEF LoopState
<1> HIDE DEF r
<1> QED
  BY <1>3, <1>5, <1>6 DEF Eased, Sane

\* An awakening changes the tick in force only.
LEMMA AwakenedEases ==
    ASSUME NEW l, Sane(l), NEW adjust \in AwakenAdjust
    PROVE  LET w == Awakened(l, adjust)
           IN  Sane(w) /\ w.restore = l.restore /\ w.active = l.active /\ w.saved = l.saved
<1> DEFINE n == l.tick + adjust
           t == Between(n, MinTick, MaxTick)
           w == [l EXCEPT !.tick = t]
<1>1. l \in LoopState /\ adjust \in Int /\ MinTick \in Nat \ {0} /\ MaxTick \in Nat \ {0}
  BY LifeAssumption DEF Sane
<1>2. n \in Int
  BY <1>1 DEF LoopState
<1>3. Awakened(l, adjust) = IF adjust = 0 THEN l ELSE w
  BY <1>1 DEF Awakened, LoopState
<1> HIDE DEF n
<1>4. t \in Nat \ {0}
  BY <1>1, <1>2, TickPositive
<1> HIDE DEF t
<1>5. w \in LoopState /\ w.restore = l.restore /\ w.active = l.active /\ w.saved = l.saved
  BY <1>1, <1>4 DEF LoopState
<1> HIDE DEF w
<1> QED
  BY <1>3, <1>5 DEF Sane

\* A dream saves the tick it finds, unless an earlier dream's is still saved.
LEMMA DreamSaves ==
    ASSUME NEW l, Sane(l), NEW m \in Measures, NEW adjust \in AwakenAdjust
    PROVE  LET d == Dreamed(l, m, adjust)
           IN  /\ Sane(d) /\ d.active = l.active /\ d.saved = l.saved
               /\ d.restore = IF l.restore > 0 THEN l.restore ELSE l.tick
<1> DEFINE r == IF l.restore > 0 THEN l.restore ELSE l.tick
           t == Slower(l.tick, 115)
           d == [l EXCEPT !.sinceDream = 0, !.restore = r, !.slowedOnce = FALSE, !.tick = t,
                          !.metrics = m]
<1>1. l \in LoopState /\ m \in Metrics
  BY LifeAssumption DEF Sane, Metrics
<1>2. r \in Nat /\ t \in Nat \ {0}
  BY <1>1, SlowerPositive DEF LoopState
<1>3. Dreamed(l, m, adjust) = Awakened(d, adjust)
  BY <1>1 DEF Dreamed, LoopState
<1> HIDE DEF r, t
<1>4. ASSUME NEW z \in Int
      PROVE  [l EXCEPT !.sinceDream = z, !.restore = r, !.slowedOnce = FALSE, !.tick = t,
                       !.metrics = m] \in LoopState
  BY Zenon, <1>1, <1>2 DEF LoopState
<1>5. d \in LoopState
  <2>1. 0 \in Int
    OBVIOUS
  <2> QED
    BY <1>4, <2>1, Zenon
<1>6. d.restore = r /\ d.active = l.active /\ d.saved = l.saved
  BY <1>1 DEF LoopState
<1> HIDE DEF d
<1>7. Sane(d)
  BY <1>5, <1>6 DEF Sane
<1> QED
  BY <1>3, <1>6, <1>7, AwakenedEases DEF r

\* A collective dream saves what the pending dream saved or else the tick.
LEMMA SharedSaves ==
    ASSUME NEW l, Sane(l), ~ l.active, NEW m \in Measures, NEW adjust \in AwakenAdjust
    PROVE  LET s == Shared(l, m, adjust)
           IN  /\ Sane(s) /\ s.active /\ s.restore = l.restore /\ s.saved > 0
               /\ l.restore > 0 => s.saved = l.restore
<1> DEFINE k == [l EXCEPT !.metrics = m]
           w == Awakened(k, adjust)
           b == Baseline(w)
           t == Slower(w.tick, 110)
           s == [w EXCEPT !.active = TRUE, !.left = PhaseLen, !.saved = b, !.tick = t]
<1>1. l \in LoopState /\ m \in Metrics /\ PhaseLen \in Int
  BY LifeAssumption DEF Sane, Metrics
<1>2. k \in LoopState /\ k.restore = l.restore /\ k.active = l.active /\ k.saved = l.saved
  BY <1>1 DEF LoopState
<1> HIDE DEF k
<1>3. Sane(k)
  BY <1>2 DEF Sane
<1>4. Sane(w) /\ w.restore = l.restore /\ w.active = l.active /\ w.saved = l.saved
  BY <1>2, <1>3, AwakenedEases
<1>5. Shared(l, m, adjust) = s
  BY <1>4 DEF Shared, k, Sane, LoopState
<1> HIDE DEF w
<1>6. w \in LoopState
  BY <1>4 DEF Sane
<1>7. b \in Nat \ {0} /\ (l.restore > 0 => b = l.restore) /\ t \in Nat \ {0}
  BY <1>4, <1>6, SlowerPositive DEF Baseline, LoopState
<1> HIDE DEF b, t
<1>8. s \in LoopState /\ s.active /\ s.saved = b /\ s.restore = w.restore
  BY Zenon, <1>1, <1>6, <1>7 DEF LoopState
<1> HIDE DEF s
<1>9. Sane(s) /\ s.saved > 0
  BY <1>7, <1>8 DEF Sane
<1> QED
  BY <1>4, <1>5, <1>7, <1>8, <1>9

-----------------------------------------------------------------------------
(* An iteration *)

\* What LifeInv says of a loop's locals before the history is updated.
Undone(l) ==
    /\ Sane(l)
    /\ Pending(l) => base > 0
    /\ ~ overlap => (l.restore > 0 => l.restore = base) /\ (l.active => l.saved = base)

\* Ending slowdowns keeps it.
LEMMA EasedUndone == ASSUME NEW l, NEW k, Undone(k), Eased(l, k) PROVE Undone(l)
<1>1. l \in LoopState /\ k \in LoopState
  BY DEF Eased, Undone, Sane
<1> QED
  BY <1>1 DEF Eased, Undone, Sane, Pending, LoopState

\* The dreams of an iteration keep it: the base is the tick before the first
\* slowdown, and a dream inside a phase is counted as an overlap.
LEMMA DreamPartKeeps ==
    ASSUME base \in Nat, overlap \in BOOLEAN, NEW l, Undone(l), NEW age, DreamPart(l, age)
    PROVE  LifeInv'
<1>1. PICK dreams \in {FALSE, Dreamy(l)} :
        \E d \in Dreams(l, dreams) : \E age1 \in {IF dreams THEN 0 ELSE age} :
        \E e \in Shares(l, d, age1) : loop' = e /\ dreamAge' = age1 /\ Remembered(l, dreams, e)
  BY Zenon DEF DreamPart
<1>2. PICK d \in Dreams(l, dreams), age1 \in {IF dreams THEN 0 ELSE age} :
        \E e \in Shares(l, d, age1) : loop' = e /\ dreamAge' = age1 /\ Remembered(l, dreams, e)
  BY <1>1
<1>3. PICK e \in Shares(l, d, age1) : loop' = e /\ Remembered(l, dreams, e)
  BY <1>2
<1>4. /\ Sane(l) /\ l.tick \in Nat \ {0} /\ l.restore \in Nat /\ l.saved \in Nat
      /\ l.active \in BOOLEAN
  BY DEF Undone, Sane, LoopState
<1>9. dreams \in BOOLEAN
  BY Zenon DEF Dreamy
<1>5. /\ Sane(d) /\ d.active = l.active /\ d.saved = l.saved
      /\ d.restore = IF dreams /\ l.restore = 0 THEN l.tick ELSE l.restore
  <2>1. CASE dreams
    <3>1. PICK m \in Measures, a \in AwakenAdjust : d = Dreamed(l, m, a)
      BY <1>2, <2>1 DEF Dreams
    <3> QED
      BY <1>4, <2>1, <3>1, DreamSaves
  <2>2. CASE ~ dreams
    BY <1>2, <1>4, <2>2 DEF Dreams
  <2> QED
    BY <2>1, <2>2
<1>6. /\ Sane(e) /\ e.restore = d.restore
      /\ \/ e.active = d.active /\ e.saved = d.saved
         \/ ~ d.active /\ e.active /\ e.saved > 0 /\ (d.restore > 0 => e.saved = d.restore)
  <2>1. CASE e = d
    BY <1>5, <2>1
  <2>2. CASE e # d
    <3>1. PICK m \in Measures, a \in AwakenAdjust : e = Shared(d, m, a)
      BY <1>3, <2>2 DEF Shares
    <3>2. ~ d.active
      BY <1>3, <2>2 DEF Shareable, Shares
    <3> QED
      BY Zenon, <1>5, <3>1, <3>2, SharedSaves
  <2> QED
    BY <2>1, <2>2
<1>7. e.restore \in Nat /\ e.saved \in Nat /\ e.active \in BOOLEAN
  BY <1>6 DEF Sane, LoopState
<1>8. /\ loop' = e
      /\ ~ Pending(e) => base' = 0
      /\ Pending(e) /\ Pending(l) => base' = base
      /\ Pending(e) /\ ~ Pending(l) /\ dreams => base' = l.tick
      /\ Pending(e) /\ ~ Pending(l) /\ ~ dreams => base' = e.saved
      /\ overlap' = (Pending(e) /\ ((Pending(l) /\ overlap) \/ (dreams /\ l.active)))
  <2>1. Pending(l) => base > 0
    BY DEF Undone
  <2>2. base' = IF ~Pending(e) THEN 0
                ELSE IF Pending(l) /\ base > 0 THEN base
                ELSE IF dreams THEN l.tick
                ELSE e.saved
    BY <1>3 DEF Remembered
  <2>3. loop' = e /\ overlap' = (Pending(e) /\ ((Pending(l) /\ overlap) \/ (dreams /\ l.active)))
    BY <1>3 DEF Remembered
  <2>4. ~ Pending(e) => base' = 0
    BY <2>2
  <2>5. Pending(e) /\ Pending(l) => base' = base
    BY <1>4, <2>1, <2>2 DEF Pending
  <2> QED
    BY <2>1, <2>2, <2>3, <2>4, <2>5
<1>10. Pending(l) => Pending(e)
  BY <1>4, <1>5, <1>6 DEF Pending
<1>11. base' \in Nat /\ (Pending(e) => base' > 0)
  <2>1. CASE Pending(e) /\ ~ Pending(l) /\ ~ dreams
    BY <1>4, <1>5, <1>6, <1>7, <1>8, <2>1 DEF Pending
  <2> QED
    BY <1>4, <1>8, <2>1 DEF Undone
<1>12. ASSUME ~ overlap'
       PROVE  (e.restore > 0 => e.restore = base') /\ (e.active => e.saved = base')
  <2>1. CASE Pending(l)
    <3>1. base' = base /\ ~ overlap /\ ~ (dreams /\ l.active)
      BY Zenon, <1>8, <1>10, <1>12, <2>1
    <3>2. (l.restore > 0 => l.restore = base) /\ (l.active => l.saved = base)
      BY <3>1 DEF Undone
    <3>3. d.restore = l.restore
      BY <1>4, <1>5, <2>1, <3>1 DEF Pending
    <3> QED
      BY <1>4, <1>5, <1>6, <1>7, <2>1, <3>1, <3>2, <3>3 DEF Pending
  <2>2. CASE ~ Pending(l) /\ dreams
    <3>1. l.restore = 0 /\ ~ l.active /\ d.restore = l.tick
      BY <1>4, <1>5, <2>2 DEF Pending
    <3> QED
      BY <1>4, <1>5, <1>6, <1>7, <1>8, <2>2, <3>1 DEF Pending
  <2>3. CASE ~ Pending(l) /\ ~ dreams
    <3>1. l.restore = 0 /\ ~ l.active /\ d.restore = 0
      BY <1>4, <1>5, <2>3 DEF Pending
    <3> QED
      BY <1>4, <1>5, <1>6, <1>7, <1>8, <2>3, <3>1 DEF Pending
  <2> QED
    BY <1>9, <2>1, <2>2, <2>3
<1>13. overlap' \in BOOLEAN
  BY <1>8, Zenon
<1> QED
  BY <1>6, <1>8, <1>11, <1>12, <1>13 DEF LifeInv, SlowdownsUndone

\* An iteration keeps the invariant.
LEMMA IterateKeeps == ASSUME LifeInv, Iterate PROVE LifeInv'
<1> DEFINE w == Woken(loop)
           s == Slept(w)
           p == PhaseEnded(s)
           l == Counted(p)
<1>1. PICK age : \E fb \in {Cooled(feedback, w.tick)} : MetricsPart(l, age, fb)
  BY DEF Iterate
<1>2. PICK fb : MetricsPart(l, age, fb)
  BY <1>1
<1>3. Sane(loop) /\ Undone(loop) /\ base \in Nat /\ overlap \in BOOLEAN
  BY DEF LifeInv, Undone, SlowdownsUndone
<1>4. Undone(w) /\ Sane(w)
  BY <1>3, WokenEases, EasedUndone DEF Eased
<1> HIDE DEF w
<1>5. Undone(s) /\ Sane(s)
  BY <1>4, SleptEases, EasedUndone DEF Eased
<1> HIDE DEF s
<1>6. Undone(p) /\ Sane(p)
  BY <1>5, PhaseEndEases, EasedUndone DEF Eased
<1> HIDE DEF p
<1>7. Undone(l) /\ Sane(l)
  BY <1>6, CountedEases, EasedUndone DEF Eased
<1> HIDE DEF l
<1>8. CASE l.sinceMetrics < MetricsEvery
  <2>1. DreamPart(l, age)
    BY <1>2, <1>8 DEF MetricsPart
  <2> QED
    BY <1>3, <1>7, <2>1, DreamPartKeeps
<1>9. CASE ~ (l.sinceMetrics < MetricsEvery)
  <2>1. PICK m \in Measures, adjust \in TrsAdjust, late \in BOOLEAN :
          DreamPart(Regulated(l, m, adjust, late), age)
    BY <1>2, <1>9 DEF MetricsPart
  <2> DEFINE r == Regulated(l, m, adjust, late)
  <2>2. Undone(r)
    BY <1>7, RegulatedEases, EasedUndone, LifeAssumption
  <2>3. DreamPart(r, age)
    BY <2>1
  <2> HIDE DEF r
  <2> QED
    BY <1>3, <2>2, <2>3, DreamPartKeeps
<1> QED
  BY <1>8, <1>9

\* Initially no slowdown is pending.
LEMMA LifeStarts == LifeInit => LifeInv
<1> SUFFICES ASSUME LifeInit PROVE LifeInv
  OBVIOUS
<1>1. loop.restore = 0 /\ loop.active = FALSE /\ loop.saved = 0 /\ base = 0 /\ overlap = FALSE
  BY Zenon DEF LifeInit
<1>2. NoMetrics \in Metrics
  <2>1. 0 \in 0..3 /\ FALSE \in BOOLEAN
    OBVIOUS
  <2> QED
    BY <2>1 DEF NoMetrics, Metrics
<1>3. loop \in LoopState
  <2>1. loop = [tick |-> loop.tick, restore |-> loop.restore, slowedOnce |-> loop.slowedOnce,
                active |-> loop.active, left |-> loop.left, saved |-> loop.saved,
                sinceMetrics |-> loop.sinceMetrics, sinceDream |-> loop.sinceDream,
                sincePhase |-> loop.sincePhase, metrics |-> loop.metrics]
    BY DEF LifeInit
  <2>2. /\ loop.tick \in Nat \ {0} /\ loop.restore \in Nat /\ loop.slowedOnce \in BOOLEAN
        /\ loop.active \in BOOLEAN /\ loop.left \in Int /\ loop.saved \in Nat
        /\ loop.sinceMetrics \in Int /\ loop.sinceDream \in Int /\ loop.sincePhase \in Int
        /\ loop.metrics \in Metrics
    <3>1. /\ loop.tick = RegMax /\ loop.restore = 0 /\ loop.slowedOnce = FALSE
          /\ loop.active = FALSE /\ loop.left = 0 /\ loop.saved = 0
          /\ loop.sinceMetrics = 0 /\ loop.metrics = NoMetrics
      BY Zenon DEF LifeInit
    <3>2. loop.sinceDream \in {0, MinIdle + 1} /\ loop.sincePhase \in {0, PhaseGap}
      BY DEF LifeInit
    <3>3. RegMax \in Nat \ {0} /\ MinIdle + 1 \in Int /\ PhaseGap \in Int
      BY LifeAssumption
    <3>4. loop.sinceDream \in Int /\ loop.sincePhase \in Int
      BY <3>2, <3>3
    <3>5. loop.slowedOnce \in BOOLEAN /\ loop.active \in BOOLEAN
      BY <3>1, Zenon
    <3>6. loop.restore \in Nat /\ loop.left \in Int /\ loop.saved \in Nat /\ loop.sinceMetrics \in Int
      BY <3>1
    <3>7. loop.tick \in Nat \ {0} /\ loop.metrics \in Metrics
      BY <1>2, <3>1, <3>3, Zenon
    <3> QED
      BY <3>4, <3>5, <3>6, <3>7
  <2> QED
    BY <2>1, <2>2 DEF LoopState
<1>4. ~ Pending(loop) /\ Sane(loop)
  BY <1>1, <1>3 DEF Sane, Pending
<1> QED
  BY Zenon, <1>1, <1>4 DEF LifeInv, Pending, SlowdownsUndone

\* run_loop: the tick that a dream or a phase puts back is the one from before
\* the first of the pending slowdowns, unless a dream began inside a phase; for
\* every tick, limit, phase and adjustment, and whatever the field measures.
THEOREM TickRestored == LifeSpec => []SlowdownsUndone
<1>1. LifeInv /\ [LifeNext]_lifeVars => LifeInv'
  <2> SUFFICES ASSUME LifeInv, [LifeNext]_lifeVars PROVE LifeInv'
    OBVIOUS
  <2>1. CASE Iterate
    BY <2>1, IterateKeeps
  <2>2. CASE UNCHANGED <<loop, base, overlap>>
    BY <2>2 DEF LifeInv, Sane, Pending, SlowdownsUndone
  <2> QED
    BY <2>1, <2>2 DEF LifeNext, DreamNow, TuneReflex, lifeVars
<1>2. LifeInv => SlowdownsUndone
  BY DEF LifeInv
<1> QED
  BY LifeStarts, <1>1, <1>2, PTL DEF LifeSpec
=============================================================================
