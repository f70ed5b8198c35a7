---------------------------- MODULE NoeticCrdt ----------------------------
(***************************************************************************)
(* The replicated data types of the noetic layer                           *)
(* (liminal-bridge-net/src/noetic/crdt.rs): hybrid logical clocks, the     *)
(* last-writer-wins register and the observed-remove set.                  *)
(*                                                                         *)
(* A peer identifier is a number (the code orders the bytes of the public  *)
(* key).  A map (BTreeMap) is a function on the keys it holds, so the      *)
(* empty map is << >>.  Credences are naturals in a small unit instead of  *)
(* floats; no NaN is compared, so partial_cmp always answers.              *)
(***************************************************************************)
EXTENDS Integers, FiniteSets

CONSTANTS
    DefaultCredence,  \* what MergeContext answers for a peer it does not know
    LogLimit          \* the largest value of a clock's u32 counter

ASSUME NoeticCrdtConstants == DefaultCredence \in Nat /\ LogLimit \in Nat \ {0}

Larger(a, b) == IF a < b THEN b ELSE a

Max(S) == CHOOSE x \in S : \A y \in S : y <= x

-----------------------------------------------------------------------------
\* Hybrid logical clocks.
HlcNew(node, now) == [phys_ms |-> now, log |-> 0, node |-> node]

\* Mutant: the wall clock is followed even when it is set back.
HlcTickFollowsWall(clock, now) == [clock EXCEPT !.phys_ms = now, !.log = 0]

HlcTick(clock, now) ==
    IF now > clock.phys_ms
      THEN [clock EXCEPT !.phys_ms = now, !.log = 0]
      ELSE [clock EXCEPT !.log = IF @ < LogLimit THEN @ + 1 ELSE @]

\* Unlike a tick, a merge does not saturate: the release build wraps to 0.
HlcMerged(clock, other, node, now) ==
    LET phys == Larger(Larger(clock.phys_ms, other.phys_ms), now)
        logs == {c.log : c \in {d \in {clock, other} : d.phys_ms = phys}}
    IN  [phys_ms |-> phys,
         log     |-> IF logs = {} THEN 0 ELSE (Max(logs) + 1) % (LogLimit + 1),
         node    |-> node]

CredenceFor(credence, peer) ==
    IF peer \in DOMAIN credence THEN credence[peer] ELSE DefaultCredence

\* Whether clock a is older than clock b, credence and node left aside.
Earlier(a, b) ==
    \/ a.phys_ms < b.phys_ms
    \/ a.phys_ms = b.phys_ms /\ a.log < b.log

\* Mutant: the comparison ends with the credences, and a tie between peers of
\* equal credence is not broken.
LessNoNode(a, b, credence) ==
    \/ Earlier(a, b)
    \/ /\ a.phys_ms = b.phys_ms /\ a.log = b.log
       /\ CredenceFor(credence, a.node) < CredenceFor(credence, b.node)

\* Hlc::compare answers Less; it answers Greater with the arguments swapped.
HlcLess(a, b, credence) ==
    \/ Earlier(a, b)
    \/ /\ a.phys_ms = b.phys_ms /\ a.log = b.log
       /\ \/ CredenceFor(credence, a.node) < CredenceFor(credence, b.node)
          \/ /\ CredenceFor(credence, a.node) = CredenceFor(credence, b.node)
             /\ a.node < b.node

-----------------------------------------------------------------------------
\* The last-writer-wins register.
Lww(value, clock) == [value |-> value, clock |-> clock]

LwwMerge(register, other, credence) ==
    IF HlcLess(register.clock, other.clock, credence) THEN other ELSE register

-----------------------------------------------------------------------------
\* The observed-remove set: for every value the clock of its latest addition
\* and of its latest removal.
EmptyOrSet == [adds |-> << >>, removals |-> << >>]

\* Puts a value's clock into one of the two maps unless a later one is there.
PutLatest(map, value, clock, credence) ==
    [v \in DOMAIN map \cup {value} |->
        IF v # value \/ (v \in DOMAIN map /\ ~HlcLess(map[v], clock, credence))
          THEN map[v] ELSE clock]

OrSetInsert(set, value, clock, credence) ==
    [set EXCEPT !.adds = PutLatest(@, value, clock, credence)]

OrSetRemove(set, value, clock, credence) ==
    [set EXCEPT !.removals = PutLatest(@, value, clock, credence)]

OrSetElements(set, credence) ==
    {v \in DOMAIN set.adds :
        v \in DOMAIN set.removals =>
            HlcLess(set.removals[v], set.adds[v], credence)}

\* Every entry of other is put into map.
PutAllLatest(map, other, credence) ==
    [v \in DOMAIN map \cup DOMAIN other |->
        IF \/ v \notin DOMAIN other
           \/ v \in DOMAIN map /\ ~HlcLess(map[v], other[v], credence)
          THEN map[v] ELSE other[v]]

\* Mutant: the other replica's removals replace this one's.
OrSetMergeReplacing(set, other, credence) ==
    [adds     |-> PutAllLatest(set.adds, other.adds, credence),
     removals |-> other.removals]

OrSetMerge(set, other, credence) ==
    [adds     |-> PutAllLatest(set.adds, other.adds, credence),
     removals |-> PutAllLatest(set.removals, other.removals, credence)]
=============================================================================
