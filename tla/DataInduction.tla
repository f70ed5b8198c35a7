--------------------------- MODULE DataInduction ---------------------------
(***************************************************************************)
(* Induction over the natural numbers, stated with sets instead of         *)
(* predicates, so that the provers can instantiate it.  It is what the     *)
(* proofs about the recursive functions of the models rest on.             *)
(*                                                                         *)
(* Induction itself is the hypothesis WellOrdered; the modules that use    *)
(* these lemmas prove it from the library's well-founded orders.  A module *)
(* that reasons about a loop instantiates this one with the loop's body,   *)
(* so it holds no more than such a module needs.                           *)
(***************************************************************************)
EXTENDS Naturals

CONSTANT LoopBody(_, _)     \* the body of a loop along a sequence

\* Every non-empty set of natural numbers has a least element.
WellOrdered == \A S \in SUBSET Nat : S # {} => \E n \in S : \A m \in S : n <= m

\* A set with zero and with every successor of its members holds every number.
LEMMA NatInduct ==
    ASSUME WellOrdered, NEW T, 0 \in T, \A n \in Nat : n \in T => n + 1 \in T
    PROVE  Nat \subseteq T
<1> SUFFICES ASSUME ~ (Nat \subseteq T) PROVE FALSE
  OBVIOUS
<1>1. PICK n \in Nat \ T : \A m \in Nat \ T : n <= m
  BY DEF WellOrdered
<1>2. n # 0 /\ n - 1 \in Nat
  BY <1>1
<1>3. n - 1 \in T
  BY <1>1, <1>2
<1> QED
  BY <1>1, <1>2, <1>3

\* The same up to a bound, for what is only defined up to the end of a sequence.
LEMMA RangeInduct ==
    ASSUME WellOrdered, NEW T, NEW N \in Nat, 0 \in T,
           \A n \in Nat : n < N /\ n \in T => n + 1 \in T
    PROVE  0..N \subseteq T
<1> DEFINE U == {n \in Nat : n <= N => n \in T}
<1>1. 0 \in U
  OBVIOUS
<1>2. ASSUME NEW n \in Nat, n \in U PROVE n + 1 \in U
  BY <1>2
<1>3. Nat \subseteq U
  <2> HIDE DEF U
  <2> QED BY <1>1, <1>2, NatInduct
<1> QED
  BY <1>3
-----------------------------------------------------------------------------
(* Recursion along a sequence, one LoopBody per element *)

\* What the recursion has reached after n elements.
Reached(base, seq, n) ==
    LET after[m \in 0..n] == IF m = 0 THEN base ELSE LoopBody(after[m - 1], seq[m])
    IN  after[n]

\* h holds what the recursion reaches after each element.
Steps(h, base, seq, n) == h[0] = base /\ \A m \in 1..n : h[m] = LoopBody(h[m - 1], seq[m])

\* A recursion of any number of steps is well defined, and what it reaches is
\* the end of a chain of steps.
LEMMA ReachedBySteps ==
    ASSUME WellOrdered, NEW base, NEW seq, NEW N \in Nat
    PROVE  \E h : Steps(h, base, seq, N) /\ Reached(base, seq, N) = h[N]
<1> DEFINE Course(h, n) ==
             h = [m \in 0..n |-> IF m = 0 THEN base ELSE LoopBody(h[m - 1], seq[m])]
<1> DEFINE T == {n \in Nat : \E h : Course(h, n)}
<1>1. 0 \in T
  <2> DEFINE h == [m \in 0..0 |-> base]
  <2>1. h = [m \in 0..0 |-> IF m = 0 THEN base ELSE LoopBody(h[m - 1], seq[m])]
    OBVIOUS
  <2> QED
    BY <2>1
<1>2. ASSUME NEW n \in Nat, n \in T PROVE n + 1 \in T
  <2>1. PICK h : Course(h, n)
    BY <1>2
  <2> DEFINE k == [m \in 0..(n + 1) |-> IF m = n + 1 THEN LoopBody(h[n], seq[n + 1]) ELSE h[m]]
  <2>2. ASSUME NEW m \in 0..(n + 1)
        PROVE  k[m] = IF m = 0 THEN base ELSE LoopBody(k[m - 1], seq[m])
    <3>1. CASE m = n + 1
      <4>1. k[m] = LoopBody(h[n], seq[n + 1]) /\ m # 0
        BY <3>1
      <4>2. k[m - 1] = h[n]
        BY <3>1
      <4> QED
        BY <3>1, <4>1, <4>2
    <3>2. CASE m # n + 1
      <4>1. m \in 0..n /\ k[m] = h[m]
        BY <3>2
      <4>2. h[m] = IF m = 0 THEN base ELSE LoopBody(h[m - 1], seq[m])
        BY <4>1, <2>1
      <4>3. m # 0 => k[m - 1] = h[m - 1]
        BY <4>1
      <4> QED
        BY <4>1, <4>2, <4>3
    <3> QED
      BY <3>1, <3>2
  <2>3. k = [m \in 0..(n + 1) |-> IF m = 0 THEN base ELSE LoopBody(k[m - 1], seq[m])]
    BY <2>2
  <2>4. Course(k, n + 1)
    BY <2>3
  <2> HIDE DEF k
  <2> QED
    BY <2>4
<1> HIDE DEF T
<1>3. Nat \subseteq T
  BY <1>1, <1>2, NatInduct
<1> DEFINE g == CHOOSE h : Course(h, N)
<1>4. Course(g, N)
  BY <1>3 DEF T
<1>5. Reached(base, seq, N) = g[N]
  BY DEF Reached
<1> HIDE DEF g
<1>6. \A m \in 0..N : g[m] = IF m = 0 THEN base ELSE LoopBody(g[m - 1], seq[m])
  BY <1>4
<1>7. Steps(g, base, seq, N)
  BY <1>6 DEF Steps
<1> HIDE DEF Course
<1> QED
  BY <1>5, <1>7
=============================================================================
