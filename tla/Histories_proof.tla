-------------------------- MODULE Histories_proof --------------------------
(***************************************************************************)
(* Histories that are read back: the journal of the field, and the signed  *)
(* checkpoints of the transition ledger.                                   *)
(***************************************************************************)
EXTENDS FieldJournal, CheckpointChain, DataInduction, WellFoundedInduction, SequenceTheorems, TLAPS

\* A non-empty set of natural numbers has a least element.
LEMMA LeastElement ==
    ASSUME NEW T \in SUBSET Nat, T # {}
    PROVE  \E n \in T : \A m \in T : n <= m
<1> DEFINE R == OpToRel(<, Nat)
<1>1. IsWellFoundedOn(R, Nat)
  BY NatLessThanWellFounded, Zenon
<1>2. \A x, y \in Nat : y < x => <<y, x>> \in R
  BY DEF OpToRel
<1> HIDE DEF R
<1>3. PICK x \in T : \A y \in T : ~ (<<y, x>> \in R)
  BY Zenon, <1>1, WFMin
<1>4. ASSUME NEW y \in T PROVE x <= y
  <2>1. x \in Nat /\ y \in Nat
    OBVIOUS
  <2>2. ~ (y < x)
    BY Zenon, <2>1, <1>2, <1>3
  <2> QED
    BY <2>1, <2>2
<1> QED
  BY <1>4

\* The induction over the recursive definitions starts from here.
LEMMA NaturalsOrdered == WellOrdered
BY LeastElement DEF WellOrdered

-----------------------------------------------------------------------------
(***************************************************************************)
(* The journal recovers the live field wherever the process ends, for any  *)
(* number of snapshotters, deltas and snapshots and any segment length.    *)
(***************************************************************************)

-----------------------------------------------------------------------------
(* Streams, segment by segment *)

\* What a stream yields next follows what it has yielded.
Then(before, piece) == before \o piece

\* h holds what the stream has yielded after each segment up to n.
Yields(h, segs, offset, n) ==
    h = [s \in 0..n |-> IF s = 0 THEN <<>> ELSE Then(h[s - 1], Piece(segs, offset, s))]

\* A stream of any number of segments is well defined.
LEMMA YieldsExist ==
    ASSUME NEW segs, NEW offset, NEW N \in Nat
    PROVE  \E h : Yields(h, segs, offset, N)
<1> DEFINE T == {n \in Nat : \E h : Yields(h, segs, offset, n)}
<1>1. 0 \in T
  <2> DEFINE h == [s \in 0..0 |-> <<>>]
  <2>1. h = [s \in 0..0 |-> IF s = 0 THEN <<>> ELSE Then(h[s - 1], Piece(segs, offset, s))]
    OBVIOUS
  <2>2. Yields(h, segs, offset, 0)
    BY <2>1 DEF Yields
  <2> QED
    BY <2>2
<1>2. ASSUME NEW n \in Nat, n \in T PROVE n + 1 \in T
  <2>1. PICK h : Yields(h, segs, offset, n)
    BY <1>2
  <2> DEFINE k == [s \in 0..(n + 1) |->
                     IF s = n + 1 THEN Then(h[n], Piece(segs, offset, n + 1)) ELSE h[s]]
  <2>2. ASSUME NEW s \in 0..(n + 1)
        PROVE  k[s] = IF s = 0 THEN <<>> ELSE Then(k[s - 1], Piece(segs, offset, s))
    <3>1. CASE s = n + 1
      <4>1. k[s] = Then(h[n], Piece(segs, offset, n + 1)) /\ s # 0
        BY <3>1
      <4>2. k[s - 1] = h[n]
        BY <3>1
      <4> QED
        BY Zenon, <3>1, <4>1, <4>2
    <3>2. CASE s # n + 1
      <4>1. s \in 0..n /\ k[s] = h[s]
        BY <3>2
      <4>2. h[s] = IF s = 0 THEN <<>> ELSE Then(h[s - 1], Piece(segs, offset, s))
        BY <4>1, <2>1 DEF Yields
      <4>3. s # 0 => k[s - 1] = h[s - 1]
        BY <4>1
      <4> QED
        BY <4>1, <4>2, <4>3
    <3> QED
      BY Zenon, <3>1, <3>2
  <2>3. k = [s \in 0..(n + 1) |-> IF s = 0 THEN <<>> ELSE Then(k[s - 1], Piece(segs, offset, s))]
    BY <2>2
  <2>4. Yields(k, segs, offset, n + 1)
    BY <2>3 DEF Yields
  <2> HIDE DEF k
  <2> QED
    BY <2>4
<1> HIDE DEF T
<1>3. Nat \subseteq T
  BY <1>1, <1>2, NaturalsOrdered, NatInduct
<1> QED
  BY <1>3 DEF T

\* Streamed is the end of what is yielded.
LEMMA StreamedYields ==
    ASSUME NEW segs, NEW offset, NEW N \in Nat
    PROVE  \E h : Yields(h, segs, offset, N) /\ Streamed(segs, offset, N) = h[N]
<1> DEFINE h == CHOOSE h : Yields(h, segs, offset, N)
<1>1. Yields(h, segs, offset, N)
  BY YieldsExist
<1>2. Streamed(segs, offset, N) = h[N]
  BY DEF Streamed, Yields, Then
<1> QED
  BY Zenon, <1>1, <1>2

\* Two streams with the same pieces up to N yield the same up to N.
LEMMA SameYields ==
    ASSUME NEW N \in Nat, NEW M \in Nat, N <= M, NEW a, NEW b, NEW o, NEW q, NEW f, NEW g,
           \A s \in 1..N : Piece(a, o, s) = Piece(b, q, s),
           Yields(f, a, o, N), Yields(g, b, q, M)
    PROVE  f[N] = g[N]
<1> DEFINE T == {s \in Nat : f[s] = g[s]}
<1>1. 0 \in T
  BY DEF Yields
<1>2. ASSUME NEW s \in Nat, s < N, s \in T PROVE s + 1 \in T
  <2>1. f[s + 1] = Then(f[s], Piece(a, o, s + 1))
    BY <1>2 DEF Yields
  <2>2. g[s + 1] = Then(g[s], Piece(b, q, s + 1))
    BY <1>2 DEF Yields
  <2>3. Piece(a, o, s + 1) = Piece(b, q, s + 1)
    BY <1>2
  <2> QED
    BY <1>2, <2>1, <2>2, <2>3
<1> HIDE DEF T
<1>3. 0..N \subseteq T
  BY <1>1, <1>2, NaturalsOrdered, RangeInduct
<1> QED
  BY <1>3 DEF T

\* Streams with the same pieces yield the same records.
LEMMA SameStream ==
    ASSUME NEW N \in Nat, NEW a, NEW b, NEW o, NEW q,
           \A s \in 1..N : Piece(a, o, s) = Piece(b, q, s)
    PROVE  Streamed(a, o, N) = Streamed(b, q, N)
<1>1. PICK f : Yields(f, a, o, N) /\ Streamed(a, o, N) = f[N]
  BY StreamedYields
<1>2. PICK g : Yields(g, b, q, N) /\ Streamed(b, q, N) = g[N]
  BY StreamedYields
<1> QED
  BY <1>1, <1>2, SameYields

\* A stream goes on with the piece of the next segment.
LEMMA NextPiece ==
    ASSUME NEW segs, NEW offset, NEW N \in Nat
    PROVE  Streamed(segs, offset, N + 1) = Streamed(segs, offset, N) \o Piece(segs, offset, N + 1)
<1>1. PICK f : Yields(f, segs, offset, N) /\ Streamed(segs, offset, N) = f[N]
  BY StreamedYields
<1>2. PICK g : Yields(g, segs, offset, N + 1) /\ Streamed(segs, offset, N + 1) = g[N + 1]
  BY StreamedYields
<1>3. f[N] = g[N]
  BY <1>1, <1>2, SameYields
<1>4. g[N + 1] = Then(g[N], Piece(segs, offset, N + 1))
  BY <1>2 DEF Yields
<1> QED
  BY Zenon, <1>1, <1>2, <1>3, <1>4 DEF Then

\* A stream of no segment is empty.
LEMMA NoPiece == ASSUME NEW segs, NEW offset PROVE Streamed(segs, offset, 0) = <<>>
<1>1. PICK f : Yields(f, segs, offset, 0) /\ Streamed(segs, offset, 0) = f[0]
  BY StreamedYields
<1> QED
  BY <1>1 DEF Yields

-----------------------------------------------------------------------------
(* Streams of the journal *)

\* Numbered segments, of which c is written; the one behind it, if there is
\* one, was only created.
Numbered(segs, c) ==
    /\ DOMAIN segs \subseteq Nat \ {0}
    /\ segs \in [DOMAIN segs -> Seq(Nat)]
    /\ c \in DOMAIN segs
    /\ \A s \in DOMAIN segs : s <= c \/ (s = c + 1 /\ segs[s] = <<>>)

Offset == Nat \X Nat

\* The greatest number of a set is the one no other exceeds.
LEMMA GreatestIs ==
    ASSUME NEW S, S \subseteq Nat, NEW c \in S, \A s \in S : s <= c
    PROVE  Greatest(S) = c
<1> DEFINE g == Greatest(S)
<1>1. g \in S /\ \A y \in S : y <= g
  BY Zenon DEF Greatest
<1> HIDE DEF g
<1>2. g <= c /\ c <= g /\ g \in Nat /\ c \in Nat
  BY <1>1
<1> QED
  BY <1>2 DEF g

\* A piece of a segment is a sequence of deltas.
LEMMA PieceTyped ==
    ASSUME NEW segs, NEW c, Numbered(segs, c), NEW o \in Offset, NEW s \in Nat
    PROVE  Piece(segs, o, s) \in Seq(Nat)
<1>1. CASE s < o[1] \/ s \notin DOMAIN segs
  BY <1>1 DEF Piece
<1>2. CASE ~ (s < o[1] \/ s \notin DOMAIN segs)
  <2> DEFINE q == segs[s]
             m == (IF s = o[1] THEN o[2] ELSE 0) + 1
  <2>1. q \in Seq(Nat) /\ m \in Nat \ {0}
    BY <1>2 DEF Numbered, Offset
  <2>2. Piece(segs, o, s) = SubSeq(q, m, Len(q))
    BY Zenon, <1>2 DEF Piece
  <2> HIDE DEF q, m
  <2>3. SubSeq(q, m, Len(q)) \in Seq(Nat)
    BY <2>1
  <2> QED
    BY <2>2, <2>3
<1> QED
  BY <1>1, <1>2

\* So is a stream.
LEMMA StreamTyped ==
    ASSUME NEW segs, NEW c, Numbered(segs, c), NEW o \in Offset, NEW N \in Nat
    PROVE  Streamed(segs, o, N) \in Seq(Nat)
<1> DEFINE T == {n \in Nat : Streamed(segs, o, n) \in Seq(Nat)}
<1>1. 0 \in T
  <2>1. Streamed(segs, o, 0) = <<>>
    BY NoPiece
  <2>2. <<>> \in Seq(Nat)
    OBVIOUS
  <2>3. Streamed(segs, o, 0) \in Seq(Nat)
    BY <2>1, <2>2, Zenon
  <2> QED
    BY <2>3
<1>2. ASSUME NEW n \in Nat, n \in T PROVE n + 1 \in T
  <2> DEFINE a == Streamed(segs, o, n)
             b == Piece(segs, o, n + 1)
             d == Streamed(segs, o, n + 1)
  <2>1. a \in Seq(Nat)
    BY <1>2
  <2>2. b \in Seq(Nat)
    BY PieceTyped
  <2>3. d = a \o b
    BY Zenon, NextPiece
  <2> HIDE DEF a, b, d
  <2>4. d \in Seq(Nat)
    BY <2>1, <2>2, <2>3
  <2> QED
    BY <2>4 DEF d
<1> HIDE DEF T
<1>3. Nat \subseteq T
  BY <1>1, <1>2, NaturalsOrdered, NatInduct
<1> QED
  BY <1>3 DEF T

\* A stream all pieces of which are empty is empty.
LEMMA EmptyStream ==
    ASSUME NEW segs, NEW o, NEW N \in Nat, \A s \in 1..N : Piece(segs, o, s) = <<>>
    PROVE  Streamed(segs, o, N) = <<>>
<1> DEFINE T == {n \in Nat : n <= N => Streamed(segs, o, n) = <<>>}
<1>1. 0 \in T
  BY NoPiece
<1>2. ASSUME NEW n \in Nat, n \in T PROVE n + 1 \in T
  <2>1. CASE n + 1 <= N
    <3>1. Streamed(segs, o, n) = <<>> /\ Piece(segs, o, n + 1) = <<>>
      BY <1>2, <2>1
    <3>2. Streamed(segs, o, n + 1) = <<>> \o <<>>
      BY <3>1, NextPiece
    <3> QED
      BY <3>2
  <2> QED
    BY <2>1
<1> HIDE DEF T
<1>3. Nat \subseteq T
  BY <1>1, <1>2, NaturalsOrdered, NatInduct
<1> QED
  BY <1>3 DEF T

\* Nothing follows the end of the last segment.
LEMMA NothingAfterEnd ==
    ASSUME NEW segs, NEW c \in Nat, Numbered(segs, c)
    PROVE  Streamed(segs, <<c, Len(segs[c])>>, c) = <<>>
<1> DEFINE o == <<c, Len(segs[c])>>
<1>1. ASSUME NEW s \in 1..c PROVE Piece(segs, o, s) = <<>>
  <2>1. CASE s < c
    BY <2>1 DEF Piece
  <2>2. CASE s = c
    <3>1. Piece(segs, o, s) = SubSeq(segs[c], Len(segs[c]) + 1, Len(segs[c]))
      BY <2>2 DEF Piece, Numbered
    <3>2. segs[c] \in Seq(Nat)
      BY DEF Numbered
    <3> QED
      BY <3>1, <3>2
  <2> QED
    BY <2>1, <2>2
<1> HIDE DEF o
<1>2. Streamed(segs, o, c) = <<>>
  BY <1>1, EmptyStream
<1> QED
  BY <1>2 DEF o

\* A stream from an offset that is not past the end yields a record that is
\* appended to the last segment after all others.
LEMMA AppendedLast ==
    ASSUME NEW segs, NEW c \in Nat, Numbered(segs, c), NEW o \in Offset, NEW x \in Nat,
           o[1] <= c, o[1] = c => o[2] <= Len(segs[c])
    PROVE  LET after == Put(segs, c, Append(segs[c], x))
           IN  /\ Numbered(after, c) /\ Len(after[c]) = Len(segs[c]) + 1
               /\ Streamed(after, o, c) = Append(Streamed(segs, o, c), x)
<1> DEFINE q == segs[c]
           after == Put(segs, c, Append(q, x))
           m == (IF c = o[1] THEN o[2] ELSE 0) + 1
           d == c - 1
<1>1. q \in Seq(Nat) /\ c # 0 /\ d \in Nat /\ d + 1 = c
  BY DEF Numbered
<1>2. Append(q, x) \in Seq(Nat) /\ Len(Append(q, x)) = Len(q) + 1
  BY <1>1
<1>3. /\ after[c] = Append(q, x) /\ DOMAIN after = DOMAIN segs
      /\ \A s \in DOMAIN segs : s # c => after[s] = segs[s]
  BY Zenon DEF Numbered, Put
<1>4. Numbered(after, c)
  <2>1. after = [s \in DOMAIN segs |-> after[s]]
    BY <1>3 DEF Put
  <2>2. ASSUME NEW s \in DOMAIN segs PROVE after[s] \in Seq(Nat)
    BY Zenon, <1>2, <1>3 DEF Numbered
  <2> HIDE DEF after
  <2> QED
    BY <1>1, <1>3, <2>1, <2>2 DEF Numbered
<1>5. ASSUME NEW s \in 1..d PROVE Piece(segs, o, s) = Piece(after, o, s)
  <2>1. s # c /\ (s \in DOMAIN segs => after[s] = segs[s])
    BY <1>1, <1>3 DEF Numbered
  <2> QED
    BY <1>3, <2>1 DEF Piece
<1>6. Streamed(segs, o, d) = Streamed(after, o, d)
  <2> HIDE DEF after, d
  <2> QED
    BY <1>1, <1>5, SameStream
<1>7. m \in 1..(Len(q) + 1)
  BY <1>1 DEF Offset
<1>8. Piece(segs, o, c) = SubSeq(q, m, Len(q))
  <2>1. ~ (c < o[1]) /\ c \in DOMAIN segs
    BY DEF Numbered, Offset
  <2> QED
    BY Zenon, <2>1 DEF Piece
<1>9. Piece(after, o, c) = SubSeq(Append(q, x), m, Len(q) + 1)
  <2>1. ~ (c < o[1]) /\ c \in DOMAIN after
    BY <1>3 DEF Numbered, Offset
  <2> HIDE DEF after, q
  <2> QED
    BY Zenon, <1>2, <1>3, <2>1 DEF Piece
<1>10. SubSeq(Append(q, x), m, Len(q) + 1) = Append(SubSeq(q, m, Len(q)), x)
  <2> HIDE DEF q, m
  <2> QED
    BY <1>1, <1>7
<1>11. /\ Streamed(segs, o, c) = Streamed(segs, o, d) \o Piece(segs, o, c)
       /\ Streamed(after, o, c) = Streamed(after, o, d) \o Piece(after, o, c)
  <2> HIDE DEF after, d
  <2>1. Streamed(segs, o, d + 1) = Streamed(segs, o, d) \o Piece(segs, o, d + 1)
    BY Zenon, <1>1, NextPiece
  <2>2. Streamed(after, o, d + 1) = Streamed(after, o, d) \o Piece(after, o, d + 1)
    BY Zenon, <1>1, NextPiece
  <2> QED
    BY Zenon, <1>1, <2>1, <2>2
<1>12. Streamed(segs, o, d) \in Seq(Nat) /\ Piece(segs, o, c) \in Seq(Nat)
  <2> HIDE DEF d
  <2> QED
    BY <1>1, StreamTyped, PieceTyped
<1>13. Streamed(after, o, c) = Append(Streamed(segs, o, c), x)
  <2> DEFINE a == Streamed(segs, o, d)
             b == Piece(segs, o, c)
  <2>1. Streamed(after, o, c) = a \o Append(b, x) /\ Streamed(segs, o, c) = a \o b
    BY Zenon, <1>6, <1>8, <1>9, <1>10, <1>11
  <2>2. a \in Seq(Nat) /\ b \in Seq(Nat)
    BY <1>12
  <2> HIDE DEF a, b
  <2>3. a \o Append(b, x) = Append(a \o b, x)
    BY <2>2
  <2> QED
    BY Zenon, <2>1, <2>3
<1>14. Len(after[c]) = Len(segs[c]) + 1
  BY <1>2, <1>3
<1> HIDE DEF after
<1> QED
  BY Zenon, <1>4, <1>13, <1>14 DEF after, q

\* So it does when the record begins the next segment.
LEMMA RotatedLast ==
    ASSUME NEW segs, NEW c \in Nat, Numbered(segs, c), NEW o \in Offset, NEW x \in Nat,
           o[1] <= c
    PROVE  LET after == Put(segs, c + 1, <<x>>)
           IN  /\ Numbered(after, c + 1)
               /\ Streamed(after, o, c + 1) = Append(Streamed(segs, o, c), x)
<1> DEFINE e == c + 1
           after == Put(segs, e, <<x>>)
<1>1. e \in Nat \ {0} /\ o[1] < e
  BY DEF Numbered, Offset
<1>2. /\ <<x>> \in Seq(Nat) /\ after[e] = <<x>> /\ DOMAIN after = DOMAIN segs \cup {e}
      /\ \A s \in DOMAIN segs : s # e => after[s] = segs[s]
      /\ after = [s \in DOMAIN after |-> after[s]]
  BY DEF Put
<1>3. Numbered(after, e)
  <2>1. \A s \in DOMAIN segs : s <= e
    BY DEF Numbered
  <2>2. ASSUME NEW s \in DOMAIN after PROVE after[s] \in Seq(Nat)
    BY Zenon, <1>2 DEF Numbered
  <2> HIDE DEF after
  <2> QED
    BY <1>1, <1>2, <2>1, <2>2 DEF Numbered
<1>4. ASSUME NEW s \in 1..c PROVE Piece(segs, o, s) = Piece(after, o, s)
  <2>1. s # e /\ (s \in DOMAIN segs <=> s \in DOMAIN after)
        /\ (s \in DOMAIN segs => after[s] = segs[s])
    BY <1>2
  <2> HIDE DEF after
  <2> QED
    BY <2>1 DEF Piece
<1>5. Streamed(segs, o, c) = Streamed(after, o, c)
  <2> HIDE DEF after
  <2> QED
    BY <1>4, SameStream
<1>6. Piece(after, o, e) = <<x>>
  <2>1. Piece(after, o, e) = SubSeq(<<x>>, 0 + 1, Len(<<x>>))
    <3>1. ~ (e < o[1]) /\ e # o[1] /\ e \in DOMAIN after
      BY <1>1, <1>2 DEF Offset
    <3> HIDE DEF after, e
    <3> QED
      BY <1>2, <3>1 DEF Piece
  <2> QED
    BY <2>1
<1>7. Streamed(after, o, e) = Streamed(after, o, c) \o <<x>>
  <2> HIDE DEF after
  <2> QED
    BY Zenon, <1>6, NextPiece
<1>8. Streamed(segs, o, c) \in Seq(Nat)
  BY StreamTyped
<1>9. Streamed(after, o, e) = Append(Streamed(segs, o, c), x)
  <2> DEFINE a == Streamed(segs, o, c)
  <2>1. Streamed(after, o, e) = a \o <<x>> /\ a \in Seq(Nat)
    BY Zenon, <1>5, <1>7, <1>8
  <2> HIDE DEF a
  <2>2. a \o <<x>> = Append(a, x)
    BY <2>1
  <2> QED
    BY Zenon, <2>1, <2>2 DEF a
<1> QED
  BY Zenon, <1>3, <1>9

\* Collecting segments before the offset changes nothing that is yielded.
LEMMA CollectedBefore ==
    ASSUME NEW segs, NEW c \in Nat, Numbered(segs, c), NEW o \in Offset, NEW k \in Nat, k <= o[1]
    PROVE  LET after == [s \in {t \in DOMAIN segs : t >= k \/ t = c} |-> segs[s]]
           IN  /\ Numbered(after, c) /\ after[c] = segs[c]
               /\ Streamed(after, o, c) = Streamed(segs, o, c)
<1> DEFINE D == {t \in DOMAIN segs : t >= k \/ t = c}
           after == [s \in D |-> segs[s]]
<1>1. c \in D /\ D \subseteq DOMAIN segs /\ DOMAIN after = D /\ after[c] = segs[c]
  BY DEF Numbered
<1>2. Numbered(after, c)
  BY <1>1 DEF Numbered
<1>3. ASSUME NEW s \in 1..c PROVE Piece(after, o, s) = Piece(segs, o, s)
  <2>1. CASE s < o[1]
    BY <2>1 DEF Piece
  <2>2. CASE ~ (s < o[1])
    <3>1. s >= k
      BY <2>2 DEF Offset
    <3>2. (s \in D <=> s \in DOMAIN segs) /\ (s \in D => after[s] = segs[s])
      BY <3>1
    <3>3. s \in DOMAIN after <=> s \in DOMAIN segs
      BY <1>1, <3>2
    <3> HIDE DEF after, D
    <3> QED
      BY <1>1, <3>2, <3>3 DEF Piece
  <2> QED
    BY <2>1, <2>2
<1>4. Streamed(after, o, c) = Streamed(segs, o, c)
  <2> HIDE DEF after
  <2> QED
    BY <1>3, SameStream
<1> QED
  BY <1>1, <1>2, <1>4

\* A stream of the segments as they are read.
Read(segs) == [s \in DOMAIN segs |-> Trimmed(segs[s])]

\* Whole frames from an offset on.
Whole(segs, o) ==
    \A s \in DOMAIN segs : s >= o[1] => \A i \in DOMAIN segs[s] : segs[s][i] # Broken

\* What is read of a segment is a part of it.
LEMMA TrimmedTyped ==
    ASSUME NEW q \in Seq(Nat)
    PROVE  /\ Trimmed(q) \in Seq(Nat) /\ Trimmed(<<>>) = <<>>
           /\ (\A i \in DOMAIN q : q[i] # Broken) => Trimmed(q) = q
<1>1. CASE q # <<>> /\ q[Len(q)] = Broken
  <2>1. Trimmed(q) = SubSeq(q, 1, Len(q) - 1)
    BY <1>1 DEF Trimmed
  <2>2. SubSeq(q, 1, Len(q) - 1) \in Seq(Nat) /\ Len(q) \in DOMAIN q
    BY <1>1
  <2> QED
    BY <1>1, <2>1, <2>2 DEF Trimmed
<1>2. CASE ~ (q # <<>> /\ q[Len(q)] = Broken)
  BY <1>2 DEF Trimmed
<1> QED
  BY <1>1, <1>2

\* So the segments stay numbered.
LEMMA ReadNumbered ==
    ASSUME NEW segs, NEW c, Numbered(segs, c)
    PROVE  Numbered(Read(segs), c)
<1>1. ASSUME NEW s \in DOMAIN segs
      PROVE  Read(segs)[s] \in Seq(Nat) /\ (segs[s] = <<>> => Read(segs)[s] = <<>>)
  BY TrimmedTyped DEF Read, Numbered
<1>2. DOMAIN Read(segs) = DOMAIN segs /\ Read(segs) = [s \in DOMAIN segs |-> Read(segs)[s]]
  BY DEF Read
<1> QED
  BY <1>1, <1>2 DEF Numbered

\* Where all frames are whole, a stream yields all that was written: the
\* segment that was only created adds nothing.
LEMMA WholeRead ==
    ASSUME NEW segs, NEW c \in Nat, Numbered(segs, c), NEW o \in Offset, Whole(segs, o),
           NEW N \in {c, c + 1}
    PROVE  Streamed(Read(segs), o, N) = Streamed(segs, o, c)
<1>1. ASSUME NEW s \in 1..c PROVE Piece(Read(segs), o, s) = Piece(segs, o, s)
  <2>1. CASE s < o[1] \/ s \notin DOMAIN segs
    BY <2>1 DEF Piece, Read
  <2>2. CASE ~ (s < o[1] \/ s \notin DOMAIN segs)
    <3>1. s >= o[1] /\ segs[s] \in Seq(Nat)
      BY <2>2 DEF Numbered, Offset
    <3>2. Read(segs)[s] = segs[s] /\ DOMAIN Read(segs) = DOMAIN segs
      BY <2>2, <3>1, TrimmedTyped DEF Read, Whole
    <3> QED
      BY Zenon, <2>2, <3>2 DEF Piece
  <2> QED
    BY <2>1, <2>2
<1>2. Streamed(Read(segs), o, c) = Streamed(segs, o, c)
  BY <1>1, SameStream
<1>3. Piece(Read(segs), o, c + 1) = <<>>
  <2>1. CASE c + 1 < o[1] \/ c + 1 \notin DOMAIN segs
    BY <2>1 DEF Piece, Read
  <2>2. CASE ~ (c + 1 < o[1] \/ c + 1 \notin DOMAIN segs)
    <3> DEFINE m == (IF c + 1 = o[1] THEN o[2] ELSE 0) + 1
    <3>1. segs[c + 1] = <<>>
      BY <2>2 DEF Numbered
    <3>2. Read(segs)[c + 1] = <<>> /\ c + 1 \in DOMAIN Read(segs)
      <4>1. Trimmed(<<>>) = <<>>
        BY DEF Trimmed
      <4> QED
        BY Zenon, <2>2, <3>1, <4>1 DEF Read
    <3>3. Piece(Read(segs), o, c + 1) = SubSeq(<<>>, m, Len(<<>>))
      BY Zenon, <2>2, <3>2 DEF Piece
    <3>4. m \in Nat \ {0}
      BY DEF Offset
    <3> HIDE DEF m
    <3> QED
      BY <3>3, <3>4
  <2> QED
    BY <2>1, <2>2
<1>4. Streamed(Read(segs), o, c + 1) = Streamed(segs, o, c)
  <2> DEFINE a == Streamed(segs, o, c)
             b == Streamed(Read(segs), o, c + 1)
  <2>1. a \in Seq(Nat)
    BY StreamTyped
  <2>2. b = a \o <<>>
    BY Zenon, <1>2, <1>3, NextPiece
  <2> HIDE DEF a, b
  <2> QED
    BY <2>1, <2>2 DEF a, b
<1> QED
  BY <1>2, <1>4

-----------------------------------------------------------------------------
(* The invariant *)

Manifests == [id : Nat, offset : Offset]

\* An offset is not past the end of the log.
Within(o) ==
    o[1] <= writer.segment /\ (o[1] = writer.segment => o[2] <= Len(segments[writer.segment]))

\* What the next start replays, if all that it reads is whole.
Replayed == StartField \o Streamed(segments, StartOffset, writer.segment)

Writing(p) == snapper[p].at \in {"write", "manifest"}

JournalTypes ==
    /\ Numbered(segments, writer.segment)
    /\ writer \in [segment : Nat, size : Nat]
    /\ field \in Seq(Nat) /\ made \in Nat /\ dropped \in BOOLEAN
    /\ \E n \in Nat : DOMAIN snaps = 1..n
    /\ snapper \in [Snapper -> [at : {"rest", "write", "manifest", "gc"}, id : Nat, offset : Offset]]
    /\ manifest \in {NoManifest, Torn} \cup Manifests

\* The writer knows the size of a segment of whole frames.
SizeExact ==
    (\A i \in DOMAIN segments[writer.segment] : segments[writer.segment][i] # Broken) =>
      writer.size = Len(segments[writer.segment])

\* One snapshotter at a time holds the locks, with the end of the log as its
\* offset; a manifest names a whole snapshot and a segment of the log; garbage
\* is collected only before the offset of the manifest; and what is not spoiled
\* replays to the field.
JournalInv ==
    /\ JournalTypes /\ SizeExact
    /\ \A p, q \in Snapper : Writing(p) /\ Writing(q) => p = q
    /\ \A p \in Snapper : Writing(p) => snapper[p].id \in DOMAIN snaps /\ snapper[p].offset = EndOffset
    /\ \A p \in Snapper :
         snapper[p].at = "manifest" => snaps[snapper[p].id] = field /\ manifest = Torn
    /\ \A p \in Snapper : snapper[p].at = "gc" =>
         /\ snapper[p].offset[1] <= writer.segment /\ manifest # NoManifest
         /\ manifest # Torn => snapper[p].offset[1] <= manifest.offset[1]
    /\ manifest \in Manifests =>
         /\ manifest.id \in DOMAIN snaps /\ snaps[manifest.id] \in Seq(Nat)
         /\ manifest.offset[1] <= writer.segment
    /\ manifest # Torn /\ ~ dropped /\ WholeFrom(StartOffset) => Within(StartOffset) /\ Replayed = field

\* A start appends the stream to what it begins with.
LEMMA StartTyped ==
    ASSUME JournalInv, manifest # Torn
    PROVE  /\ StartField \in Seq(Nat) /\ StartOffset \in Offset /\ StartOffset[1] <= writer.segment
           /\ writer.segment \in Nat \ {0}
           /\ Streamed(segments, StartOffset, writer.segment) \in Seq(Nat)
<1>1. Numbered(segments, writer.segment) /\ writer.segment \in Nat \ {0}
  BY DEF JournalInv, JournalTypes, Numbered
<1>2. StartField \in Seq(Nat) /\ StartOffset \in Offset /\ StartOffset[1] <= writer.segment
  <2>1. CASE manifest = NoManifest
    <3>1. StartField = <<>> /\ StartOffset = <<1, 0>>
      BY <2>1 DEF StartField, StartOffset
    <3> QED
      BY <1>1, <3>1 DEF Offset
  <2>2. CASE manifest # NoManifest
    <3>1. manifest \in Manifests
      BY <2>2 DEF JournalInv, JournalTypes
    <3>2. StartField = snaps[manifest.id] /\ StartOffset = manifest.offset
      BY <2>2 DEF StartField, StartOffset
    <3> QED
      BY Zenon, <3>1, <3>2 DEF JournalInv, Manifests
  <2> QED
    BY <2>1, <2>2
<1>3. Streamed(segments, StartOffset, writer.segment) \in Seq(Nat)
  BY <1>1, <1>2, StreamTyped
<1> QED
  BY <1>1, <1>2, <1>3

\* The empty journal recovers the empty field.
LEMMA JournalStarts == JournalInit => JournalInv
<1> SUFFICES ASSUME JournalInit PROVE JournalInv
  OBVIOUS
<1>1. DOMAIN segments = {1} /\ segments = [s \in {1} |-> <<>>] /\ <<>> \in Seq(Nat)
  BY DEF JournalInit
<1>2. writer = [segment |-> 1, size |-> 0] /\ writer.segment = 1 /\ writer.size = 0
  BY DEF JournalInit
<1>3. Numbered(segments, writer.segment)
  BY <1>1, <1>2 DEF Numbered
<1>4. ~ \E p \in Snapper : snapper[p].at # "rest"
  BY DEF JournalInit, Resting
<1>5. snapper \in [Snapper -> [at : {"rest", "write", "manifest", "gc"}, id : Nat, offset : Offset]]
  BY DEF JournalInit, Resting, Offset
<1>6. DOMAIN snaps = 1..0 /\ field = <<>> /\ made = 0 /\ dropped = FALSE /\ manifest = NoManifest
  BY DEF JournalInit
<1>7. JournalTypes
  <2>1. field \in Seq(Nat) /\ made \in Nat
    BY <1>6
  <2>2. dropped \in BOOLEAN
    BY <1>6, Zenon
  <2>3. writer \in [segment : Nat, size : Nat]
    BY <1>2
  <2> QED
    BY <1>3, <1>5, <1>6, <2>1, <2>2, <2>3 DEF JournalTypes
<1>8. Streamed(segments, <<1, 0>>, 1) = <<>>
  <2>1. ASSUME NEW s \in 1..1 PROVE Piece(segments, <<1, 0>>, s) = <<>>
    <3>1. s = 1 /\ segments[s] = <<>> /\ s \in DOMAIN segments
      BY <1>1
    <3> QED
      BY <3>1 DEF Piece
  <2> QED
    BY <2>1, EmptyStream
<1>9. Within(StartOffset) /\ Replayed = field /\ SizeExact
  <2>1. StartOffset = <<1, 0>> /\ StartField = <<>>
    BY <1>6 DEF StartOffset, StartField
  <2>2. Replayed = <<>> \o <<>>
    BY <1>2, <1>8, <2>1 DEF Replayed
  <2> QED
    BY <1>1, <1>2, <1>6, <2>1, <2>2 DEF Within, SizeExact
<1>10. manifest \notin Manifests
  BY <1>6, JournalAssumption DEF Manifests, Offset
<1> QED
  BY <1>4, <1>7, <1>9, <1>10 DEF JournalInv, Writing

\* The last segment is the one that is written, or the one behind it.
LEMMA CurrentIs ==
    ASSUME Numbered(segments, writer.segment)
    PROVE  /\ Current \in DOMAIN segments /\ Current \in {writer.segment, writer.segment + 1}
           /\ \A s \in DOMAIN segments : s <= Current
<1> DEFINE w == writer.segment
<1>1. CASE w + 1 \in DOMAIN segments
  <2>1. \A s \in DOMAIN segments : s <= w + 1
    BY DEF Numbered
  <2>2. Current = w + 1
    BY <1>1, <2>1, GreatestIs DEF Current, Numbered
  <2> QED
    BY <1>1, <2>1, <2>2
<1>2. CASE w + 1 \notin DOMAIN segments
  <2>1. w \in DOMAIN segments /\ \A s \in DOMAIN segments : s <= w
    BY <1>2 DEF Numbered
  <2>2. Current = w
    BY <2>1, GreatestIs DEF Current, Numbered
  <2> QED
    BY <2>1, <2>2
<1> QED
  BY <1>1, <1>2

\* What the next start recovers, if all that it reads is whole.
LEMMA RecoveredWhole ==
    ASSUME JournalInv, manifest # Torn, WholeFrom(StartOffset)
    PROVE  Recovered = Replayed
<1> DEFINE w == writer.segment
<1>1. /\ Numbered(segments, w) /\ w \in Nat /\ StartOffset \in Offset
  BY StartTyped DEF JournalInv, JournalTypes
<1>2. Current \in {w, w + 1}
  BY <1>1, CurrentIs
<1>3. Whole(segments, StartOffset) /\ Legible = Read(segments)
  BY DEF WholeFrom, Whole, Legible, Read
<1> HIDE DEF w
<1>4. Streamed(Read(segments), StartOffset, Current) = Streamed(segments, StartOffset, w)
  BY <1>1, <1>2, <1>3, WholeRead
<1> QED
  BY Zenon, <1>3, <1>4 DEF Recovered, Replayed, StreamFrom, w

\* append_delta keeps the invariant, with and without a rotation.
LEMMA EmitKeeps == ASSUME JournalInv, AppendDelta PROVE JournalInv'
<1> DEFINE c == writer.segment
           x == made + 1
<1>1. /\ Numbered(segments, c) /\ c \in Nat \ {0} /\ c \in DOMAIN segments /\ segments[c] \in Seq(Nat)
      /\ field \in Seq(Nat) /\ x \in Nat /\ writer.size \in Nat
  BY DEF JournalInv, JournalTypes, Numbered
<1>2. /\ made' = x /\ field' = Append(field, x)
      /\ UNCHANGED <<snaps, manifest, snapper, dropped>>
      /\ \A p \in Snapper : ~ Writing(p)
  BY DEF AppendDelta, Locked, Writing
<1>3. PICK t \in Target : /\ segments' = Put(segments, t, Append(File(t), x))
                          /\ writer' = [segment |-> t, size |-> Placed(t).size + 1]
  BY <1>2 DEF AppendDelta
<1>4. t \in {c, c + 1} /\ writer'.segment = t /\ writer'.size = Placed(t).size + 1
  BY <1>3 DEF Target
<1>5. ASSUME NEW o \in Offset, Within(o)
      PROVE  /\ Within(o)'
             /\ Streamed(segments', o, t) = Append(Streamed(segments, o, c), x)
  <2>1. o[1] <= c /\ (o[1] = c => o[2] <= Len(segments[c])) /\ o[2] \in Nat /\ o[1] \in Nat
    BY <1>5 DEF Within, Offset
  <2>2. CASE t = c
    <3>1. segments' = Put(segments, c, Append(segments[c], x))
      BY <1>3, <2>2 DEF File
    <3> HIDE DEF c, x
    <3>2. /\ Len(segments'[c]) = Len(segments[c]) + 1
          /\ Streamed(segments', o, c) = Append(Streamed(segments, o, c), x)
      BY ZenonT(60), <1>1, <2>1, <3>1, AppendedLast
    <3>3. Len(segments[c]) \in Nat
      BY <1>1
    <3> QED
      BY <1>4, <2>1, <2>2, <3>2, <3>3 DEF Within
  <2>3. CASE t = c + 1
    <3>1. t # writer.segment
      BY <1>1, <2>3
    <3>2. segments' = Put(segments, c + 1, <<x>>)
      <4>1. File(t) = <<>> /\ Append(<<>>, x) = <<x>>
        BY <3>1 DEF File
      <4> QED
        BY Zenon, <1>3, <2>3, <4>1
    <3> HIDE DEF c, x
    <3>3. Streamed(segments', o, c + 1) = Append(Streamed(segments, o, c), x)
      BY Zenon, <1>1, <2>1, <3>2, RotatedLast
    <3>4. o[1] < t
      BY <1>1, <2>1, <2>3
    <3> QED
      BY <1>4, <2>1, <2>3, <3>3, <3>4 DEF Within
  <2> QED
    BY <1>4, <2>2, <2>3
<1>6. Numbered(segments', t) /\ SizeExact' /\ c <= t
  <2> DEFINE o == <<1, 0>>
  <2>1. o \in Offset /\ o[1] <= c /\ (o[1] = c => o[2] <= Len(segments[c]))
    BY <1>1 DEF Offset
  <2>2. CASE t = c
    <3>1. segments' = Put(segments, c, Append(segments[c], x)) /\ Placed(t) = writer
      BY <1>3, <2>2 DEF File, Placed
    <3>2. Numbered(segments', c)
      <4> HIDE DEF c, x, o
      <4> QED
        BY ZenonT(60), <1>1, <2>1, <3>1, AppendedLast
    <3>3. segments'[c] = Append(segments[c], x)
      BY <1>1, <3>1 DEF Put
    <3>4. SizeExact'
      <4> SUFFICES ASSUME \A i \in DOMAIN segments'[c] : segments'[c][i] # Broken
                   PROVE  writer'.size = Len(segments'[c])
        BY <1>4, <2>2 DEF SizeExact
      <4> DEFINE q == segments[c]
      <4>1. q \in Seq(Nat) /\ segments'[c] = Append(q, x)
        BY <1>1, <3>3
      <4> HIDE DEF q
      <4>2. ASSUME NEW i \in DOMAIN q PROVE q[i] # Broken
        <5>1. i \in DOMAIN Append(q, x) /\ Append(q, x)[i] = q[i]
          BY <1>1, <4>1
        <5> QED
          BY <4>1, <5>1
      <4>3. writer.size = Len(q)
        BY <4>2 DEF JournalInv, SizeExact, q
      <4> QED
        BY <1>1, <1>4, <3>1, <4>1, <4>3
    <3> QED
      BY <1>1, <2>2, <3>2, <3>4
  <2>3. CASE t = c + 1
    <3>1. t # writer.segment
      BY <1>1, <2>3
    <3>2. segments' = Put(segments, c + 1, <<x>>) /\ Placed(t).size = 0
      <4>1. File(t) = <<>> /\ Append(<<>>, x) = <<x>>
        BY <3>1 DEF File
      <4>2. Placed(t).size = 0
        BY <3>1 DEF Placed
      <4> QED
        BY Zenon, <1>3, <2>3, <4>1, <4>2
    <3>3. Numbered(segments', c + 1)
      <4> HIDE DEF c, x, o
      <4> QED
        BY Zenon, <1>1, <2>1, <3>2, RotatedLast
    <3>4. segments'[t] = <<x>>
      BY <2>3, <3>2 DEF Put
    <3>5. SizeExact'
      BY <1>4, <3>2, <3>4 DEF SizeExact
    <3> QED
      BY <1>1, <2>3, <3>3, <3>5
  <2> QED
    BY <1>4, <2>2, <2>3
<1>7. JournalTypes'
  <2>1. Append(field, x) \in Seq(Nat)
    BY <1>1
  <2>2. writer' \in [segment : Nat, size : Nat]
    <3>1. Placed(t).size \in Nat
      BY <1>1 DEF Placed
    <3> QED
      BY <1>1, <1>3, <1>4, <3>1
  <2> QED
    BY Zenon, <1>1, <1>2, <1>4, <1>6, <2>1, <2>2 DEF JournalInv, JournalTypes
<1>8. StartField' = StartField /\ StartOffset' = StartOffset
  BY <1>2 DEF StartField, StartOffset
<1>9. ASSUME manifest # Torn, ~ dropped, WholeFrom(StartOffset)'
      PROVE  Within(StartOffset)' /\ Replayed' = field'
  <2> DEFINE o == StartOffset
             a == StartField
             b == Streamed(segments, o, c)
  <2>1. a \in Seq(Nat) /\ o \in Offset /\ b \in Seq(Nat) /\ o[1] <= c
    BY <1>9, StartTyped
  <2>2. WholeFrom(o)
    <3> SUFFICES ASSUME NEW s \in DOMAIN segments, s >= o[1], NEW i \in DOMAIN segments[s]
                 PROVE  segments[s][i] # Broken
      BY DEF WholeFrom
    <3>1. s \in DOMAIN segments' /\ (s # t => segments'[s] = segments[s]) /\ segments[s] \in Seq(Nat)
      BY <1>1, <1>3 DEF Put, Numbered
    <3>2. \A j \in DOMAIN segments'[s] : segments'[s][j] # Broken
      BY <1>8, <1>9, <3>1 DEF WholeFrom
    <3>3. CASE s # t
      BY <3>1, <3>2, <3>3
    <3>4. CASE s = t /\ t = c
      <4>1. segments'[s] = Append(segments[s], x)
        BY <1>3, <3>4 DEF Put, File
      <4>2. i \in DOMAIN Append(segments[s], x) /\ Append(segments[s], x)[i] = segments[s][i]
        BY <1>1, <3>1
      <4> QED
        BY <3>2, <4>1, <4>2
    <3>5. CASE s = t /\ t = c + 1
      <4>1. segments[s] = <<>>
        BY <1>1, <3>5 DEF Numbered
      <4> QED
        BY <4>1
    <3> QED
      BY <1>4, <3>3, <3>4, <3>5
  <2>3. Within(o) /\ Replayed = field
    BY <1>9, <2>2 DEF JournalInv
  <2>4. Streamed(segments', o, t) = Append(b, x) /\ Within(StartOffset)'
    <3>1. PICK k \in Offset : k = o /\ Within(k)
      BY <2>1, <2>3
    <3>2. Streamed(segments', k, t) = Append(Streamed(segments, k, c), x) /\ Within(k)'
      BY Zenon, <1>5, <3>1
    <3> QED
      BY Zenon, <1>8, <3>1, <3>2 DEF Within
  <2>5. Replayed' = a \o Append(b, x)
    BY Zenon, <1>4, <1>8, <2>4 DEF Replayed
  <2>6. Replayed = a \o b
    BY DEF Replayed
  <2> HIDE DEF a, b, x
  <2>7. a \o Append(b, x) = Append(a \o b, x)
    BY <1>1, <2>1
  <2> QED
    BY Zenon, <1>2, <2>3, <2>4, <2>5, <2>6, <2>7
<1>10. manifest \in Manifests => manifest.offset[1] <= t
  BY <1>1, <1>4, <1>6 DEF JournalInv, Manifests, Offset
<1>11. \A p \in Snapper : snapper[p].at = "gc" => snapper[p].offset[1] <= t
  <2> SUFFICES ASSUME NEW p \in Snapper, snapper[p].at = "gc" PROVE snapper[p].offset[1] <= t
    OBVIOUS
  <2>1. snapper[p].offset[1] <= c /\ snapper[p].offset[1] \in Nat
    BY Zenon DEF JournalInv, JournalTypes, Offset
  <2> QED
    BY <1>1, <1>4, <1>6, <2>1
<1> QED
  BY Zenon, <1>2, <1>4, <1>6, <1>7, <1>9, <1>10, <1>11 DEF JournalInv, Writing

\* A segment that is rewritten, begun or only created keeps the numbers.
LEMMA PutNumbered ==
    ASSUME NEW segs, NEW c, Numbered(segs, c), NEW q \in Seq(Nat)
    PROVE  Numbered(Put(segs, c, q), c) /\ Numbered(Put(segs, c + 1, q), c + 1)
           /\ Numbered(Put(segs, c + 1, <<>>), c)
<1>1. c \in Nat \ {0} /\ <<>> \in Seq(Nat)
  BY DEF Numbered
<1>2. ASSUME NEW k \in {c, c + 1}, NEW v \in Seq(Nat)
      PROVE  /\ DOMAIN Put(segs, k, v) = DOMAIN segs \cup {k}
             /\ Put(segs, k, v) \in [DOMAIN segs \cup {k} -> Seq(Nat)]
             /\ Put(segs, k, v)[k] = v
             /\ \A s \in DOMAIN segs : s # k => Put(segs, k, v)[s] = segs[s]
  BY DEF Put, Numbered
<1>3. Numbered(Put(segs, c, q), c)
  BY <1>1, <1>2 DEF Numbered
<1>4. Numbered(Put(segs, c + 1, q), c + 1)
  <2>1. \A s \in DOMAIN segs : s <= c + 1
    BY <1>1 DEF Numbered
  <2> QED
    BY <1>1, <1>2, <2>1 DEF Numbered
<1>5. Numbered(Put(segs, c + 1, <<>>), c)
  <2>1. c \in DOMAIN segs /\ \A s \in DOMAIN segs : s <= c \/ s = c + 1
    BY <1>1 DEF Numbered
  <2>2. c # c + 1 /\ c + 1 \in Nat \ {0} /\ DOMAIN segs \subseteq Nat \ {0}
    BY <1>1 DEF Numbered
  <2> DEFINE after == Put(segs, c + 1, <<>>)
  <2>3. /\ DOMAIN after = DOMAIN segs \cup {c + 1} /\ after[c + 1] = <<>>
        /\ after \in [DOMAIN segs \cup {c + 1} -> Seq(Nat)]
    BY Zenon, <1>1, <1>2
  <2> HIDE DEF after
  <2>4. /\ DOMAIN after \subseteq Nat \ {0} /\ c \in DOMAIN after
        /\ \A s \in DOMAIN after : s <= c \/ (s = c + 1 /\ after[s] = <<>>)
    BY <2>1, <2>2, <2>3
  <2>5. Numbered(after, c)
    BY Zenon, <2>3, <2>4 DEF Numbered
  <2> QED
    BY <2>5 DEF after
<1> QED
  BY <1>3, <1>4, <1>5

\* A failed append keeps it: the field is not to be recovered.
LEMMA DropKeeps == ASSUME JournalInv, DropDelta PROVE JournalInv'
<1> DEFINE c == writer.segment
<1>1. /\ field' = Append(field, made + 1) /\ made' = made + 1 /\ dropped'
      /\ UNCHANGED <<snaps, manifest, snapper>>
      /\ \A p \in Snapper : ~ Writing(p)
  BY DEF DropDelta, Locked, Writing
<1>2. /\ Numbered(segments, c) /\ c \in Nat \ {0} /\ c \in DOMAIN segments /\ segments[c] \in Seq(Nat)
      /\ writer \in [segment : Nat, size : Nat] /\ SizeExact
  BY DEF JournalInv, JournalTypes, Numbered
<1>3. /\ Numbered(segments', writer'.segment) /\ SizeExact' /\ c <= writer'.segment
      /\ writer' \in [segment : Nat, size : Nat]
  <2>1. CASE UNCHANGED <<segments, writer>>
    BY <1>2, <2>1 DEF SizeExact
  <2>2. CASE /\ segments' = Put(segments, c + 1, <<>>)
             /\ writer' \in {writer, Placed(c + 1)}
    <3>1. /\ segments'[c] = segments[c] /\ segments'[c + 1] = <<>>
          /\ Numbered(segments', c) /\ Numbered(segments', c + 1)
      <4>1. segments'[c] = segments[c] /\ segments'[c + 1] = <<>>
        BY <1>2, <2>2 DEF Put
      <4>2. <<>> \in Seq(Nat)
        OBVIOUS
      <4> HIDE DEF c
      <4> QED
        BY Zenon, <1>2, <2>2, <4>1, <4>2, PutNumbered
    <3>2. CASE writer' = writer
      BY <1>2, <3>1, <3>2 DEF SizeExact
    <3>3. CASE writer' = Placed(c + 1)
      <4>1. Placed(c + 1) = [segment |-> c + 1, size |-> 0]
        BY <1>2 DEF Placed
      <4> QED
        BY <1>2, <3>1, <3>3, <4>1 DEF SizeExact
    <3> QED
      BY <2>2, <3>2, <3>3
  <2>3. ASSUME NEW t \in Target, segments' = Put(segments, t, Append(Trimmed(File(t)), Broken)),
               writer' = Placed(t)
        PROVE  /\ Numbered(segments', writer'.segment) /\ SizeExact' /\ c <= writer'.segment
               /\ writer' \in [segment : Nat, size : Nat]
    <3> DEFINE q == Trimmed(File(t))
    <3>1. t \in {c, c + 1}
      BY DEF Target
    <3>2. q \in Seq(Nat)
      <4>1. File(t) \in Seq(Nat)
        BY <1>2 DEF File
      <4> QED
        BY <4>1, TrimmedTyped
    <3>3. writer' \in [segment : Nat, size : Nat] /\ writer'.segment = t /\ c <= t
      <4>1. CASE t = c
        BY <1>2, <2>3, <4>1 DEF Placed
      <4>2. CASE t = c + 1
        <5>1. Placed(t) = [segment |-> t, size |-> 0]
          BY <1>2, <4>2 DEF Placed
        <5> QED
          BY <1>2, <2>3, <4>2, <5>1
      <4> QED
        BY <3>1, <4>1, <4>2
    <3>4. segments' = Put(segments, t, Append(q, Broken))
      BY <2>3
    <3> HIDE DEF q
    <3>5. Append(q, Broken) \in Seq(Nat)
      BY <3>2 DEF Broken
    <3>6. Numbered(segments', t)
      <4> HIDE DEF c
      <4> QED
        BY Zenon, <1>2, <3>1, <3>4, <3>5, PutNumbered
    <3>7. segments'[t] = Append(q, Broken)
      BY <3>4 DEF Put
    <3>8. \E i \in DOMAIN segments'[t] : segments'[t][i] = Broken
      <4>1. Len(q) + 1 \in DOMAIN Append(q, Broken) /\ Append(q, Broken)[Len(q) + 1] = Broken
        BY <3>2
      <4> QED
        BY <3>7, <4>1
    <3> QED
      BY <3>3, <3>6, <3>8 DEF SizeExact
  <2> QED
    BY <2>1, <2>2, <2>3 DEF DropDelta
<1>4. JournalTypes'
  <2>1. Append(field, made + 1) \in Seq(Nat) /\ made + 1 \in Nat
    BY DEF JournalInv, JournalTypes
  <2>2. dropped' \in BOOLEAN
    BY Zenon DEF DropDelta
  <2> QED
    BY Zenon, <1>1, <1>3, <2>1, <2>2 DEF JournalInv, JournalTypes
<1>5. manifest \in Manifests => manifest.offset[1] <= writer'.segment
  BY <1>2, <1>3 DEF JournalInv, Manifests, Offset
<1>6. \A p \in Snapper : snapper[p].at = "gc" => snapper[p].offset[1] <= writer'.segment
  <2> SUFFICES ASSUME NEW p \in Snapper, snapper[p].at = "gc"
               PROVE  snapper[p].offset[1] <= writer'.segment
    OBVIOUS
  <2>1. snapper[p].offset[1] <= c /\ snapper[p].offset[1] \in Nat
    BY Zenon DEF JournalInv, JournalTypes, Offset
  <2> QED
    BY <1>2, <1>3, <2>1
<1> QED
  BY Zenon, <1>1, <1>3, <1>4, <1>5, <1>6 DEF JournalInv, Writing

\* A restart recovers the field, nobody is writing, and the writer is at the
\* end of the last segment.
LEMMA RestartKeeps == ASSUME JournalInv, Restart PROVE JournalInv'
<1> DEFINE c == Current
           o == StartOffset
<1>1. manifest # Torn
  BY JournalAssumption DEF Restart, Readable
<1>2. PICK n \in 0 .. Len(segments[c]) :
        /\ segments' = [segments EXCEPT ![c] = SubSeq(@, 1, n)]
        /\ writer' = [segment |-> c, size |-> n]
        /\ dropped' = (o[1] = c /\ o[2] > n)
  BY DEF Restart
<1>3. /\ UNCHANGED <<snaps, manifest, made>> /\ snapper' = [p \in Snapper |-> Resting]
      /\ field' = StartField \o Streamed(Legible', o, c)
  BY DEF Restart
<1>4. /\ Numbered(segments, writer.segment) /\ writer.segment \in Nat
      /\ c \in DOMAIN segments /\ c \in {writer.segment, writer.segment + 1}
      /\ \A s \in DOMAIN segments : s <= c
  BY CurrentIs DEF JournalInv, JournalTypes, Numbered
<1>5. c \in Nat \ {0} /\ segments[c] \in Seq(Nat) /\ n \in Nat
  BY <1>4 DEF Numbered
<1>6. StartField \in Seq(Nat) /\ o \in Offset /\ o[1] <= c
  <2>1. StartField \in Seq(Nat) /\ o \in Offset /\ o[1] <= writer.segment
    BY <1>1, StartTyped
  <2> QED
    BY <1>4, <2>1 DEF Offset
<1>7. /\ DOMAIN segments' = DOMAIN segments /\ segments'[c] = SubSeq(segments[c], 1, n)
      /\ SubSeq(segments[c], 1, n) \in Seq(Nat) /\ Len(SubSeq(segments[c], 1, n)) = n
      /\ \A s \in DOMAIN segments : s # c => segments'[s] = segments[s]
  <2> DEFINE q == segments[c]
  <2>1. q \in Seq(Nat) /\ n \in 0..Len(q)
    BY <1>5
  <2> HIDE DEF q
  <2>2. SubSeq(q, 1, n) \in Seq(Nat) /\ Len(SubSeq(q, 1, n)) = n
    BY <2>1
  <2>3. segments' = [segments EXCEPT ![c] = SubSeq(q, 1, n)]
    BY <1>2 DEF q
  <2> HIDE DEF c
  <2> QED
    BY <1>4, <2>2, <2>3 DEF q, Numbered
<1>8. Numbered(segments', c)
  <2>1. \A s \in DOMAIN segments' : segments'[s] \in Seq(Nat)
    BY Zenon, <1>7, <1>4 DEF Numbered
  <2>2. segments' = [s \in DOMAIN segments' |-> segments'[s]]
    BY Zenon, <1>2, <1>4 DEF Numbered
  <2> HIDE DEF c
  <2> QED
    BY <1>4, <1>5, <1>7, <2>1, <2>2 DEF Numbered
<1>9. writer'.segment = c /\ writer'.size = n /\ writer' \in [segment : Nat, size : Nat] /\ SizeExact'
  <2>1. writer'.segment = c /\ writer'.size = n /\ writer' \in [segment : Nat, size : Nat]
    BY <1>2, <1>5
  <2> QED
    BY <1>7, <2>1 DEF SizeExact
<1>10. \A p \in Snapper : snapper'[p].at = "rest"
  BY <1>3 DEF Resting
<1>11. StartField' = StartField /\ StartOffset' = o /\ Legible' = Read(segments')
  BY <1>3 DEF StartField, StartOffset, Legible, Read
<1>12. JournalTypes'
  <2>1. field' \in Seq(Nat)
    <3> DEFINE b == Streamed(Legible', o, c)
    <3>1. Numbered(Read(segments'), c)
      BY <1>8, ReadNumbered
    <3>2. b \in Seq(Nat)
      <4> HIDE DEF c, o
      <4> QED
        BY <1>5, <1>6, <1>11, <3>1, StreamTyped
    <3>3. field' = StartField \o b
      BY <1>3
    <3> HIDE DEF b
    <3> QED
      BY <1>6, <3>2, <3>3
  <2>2. snapper' \in [Snapper -> [at : {"rest", "write", "manifest", "gc"}, id : Nat, offset : Offset]]
    BY <1>3 DEF Resting, Offset
  <2>3. dropped' \in BOOLEAN
    BY <1>2, Zenon
  <2> QED
    BY Zenon, <1>3, <1>8, <1>9, <2>1, <2>2, <2>3 DEF JournalInv, JournalTypes
<1>13. ASSUME ~ dropped', WholeFrom(StartOffset)'
       PROVE  Within(StartOffset)' /\ Replayed' = field'
  <2>1. Whole(segments', o)
    BY <1>11, <1>13 DEF WholeFrom, Whole
  <2>2. Streamed(Read(segments'), o, c) = Streamed(segments', o, c)
    <3> HIDE DEF c, o
    <3> QED
      BY <1>5, <1>6, <1>8, <2>1, WholeRead
  <2>3. Replayed' = field'
    BY Zenon, <1>3, <1>9, <1>11, <2>2 DEF Replayed
  <2>4. o[1] = c => o[2] <= n
    <3>1. ~ (o[1] = c /\ o[2] > n)
      BY Zenon, <1>2, <1>13
    <3>2. o[2] \in Nat
      BY <1>6 DEF Offset
    <3> QED
      BY <1>5, <3>1, <3>2
  <2>5. Within(StartOffset)'
    BY <1>6, <1>7, <1>9, <1>11, <2>4 DEF Within
  <2> QED
    BY <2>3, <2>5
<1>14. manifest \in Manifests => manifest.offset[1] <= c
  <2>1. manifest \in Manifests => manifest.offset[1] <= writer.segment /\ manifest.offset[1] \in Nat
    BY DEF JournalInv, Manifests, Offset
  <2> QED
    BY <1>4, <2>1
<1> QED
  BY Zenon, <1>1, <1>3, <1>9, <1>10, <1>12, <1>13, <1>14 DEF JournalInv, Writing

\* A snapshot begins with a new file and the end of the log.
LEMMA BeginKeeps ==
    ASSUME JournalInv, NEW p \in Snapper, BeginSnapshot(p)
    PROVE  JournalInv'
<1>1. PICK n \in Nat : DOMAIN snaps = 1..n
  BY Zenon DEF JournalInv, JournalTypes
<1>2. NextSnapshotId = n + 1
  <2> DEFINE Largest(k) == \A i \in DOMAIN snaps : i <= k
             top == CHOOSE k \in DOMAIN snaps \cup {0} : Largest(k)
  <2>1. n \in DOMAIN snaps \cup {0} /\ Largest(n)
    BY <1>1
  <2>2. top \in DOMAIN snaps \cup {0} /\ Largest(top)
    BY Zenon, <2>1
  <2>3. NextSnapshotId = 1 + top
    BY Zenon DEF NextSnapshotId
  <2> HIDE DEF top
  <2>4. top = n
    BY <1>1, <2>2
  <2> QED
    BY <2>3, <2>4
<1>3. /\ snaps' = Put(snaps, n + 1, Torn)
      /\ snapper' = [snapper EXCEPT ![p] = [at |-> "write", id |-> n + 1, offset |-> EndOffset]]
      /\ UNCHANGED <<field, segments, writer, manifest, made, dropped>>
      /\ \A q \in Snapper : ~ Writing(q)
  BY Zenon, <1>2 DEF BeginSnapshot, Locked, Writing
<1>4. DOMAIN snaps' = 1..(n + 1) /\ \A i \in DOMAIN snaps : snaps'[i] = snaps[i]
  BY <1>1, <1>3 DEF Put
<1>5. EndOffset' = EndOffset /\ EndOffset \in Offset /\ SizeExact'
  BY <1>3 DEF EndOffset, JournalInv, JournalTypes, SizeExact, Offset
<1>6. ASSUME NEW q \in Snapper
      PROVE  IF q = p THEN snapper'[q].at = "write" /\ snapper'[q].id = n + 1
                           /\ snapper'[q].offset = EndOffset
                      ELSE snapper'[q] = snapper[q]
  BY Zenon, <1>3 DEF JournalInv, JournalTypes
<1>7. JournalTypes'
  <2> DEFINE States == [at : {"rest", "write", "manifest", "gc"}, id : Nat, offset : Offset]
             begun == [at |-> "write", id |-> n + 1, offset |-> EndOffset]
  <2>1. begun \in States /\ snapper \in [Snapper -> States] /\ snapper' = [snapper EXCEPT ![p] = begun]
    BY <1>3, <1>5 DEF JournalInv, JournalTypes
  <2> HIDE DEF States, begun
  <2>2. snapper' \in [Snapper -> States]
    BY <2>1
  <2> QED
    BY Zenon, <1>3, <1>4, <1>5, <2>2 DEF JournalInv, JournalTypes, States
<1>8. manifest \in Manifests =>
        manifest'.id \in DOMAIN snaps' /\ snaps'[manifest'.id] = snaps[manifest.id]
  <2>1. manifest \in Manifests => manifest.id \in DOMAIN snaps
    BY Zenon DEF JournalInv
  <2>2. manifest' = manifest
    BY Zenon, <1>3
  <2>3. DOMAIN snaps \subseteq DOMAIN snaps'
    BY <1>1, <1>4
  <2> QED
    BY Zenon, <1>4, <2>1, <2>2, <2>3
<1>9. manifest # Torn => /\ StartOffset' = StartOffset /\ Replayed' = Replayed
                        /\ Within(StartOffset)' = Within(StartOffset)
                        /\ WholeFrom(StartOffset)' = WholeFrom(StartOffset)
  <2> SUFFICES ASSUME manifest # Torn
               PROVE  StartOffset' = StartOffset /\ StartField' = StartField
    BY <1>3 DEF Replayed, Within, WholeFrom
  <2>1. CASE manifest \in Manifests
    BY Zenon, <1>3, <1>8, <2>1 DEF StartOffset, StartField
  <2>2. CASE manifest = NoManifest
    BY <1>3, <2>2 DEF StartOffset, StartField
  <2> QED
    BY <2>1, <2>2 DEF JournalInv, JournalTypes
<1>10. \A q \in Snapper : Writing(q)' => q = p
  BY <1>3, <1>6 DEF Writing
<1>11. \A q \in Snapper : snapper'[q].at \in {"gc", "manifest"} => snapper'[q] = snapper[q] /\ ~ Writing(q)
  BY <1>3, <1>6
<1>12. \A q \in Snapper : Writing(q)' => snapper'[q].id \in DOMAIN snaps' /\ snapper'[q].offset = EndOffset'
  <2>1. n + 1 \in 1..(n + 1)
    OBVIOUS
  <2> QED
    BY Zenon, <1>4, <1>5, <1>6, <1>10, <2>1
<1>13. \A q \in Snapper : snapper'[q].at = "manifest" => FALSE
  BY Zenon, <1>3, <1>11 DEF Writing
<1> QED
  BY Zenon, <1>3, <1>5, <1>7, <1>8, <1>9, <1>10, <1>11, <1>12, <1>13 DEF JournalInv

\* The snapshot is the field; the manifest cannot be read for a while.
LEMMA WriteFileKeeps ==
    ASSUME JournalInv, NEW p \in Snapper, WriteSnapshotFile(p)
    PROVE  JournalInv'
<1>1. /\ snaps' = [snaps EXCEPT ![snapper[p].id] = field] /\ manifest' = Torn
      /\ snapper' = [snapper EXCEPT ![p].at = "manifest"]
      /\ UNCHANGED <<field, segments, writer, made, dropped>> /\ Writing(p)
  BY DEF WriteSnapshotFile, Writing
<1>2. EndOffset' = EndOffset /\ SizeExact'
  BY <1>1 DEF EndOffset, JournalInv, SizeExact
<1>3. ASSUME NEW q \in Snapper
      PROVE  /\ snapper'[q].id = snapper[q].id /\ snapper'[q].offset = snapper[q].offset
             /\ snapper'[q].at = IF q = p THEN "manifest" ELSE snapper[q].at
  BY <1>1 DEF JournalInv, JournalTypes
<1>4. snapper[p].id \in DOMAIN snaps /\ DOMAIN snaps' = DOMAIN snaps /\ snaps'[snapper[p].id] = field
  BY <1>1 DEF JournalInv
<1>5. JournalTypes'
  <2>1. snapper' \in [Snapper -> [at : {"rest", "write", "manifest", "gc"}, id : Nat, offset : Offset]]
    BY <1>1 DEF JournalInv, JournalTypes
  <2> QED
    BY <1>1, <1>2, <1>4, <2>1 DEF JournalInv, JournalTypes
<1>6. \A q \in Snapper : Writing(q)' => q = p
  BY <1>1, <1>3 DEF JournalInv, Writing
<1>7. Torn \notin Manifests /\ Torn # NoManifest
  BY JournalAssumption DEF Manifests, Offset
<1>8. \A q \in Snapper : snapper'[q].at = "manifest" => q = p
  BY <1>6 DEF Writing
<1>9. \A q \in Snapper : Writing(q)' =>
        snapper'[q].id \in DOMAIN snaps' /\ snapper'[q].offset = EndOffset'
  BY <1>1, <1>2, <1>3, <1>4, <1>6 DEF JournalInv
<1>10. \A q \in Snapper : snapper'[q].at = "gc" =>
         snapper'[q].offset[1] <= writer'.segment /\ manifest' # NoManifest
  BY <1>1, <1>2, <1>3, <1>7 DEF JournalInv
<1> QED
  BY <1>1, <1>2, <1>3, <1>4, <1>5, <1>6, <1>7, <1>8, <1>9, <1>10 DEF JournalInv

\* The manifest names the snapshot and the end of the log: nothing follows.
LEMMA WriteManifestKeeps ==
    ASSUME JournalInv, NEW p \in Snapper, WriteManifest(p)
    PROVE  JournalInv'
<1> DEFINE id == snapper[p].id
           o == snapper[p].offset
           c == writer.segment
<1>1. /\ manifest' = [id |-> id, offset |-> o] /\ dropped' = FALSE
      /\ snapper' = [snapper EXCEPT ![p].at = "gc"]
      /\ UNCHANGED <<field, segments, writer, snaps, made>>
      /\ snapper[p].at = "manifest" /\ Writing(p)
  BY DEF WriteManifest, Writing
<1>2. SizeExact'
  BY <1>1 DEF JournalInv, SizeExact
<1>3. id \in DOMAIN snaps /\ snaps[id] = field /\ o = <<c, writer.size>>
  BY <1>1 DEF JournalInv, EndOffset
<1>4. id \in Nat /\ o \in Offset
  BY Zenon DEF JournalInv, JournalTypes
<1>5. /\ Numbered(segments, c) /\ c \in Nat /\ field \in Seq(Nat) /\ segments[c] \in Seq(Nat)
      /\ c \in DOMAIN segments /\ o[1] = c /\ o[2] = writer.size
  BY <1>3 DEF JournalInv, JournalTypes, Numbered
<1>6. ASSUME NEW q \in Snapper
      PROVE  /\ snapper'[q].id = snapper[q].id /\ snapper'[q].offset = snapper[q].offset
             /\ snapper'[q].at = IF q = p THEN "gc" ELSE snapper[q].at
  BY <1>1 DEF JournalInv, JournalTypes
<1>7. manifest' \in Manifests /\ manifest' # NoManifest /\ manifest'.id = id /\ manifest'.offset = o
  <2>1. manifest' \in Manifests
    BY <1>1, <1>4 DEF Manifests
  <2>2. NoManifest \notin Manifests
    BY JournalAssumption DEF Manifests, Offset
  <2> QED
    BY <1>1, <2>1, <2>2
<1>8. JournalTypes'
  <2>1. snapper' \in [Snapper -> [at : {"rest", "write", "manifest", "gc"}, id : Nat, offset : Offset]]
    BY <1>1 DEF JournalInv, JournalTypes
  <2>2. dropped' \in BOOLEAN
    BY <1>1, Zenon
  <2> QED
    BY <1>1, <1>2, <1>7, <2>1, <2>2 DEF JournalInv, JournalTypes
<1>9. StartField' = field /\ StartOffset' = o
  BY <1>1, <1>3, <1>7 DEF StartField, StartOffset
<1>10. ASSUME WholeFrom(StartOffset)' PROVE Within(StartOffset)' /\ Replayed' = field'
  <2>1. \A i \in DOMAIN segments[c] : segments[c][i] # Broken
    <3>1. \A s \in DOMAIN segments : s >= o[1] => \A i \in DOMAIN segments[s] : segments[s][i] # Broken
      BY Zenon, <1>1, <1>9, <1>10 DEF WholeFrom
    <3>2. c >= o[1]
      BY <1>5
    <3> QED
      BY Zenon, <1>5, <3>1, <3>2
  <2>2. writer.size = Len(segments[c])
    BY <2>1 DEF JournalInv, SizeExact
  <2>3. o = <<c, Len(segments[c])>>
    BY <1>3, <2>2
  <2>4. Streamed(segments, o, c) = <<>>
    <3> HIDE DEF c, o
    <3> QED
      BY <1>5, <2>3, NothingAfterEnd
  <2>5. Replayed' = field \o <<>>
    BY Zenon, <1>1, <1>9, <2>4 DEF Replayed
  <2>6. field \o <<>> = field
    BY <1>5
  <2>7. Within(StartOffset)'
    BY <1>1, <1>5, <1>9, <2>2 DEF Within
  <2> QED
    BY <1>1, <2>5, <2>6, <2>7
<1>11. \A q \in Snapper : ~ Writing(q)'
  BY <1>1, <1>6 DEF JournalInv, Writing
<1>12. \A q \in Snapper : snapper'[q].at = "gc" => snapper'[q].offset[1] <= c
  <2> SUFFICES ASSUME NEW q \in Snapper, snapper'[q].at = "gc" PROVE snapper'[q].offset[1] <= c
    OBVIOUS
  <2>1. CASE q = p
    BY <1>5, <1>6, <2>1
  <2>2. CASE q # p
    BY <1>6, <2>2 DEF JournalInv
  <2> QED
    BY <2>1, <2>2
<1> QED
  BY <1>1, <1>2, <1>3, <1>5, <1>7, <1>8, <1>10, <1>11, <1>12 DEF JournalInv, Writing

\* A snapshot that fails releases the locks.
LEMMA FailsKeeps ==
    ASSUME JournalInv, NEW p \in Snapper, SnapshotFails(p)
    PROVE  JournalInv'
<1>1. /\ snapper' = [snapper EXCEPT ![p] = Resting]
      /\ UNCHANGED <<field, segments, writer, snaps, manifest, made, dropped>>
  BY DEF SnapshotFails
<1>2. /\ EndOffset' = EndOffset /\ Replayed' = Replayed /\ StartOffset' = StartOffset
      /\ SizeExact' = SizeExact
      /\ WholeFrom(StartOffset)' = WholeFrom(StartOffset) /\ Within(StartOffset)' = Within(StartOffset)
  BY <1>1 DEF EndOffset, Replayed, StartField, StartOffset, SizeExact, WholeFrom, Within
<1>3. \A q \in Snapper : snapper'[q] = IF q = p THEN Resting ELSE snapper[q]
  BY Zenon, <1>1 DEF JournalInv, JournalTypes
<1>4. \A q \in Snapper : snapper'[q].at # "rest" => snapper'[q] = snapper[q]
  BY <1>3 DEF Resting
<1>5. JournalTypes'
  <2>1. snapper' \in [Snapper -> [at : {"rest", "write", "manifest", "gc"}, id : Nat, offset : Offset]]
    BY <1>1 DEF JournalInv, JournalTypes, Resting, Offset
  <2> QED
    BY Zenon, <1>1, <1>2, <2>1 DEF JournalInv, JournalTypes
<1> QED
  BY Zenon, <1>1, <1>2, <1>4, <1>5 DEF JournalInv, Writing

\* What run_gc removes lies before the offset that the next start streams from.
LEMMA CollectKeeps ==
    ASSUME JournalInv, NEW p \in Snapper, Collect(p)
    PROVE  JournalInv'
<1> DEFINE c == writer.segment
           k == snapper[p].offset[1]
<1>1. /\ segments' = [s \in {t \in DOMAIN segments : t >= k \/ t = c} |-> segments[s]]
      /\ snapper' = [snapper EXCEPT ![p] = Resting]
      /\ UNCHANGED <<field, writer, snaps, manifest, made, dropped>>
      /\ snapper[p].at = "gc" /\ \A q \in Snapper : ~ Writing(q)
  BY Zenon DEF Collect, Locked, Writing
<1>2. k \in Nat /\ k <= c /\ Numbered(segments, c) /\ c \in Nat
  BY <1>1 DEF JournalInv, JournalTypes, Offset, Numbered
<1>3. ASSUME NEW o \in Offset, k <= o[1]
      PROVE  /\ Numbered(segments', c) /\ segments'[c] = segments[c]
             /\ Streamed(segments', o, c) = Streamed(segments, o, c)
  <2> HIDE DEF c, k
  <2> QED
    BY <1>1, <1>2, <1>3, CollectedBefore
<1>4. Numbered(segments', c) /\ segments'[c] = segments[c] /\ SizeExact'
  <2>1. <<c, 0>> \in Offset /\ k <= <<c, 0>>[1]
    BY <1>2 DEF Offset
  <2>2. Numbered(segments', c) /\ segments'[c] = segments[c]
    BY Zenon, <1>3, <2>1
  <2> QED
    BY Zenon, <1>1, <2>2 DEF JournalInv, SizeExact
<1>5. \A q \in Snapper : snapper'[q] = IF q = p THEN Resting ELSE snapper[q]
  BY Zenon, <1>1 DEF JournalInv, JournalTypes
<1>6. \A q \in Snapper : snapper'[q].at # "rest" => snapper'[q] = snapper[q]
  BY <1>5 DEF Resting
<1>7. JournalTypes'
  <2>1. snapper' \in [Snapper -> [at : {"rest", "write", "manifest", "gc"}, id : Nat, offset : Offset]]
    BY Zenon, <1>1 DEF JournalInv, JournalTypes, Resting, Offset
  <2> QED
    BY Zenon, <1>1, <1>4, <2>1 DEF JournalInv, JournalTypes
<1>8. /\ StartField' = StartField /\ StartOffset' = StartOffset
      /\ Within(StartOffset)' = Within(StartOffset)
  BY Zenon, <1>1, <1>4 DEF StartField, StartOffset, Within
<1>9. ASSUME manifest # Torn
      PROVE  Replayed' = Replayed /\ (WholeFrom(StartOffset)' => WholeFrom(StartOffset))
  <2>1. /\ manifest \in Manifests /\ manifest # NoManifest
        /\ k <= manifest.offset[1] /\ manifest.offset \in Offset
    BY <1>1, <1>9 DEF JournalInv, JournalTypes, Manifests
  <2>2. StartOffset = manifest.offset
    BY <2>1 DEF StartOffset
  <2>3. Streamed(segments', StartOffset, c) = Streamed(segments, StartOffset, c)
    BY <1>3, <2>1, <2>2
  <2>4. Replayed' = Replayed
    BY Zenon, <1>1, <1>8, <2>3 DEF Replayed
  <2>5. ASSUME WholeFrom(StartOffset)' PROVE WholeFrom(StartOffset)
    <3> SUFFICES ASSUME NEW s \in DOMAIN segments, s >= StartOffset[1], NEW i \in DOMAIN segments[s]
                 PROVE  segments[s][i] # Broken
      BY DEF WholeFrom
    <3>1. s >= k
      BY <1>2, <2>1, <2>2 DEF Numbered, Offset
    <3>2. s \in DOMAIN segments' /\ segments'[s] = segments[s]
      BY <1>1, <3>1
    <3> QED
      BY <1>8, <2>5, <3>2 DEF WholeFrom
  <2> QED
    BY <2>4, <2>5
<1>10. \A q \in Snapper : ~ Writing(q)'
  BY <1>1, <1>6 DEF Writing
<1> QED
  BY Zenon, <1>1, <1>4, <1>6, <1>7, <1>8, <1>9, <1>10 DEF JournalInv, Writing

\* journal_impl.rs, gc.rs and the hosts' recovery: wherever the process ends,
\* the next start recovers the field it had, except while the manifest is being
\* rewritten, for a delta whose append failed until a snapshot holds it, and
\* while the next start would read a part of a frame that a failed append left;
\* for any number of snapshotters, deltas, failures and snapshots.
THEOREM FieldRecovered == JournalSpec => []RecoversLiveField
<1>1. JournalInv /\ [JournalNext]_journalVars => JournalInv'
  <2> SUFFICES ASSUME JournalInv, [JournalNext]_journalVars PROVE JournalInv'
    OBVIOUS
  <2>1. CASE AppendDelta \/ DropDelta \/ Restart
    BY <2>1, EmitKeeps, DropKeeps, RestartKeeps
  <2>2. CASE \E p \in Snapper : BeginSnapshot(p) \/ WriteSnapshotFile(p) \/ WriteManifest(p)
                                \/ SnapshotFails(p) \/ Collect(p)
    BY <2>2, BeginKeeps, WriteFileKeeps, WriteManifestKeeps, FailsKeeps, CollectKeeps
  <2>3. CASE UNCHANGED journalVars
    <3>1. UNCHANGED <<EndOffset, StartOffset, StartField>>
      BY <2>3 DEF journalVars, EndOffset, StartOffset, StartField
    <3>2. /\ Replayed' = Replayed /\ SizeExact' = SizeExact
          /\ Within(StartOffset)' = Within(StartOffset)
          /\ WholeFrom(StartOffset)' = WholeFrom(StartOffset)
      BY <2>3, <3>1 DEF journalVars, Replayed, SizeExact, Within, WholeFrom
    <3> QED
      BY Zenon, <2>3, <3>1, <3>2 DEF journalVars, JournalInv, JournalTypes, Writing
  <2> QED
    BY <2>1, <2>2, <2>3 DEF JournalNext
<1>2. JournalInv => RecoversLiveField
  <2> SUFFICES ASSUME JournalInv, Readable, ~ dropped, WholeFrom(StartOffset) PROVE Recovered = field
    BY DEF RecoversLiveField
  <2>1. manifest # Torn
    BY JournalAssumption DEF Readable
  <2>2. Recovered = Replayed
    BY <2>1, RecoveredWhole
  <2> QED
    BY <2>1, <2>2 DEF JournalInv
<1> QED
  BY JournalStarts, <1>1, <1>2, PTL DEF JournalSpec

-----------------------------------------------------------------------------
(***************************************************************************)
(* Signed checkpoints attest to one ledger state, the external anchor      *)
(* follows one line of history, and an honest chain verifies, for every    *)
(* set of events, roots and keys and every bound.                          *)
(***************************************************************************)

-----------------------------------------------------------------------------
(* Positions and prefixes *)

\* A later event is at a later position of the log: the next segment begins
\* when the last one is full.
LEMMA PositionsGrow ==
    ASSUME NEW m \in Nat \ {0}, NEW n \in Nat, m < n
    PROVE  PositionBefore(WalPosition(m), WalPosition(n))
<1> DEFINE S == SegmentEvents
           qm == (m - 1) \div S
           qn == (n - 1) \div S
           rm == (m - 1) % S
           rn == (n - 1) % S
<1>1. S \in Nat \ {0}
  BY CheckpointAssumption
<1>2. /\ qm \in Int /\ rm \in 0..(S - 1) /\ m - 1 = S * qm + rm
      /\ qn \in Int /\ rn \in 0..(S - 1) /\ n - 1 = S * qn + rn
  BY <1>1
<1>3. WalPosition(m) = <<qm + 1, rm + 1>> /\ WalPosition(n) = <<qn + 1, rn + 1>>
  BY DEF WalPosition
<1> HIDE DEF S, qm, qn, rm, rn
<1>4. qm <= qn
  <2> SUFFICES ASSUME qm > qn PROVE FALSE
    BY <1>2
  <2>1. PICK k \in Nat : qm = qn + 1 + k
    <3>1. qm - qn - 1 \in Nat /\ qm = qn + 1 + (qm - qn - 1)
      BY <1>2
    <3> QED
      BY <3>1
  <2>2. S * qm = S * qn + S + S * k /\ S * k \in Nat
    BY <1>1, <1>2, <2>1
  <2>3. S * qm \in Int /\ S * qn \in Int
    BY <1>1, <1>2
  <2> QED
    BY <1>1, <1>2, <2>2, <2>3
<1>5. qm = qn => rm < rn
  BY <1>1, <1>2
<1> QED
  BY <1>2, <1>3, <1>4, <1>5 DEF PositionBefore

\* A history is a prefix of itself and of its extensions.
LEMMA PrefixGrows ==
    ASSUME NEW h \in Seq(Payloads), NEW x \in Payloads, NEW g \in Seq(Payloads), IsPrefix(g, h)
    PROVE  IsPrefix(g, Append(h, x))
  BY DEF IsPrefix

\* Of two prefixes of a history, the shorter is a prefix of the longer.
LEMMA PrefixesNested ==
    ASSUME NEW h \in Seq(Payloads), NEW f \in Seq(Payloads), NEW g \in Seq(Payloads),
           IsPrefix(f, h), IsPrefix(g, h), Len(f) <= Len(g)
    PROVE  IsPrefix(f, g)
  BY DEF IsPrefix

-----------------------------------------------------------------------------
(* The inductive invariant *)

\* A manifest attests to one state of the ledger h, at one position, and was
\* signed by t and before it expires.
Attests(m, h, t) ==
    /\ m.manifest_ref = ManifestDigest(m.body)
    /\ m.body.event_chain_head \in Seq(Payloads)
    /\ m.body.event_chain_head # <<>>
    /\ IsPrefix(m.body.event_chain_head, h)
    /\ m.body.snapshot_digest = m.body.event_chain_head
    /\ m.body.last_sequence = Len(m.body.event_chain_head)
    /\ m.body.wal_position = WalPosition(m.body.last_sequence)
    /\ m.body.issued_at_ms \in Nat /\ m.body.issued_at_ms <= t
    /\ m.body.expires_at_ms # NoValue => m.body.issued_at_ms < m.body.expires_at_ms

\* Later manifests of a chain attest to later states of the same root.
Ordered(ms) ==
    \A i, j \in DOMAIN ms :
      /\ ms[i].body.storage_root_identity = ms[j].body.storage_root_identity
      /\ i < j => ms[i].body.last_sequence < ms[j].body.last_sequence

\* A chain beside the ledger h: each manifest attests to it and names the one
\* before it.
Sound(h, ms, t) ==
    /\ h \in Seq(Payloads)
    /\ \E M : ms \in Seq(M)
    /\ \A i \in DOMAIN ms : Attests(ms[i], h, t)
    /\ Ordered(ms)
    /\ \A i \in 2..Len(ms) : Follows(ms[i - 1], ms[i])

\* The snapshot info a caller holds is of some state, perhaps not the current.
InfoOfSomeState ==
    info # NoValue => info.state \in Seq(Payloads) /\ info.offset = WalPosition(Len(info.state))

\* While no copy was put back, the anchored checkpoint is in the chain.
AnchorKept ==
    restores = 0 /\ anchor # NoValue =>
      \E k \in DOMAIN manifests :
        manifests[k].manifest_ref = anchor.checkpoint_ref /\ MatchesAnchor(manifests[k], anchor)

CInv ==
    /\ now \in Nat /\ restores \in Nat
    /\ Sound(history, manifests, now)
    /\ Sound(copy.history, copy.manifests, now)
    /\ InfoOfSomeState /\ AnchorKept

-----------------------------------------------------------------------------
(* What the invariant gives *)

\* The attested length of a manifest is a positive number.
LEMMA AttestedLength ==
    ASSUME NEW m, NEW h, NEW t, Attests(m, h, t)
    PROVE  m.body.last_sequence \in Nat \ {0}
<1>1. m.body.event_chain_head \in Seq(Payloads) /\ m.body.event_chain_head # <<>>
  BY DEF Attests
<1>2. Len(m.body.event_chain_head) \in Nat \ {0}
  BY <1>1
<1> QED
  BY <1>2 DEF Attests

\* The last manifest of a chain that is not empty.
LEMMA LastManifest ==
    ASSUME NEW M, NEW ms \in Seq(M), ms # <<>>
    PROVE  Len(ms) \in Nat \ {0} /\ Len(ms) \in DOMAIN ms /\ Last(ms) = ms[Len(ms)] /\ DOMAIN ms = 1..Len(ms)
<1>1. Len(ms) \in Nat \ {0} /\ DOMAIN ms = 1..Len(ms)
  OBVIOUS
<1> QED
  BY <1>1 DEF Last

\* A chain that verifies against the anchor has the anchored checkpoint.
LEMMA VerifiedMatches ==
    ASSUME NEW ms, NEW a, NEW t, Verdict(ms, a, t) = "ExternalAnchorVerified"
    PROVE  /\ ms # <<>> /\ ~ (Last(ms).body.last_sequence < a.last_sequence)
           /\ \E i \in DOMAIN ms : MatchesAnchor(ms[i], a)
  BY DEF Verdict, AnchorVerdict

\* The two invariants on manifests.
LEMMA InvImpliesConsistent == ASSUME CInv PROVE ManifestsConsistent
  BY DEF CInv, Sound, Attests, ManifestsConsistent

\* A chain that verify accepts under the anchors ends no earlier than the last
\* anchored checkpoint.
LEMMA InvImpliesHolds == ASSUME CInv PROVE VerifiedHoldsAnchored
<1> SUFFICES ASSUME Verdict(manifests, anchor, now) = "ExternalAnchorVerified"
             PROVE  IsPrefix(anchor.event_chain_head, history)
  BY DEF VerifiedHoldsAnchored
<1>1. PICK i \in DOMAIN manifests : MatchesAnchor(manifests[i], anchor)
  BY VerifiedMatches
<1> QED
  BY <1>1 DEF MatchesAnchor, CInv, Sound, Attests

\* The chain the signer built verifies locally ...
LEMMA SoundVerifies ==
    ASSUME NEW h, NEW ms, NEW t \in Nat, Sound(h, ms, t),
           \A i \in DOMAIN ms : /\ KeyActive(ms[i].body.key_id, t)
                                /\ ms[i].body.expires_at_ms # NoValue => t <= ms[i].body.expires_at_ms
    PROVE  /\ \A i \in DOMAIN ms : SignedOk(ms[i], t)
           /\ \A i \in 2..Len(ms) : Follows(ms[i - 1], ms[i])
<1>1. ASSUME NEW i \in DOMAIN ms PROVE SignedOk(ms[i], t)
  <2>1. Attests(ms[i], h, t)
    BY DEF Sound
  <2>2. ms[i].body.last_sequence # 0
    BY <2>1, AttestedLength
  <2> QED
    BY <2>1, <2>2 DEF Attests, SignedOk
<1> QED
  BY <1>1 DEF Sound

\* ... and against the anchor, when the anchored checkpoint is in it.
LEMMA AnchorVerifies ==
    ASSUME NEW h, NEW ms, NEW t, Sound(h, ms, t), NEW a, NEW k \in DOMAIN ms,
           ms[k].manifest_ref = a.checkpoint_ref, MatchesAnchor(ms[k], a)
    PROVE  AnchorVerdict(ms, a) = "ExternalAnchorVerified"
<1>1. PICK M : ms \in Seq(M)
  BY DEF Sound
<1>2. ms # <<>>
  BY <1>1
<1>3. Len(ms) \in DOMAIN ms /\ Last(ms) = ms[Len(ms)] /\ DOMAIN ms = 1..Len(ms) /\ Len(ms) \in Nat
  BY <1>1, <1>2, LastManifest
<1>4. ~ (Last(ms).body.last_sequence < a.last_sequence)
  <2>1. ms[k].body.last_sequence \in Nat /\ ms[Len(ms)].body.last_sequence \in Nat
    BY <1>3, AttestedLength DEF Sound
  <2>2. a.last_sequence = ms[k].body.last_sequence
    BY DEF MatchesAnchor
  <2>3. k = Len(ms) \/ k < Len(ms)
    BY <1>3
  <2> QED
    BY <1>3, <2>1, <2>2, <2>3 DEF Sound, Ordered
<1>5. ASSUME NEW i \in DOMAIN ms, ms[i].manifest_ref = a.checkpoint_ref
      PROVE  MatchesAnchor(ms[i], a)
  <2>1. ManifestDigest(ms[i].body) = ManifestDigest(ms[k].body)
    BY <1>5 DEF Sound, Attests
  <2>2. ms[i].body = ms[k].body
    BY <2>1 DEF ManifestDigest
  <2> QED
    BY <2>2 DEF MatchesAnchor
<1> QED
  BY <1>4, <1>5 DEF AnchorVerdict

\* verify accepts the chain as long as nothing was restored from the copy.
LEMMA InvImpliesHonest == ASSUME CInv PROVE HonestChainVerifies
<1> SUFFICES ASSUME restores = 0, manifests # <<>>,
                    \A i \in DOMAIN manifests :
                      /\ KeyActive(manifests[i].body.key_id, now)
                      /\ manifests[i].body.expires_at_ms # NoValue =>
                           now <= manifests[i].body.expires_at_ms
             PROVE  Verdict(manifests, anchor, now) \in Accepted
  BY DEF HonestChainVerifies
<1>1. /\ \A i \in DOMAIN manifests : SignedOk(manifests[i], now)
      /\ \A i \in 2..Len(manifests) : Follows(manifests[i - 1], manifests[i])
  BY SoundVerifies DEF CInv
<1>2. anchor # NoValue => AnchorVerdict(manifests, anchor) = "ExternalAnchorVerified"
  BY AnchorVerifies DEF CInv, AnchorKept
<1> QED
  BY <1>1, <1>2 DEF Verdict, Accepted

-----------------------------------------------------------------------------
(* The steps *)

\* Initially there is no checkpoint.
LEMMA InitCInv == CheckpointInit => CInv
<1> SUFFICES ASSUME CheckpointInit PROVE CInv
  OBVIOUS
<1>1. /\ history = <<>> /\ manifests = <<>> /\ copy.history = <<>> /\ copy.manifests = <<>>
      /\ now = 0 /\ restores = 0 /\ info = NoValue /\ anchor = NoValue
  BY DEF CheckpointInit
<1>2. <<>> \in Seq(Payloads) /\ <<>> \in Seq({}) /\ DOMAIN <<>> = {} /\ 2..Len(<<>>) = {}
  OBVIOUS
<1>3. Sound(<<>>, <<>>, 0)
  BY <1>2 DEF Sound, Ordered
<1> QED
  BY <1>1, <1>3 DEF CInv, InfoOfSomeState, AnchorKept

\* A chain stays sound while the ledger grows and time passes.
LEMMA SoundKept ==
    ASSUME NEW h, NEW ms, NEW t \in Nat, Sound(h, ms, t),
           NEW g \in Seq(Payloads), NEW u \in Nat, t <= u,
           \A f \in Seq(Payloads) : IsPrefix(f, h) => IsPrefix(f, g)
    PROVE  Sound(g, ms, u)
<1>1. ASSUME NEW i \in DOMAIN ms PROVE Attests(ms[i], g, u)
  <2>1. Attests(ms[i], h, t)
    BY DEF Sound
  <2>2. ms[i].body.issued_at_ms \in Nat /\ ms[i].body.issued_at_ms <= u
    BY <2>1 DEF Attests
  <2> QED
    BY <2>1, <2>2 DEF Attests
<1> QED
  BY <1>1 DEF Sound

\* An append to the ledger leaves every signed prefix a prefix.
LEMMA AppendKeeps == ASSUME CInv, NEW x \in Payloads, ExtendHistory(x) PROVE CInv'
<1>1. /\ history' = Append(history, x)
      /\ UNCHANGED <<info, manifests, copy, anchor, now, restores>>
  BY DEF ExtendHistory
<1>2. history \in Seq(Payloads) /\ history' \in Seq(Payloads)
  BY <1>1 DEF CInv, Sound
<1>3. \A f \in Seq(Payloads) : IsPrefix(f, history) => IsPrefix(f, history')
  BY <1>1, <1>2, PrefixGrows
<1>4. Sound(history', manifests, now)
  BY <1>2, <1>3, SoundKept DEF CInv
<1> QED
  BY <1>1, <1>4 DEF CInv, InfoOfSomeState, AnchorKept, MatchesAnchor

\* A ledger snapshot touches no manifest.
LEMMA SnapshotKeeps == ASSUME CInv, WriteSnapshot PROVE CInv'
<1>1. /\ info' = [state |-> history, offset |-> WalPosition(Len(history))]
      /\ UNCHANGED <<history, manifests, copy, anchor, now, restores>>
  BY DEF WriteSnapshot
<1>2. InfoOfSomeState'
  BY <1>1 DEF InfoOfSomeState, CInv, Sound, WalPosition
<1> QED
  BY Zenon, <1>1, <1>2 DEF CInv, AnchorKept, MatchesAnchor

\* A new manifest attests to the current state, and follows the last one.
LEMMA CheckpointKeeps ==
    ASSUME CInv, NEW root, NEW key, NEW expires, Checkpoint(root, key, expires)
    PROVE  CInv'
<1> DEFINE m == [body |-> Body(root, key, expires), manifest_ref |-> ManifestDigest(Body(root, key, expires))]
           b == m.body
           n == Len(manifests)
<1>1. /\ MaterialMatches /\ manifests' = Append(manifests, m)
      /\ expires # NoValue => now < expires
      /\ manifests # <<>> => /\ Last(manifests).body.last_sequence < Len(history)
                             /\ Last(manifests).body.storage_root_identity = root
      /\ UNCHANGED <<history, info, copy, anchor, now, restores>>
  BY DEF Checkpoint
<1>2. /\ history \in Seq(Payloads) /\ history # <<>> /\ now \in Nat
      /\ info.state = history /\ info.offset = WalPosition(Len(history))
  BY <1>1 DEF MaterialMatches, CInv, Sound, InfoOfSomeState
<1>3. /\ b.storage_root_identity = root /\ b.event_chain_head = history
      /\ b.last_sequence = Len(history) /\ b.wal_position = WalPosition(Len(history))
      /\ b.snapshot_digest = history /\ b.issued_at_ms = now /\ b.expires_at_ms = expires
      /\ b.previous_checkpoint_ref =
           IF manifests = <<>> THEN NoValue ELSE Last(manifests).manifest_ref
      /\ m.manifest_ref = ManifestDigest(b)
  BY Zenon, <1>2 DEF Body
<1> HIDE DEF m
<1>4. Attests(m, history, now)
  <2>1. IsPrefix(history, history)
    BY <1>2 DEF IsPrefix
  <2> QED
    BY <1>1, <1>2, <1>3, <2>1 DEF Attests
<1>5. PICK M : manifests \in Seq(M)
  BY DEF CInv, Sound
<1>6. /\ n \in Nat /\ DOMAIN manifests = 1..n
      /\ manifests' \in Seq(M \cup {m}) /\ Len(manifests') = n + 1 /\ DOMAIN manifests' = 1..(n + 1)
      /\ manifests'[n + 1] = m /\ \A i \in 1..n : manifests'[i] = manifests[i]
  <2>1. manifests \in Seq(M \cup {m}) /\ m \in M \cup {m}
    BY <1>5
  <2> QED
    BY <1>1, <1>5, <2>1
<1> HIDE DEF n
<1>7. ASSUME NEW i \in 1..n
      PROVE  /\ manifests[i].body.storage_root_identity = root
             /\ manifests[i].body.last_sequence \in Nat \ {0}
             /\ manifests[i].body.last_sequence < Len(history)
  <2>1. /\ manifests # <<>> /\ n \in DOMAIN manifests /\ Last(manifests) = manifests[n]
    BY <1>5, <1>6, <1>7, LastManifest DEF n
  <2>2. /\ manifests[i].body.last_sequence \in Nat \ {0}
        /\ manifests[n].body.last_sequence \in Nat \ {0}
    BY Zenon, <1>6, <1>7, <2>1, AttestedLength DEF CInv, Sound
  <2>3. i = n \/ i < n
    BY <1>6, <1>7
  <2>4. Len(history) \in Nat
    BY <1>2
  <2>5. /\ manifests[i].body.storage_root_identity = manifests[n].body.storage_root_identity
        /\ i < n => manifests[i].body.last_sequence < manifests[n].body.last_sequence
    BY Zenon, <1>6, <1>7, <2>1 DEF CInv, Sound, Ordered
  <2> QED
    BY <1>1, <2>1, <2>2, <2>3, <2>4, <2>5
<1>8. Ordered(manifests')
  <2> SUFFICES ASSUME NEW i \in 1..(n + 1), NEW j \in 1..(n + 1)
               PROVE  /\ manifests'[i].body.storage_root_identity = manifests'[j].body.storage_root_identity
                      /\ i < j => manifests'[i].body.last_sequence < manifests'[j].body.last_sequence
    BY <1>6 DEF Ordered
  <2>1. CASE i \in 1..n /\ j \in 1..n
    <3>1. i \in DOMAIN manifests /\ j \in DOMAIN manifests
      BY <1>6, <2>1
    <3>2. manifests'[i] = manifests[i] /\ manifests'[j] = manifests[j]
      BY <1>6, <2>1
    <3>3. /\ manifests[i].body.storage_root_identity = manifests[j].body.storage_root_identity
          /\ i < j => manifests[i].body.last_sequence < manifests[j].body.last_sequence
      BY <3>1 DEF CInv, Sound, Ordered
    <3> QED
      BY <3>2, <3>3
  <2>2. CASE i = n + 1 /\ j = n + 1
    BY <1>6, <2>2
  <2>3. CASE i \in 1..n /\ j = n + 1
    BY <1>3, <1>6, <1>7, <2>3
  <2>4. CASE i = n + 1 /\ j \in 1..n
    BY <1>3, <1>6, <1>7, <2>4
  <2> QED
    BY <1>6, <2>1, <2>2, <2>3, <2>4
<1>9. ASSUME NEW i \in 2..(n + 1) PROVE Follows(manifests'[i - 1], manifests'[i])
  <2>1. CASE i # n + 1
    BY <1>6, <1>9, <2>1 DEF CInv, Sound, n
  <2>2. CASE i = n + 1
    <3> DEFINE l == manifests[n]
    <3>1. n \in 1..n /\ manifests'[i] = m /\ manifests'[i - 1] = l
      BY <1>6, <1>9, <2>2
    <3>2. manifests # <<>> /\ Last(manifests) = l
      BY <1>5, <1>6, <3>1, LastManifest DEF n
    <3>3. Attests(l, history, now)
      BY <1>6, <3>1 DEF CInv, Sound
    <3>4. /\ l.body.storage_root_identity = root
          /\ l.body.last_sequence \in Nat \ {0} /\ l.body.last_sequence < Len(history)
      BY <1>7, <3>1
    <3>5. PositionBefore(WalPosition(l.body.last_sequence), WalPosition(Len(history)))
      BY <1>2, <3>4, PositionsGrow
    <3>6. l.body.event_chain_head # history
      BY <3>3, <3>4 DEF Attests
    <3> HIDE DEF l
    <3>7. Follows(l, m)
      BY Zenon, <1>2, <1>3, <3>2, <3>3, <3>4, <3>5, <3>6 DEF Follows, Attests
    <3> QED
      BY <3>1, <3>7
  <2> QED
    BY <2>1, <2>2
<1>10. /\ n \in Nat /\ DOMAIN manifests = 1..n /\ DOMAIN manifests' = 1..(n + 1)
       /\ manifests'[n + 1] = m /\ \A i \in 1..n : manifests'[i] = manifests[i]
  BY Zenon, <1>6
<1>11. \A i \in DOMAIN manifests : i \in DOMAIN manifests' /\ manifests'[i] = manifests[i]
  BY <1>10
<1>12. Sound(history, manifests', now)
  <2>1. \A i \in DOMAIN manifests : Attests(manifests[i], history, now)
    BY Zenon DEF CInv, Sound
  <2>2. \A i \in DOMAIN manifests' : Attests(manifests'[i], history, now)
    <3> SUFFICES ASSUME NEW i \in DOMAIN manifests' PROVE Attests(manifests'[i], history, now)
      OBVIOUS
    <3>1. i \in DOMAIN manifests \/ i = n + 1
      BY <1>10
    <3> QED
      BY Zenon, <1>4, <1>10, <1>11, <2>1, <3>1
  <2> QED
    BY Zenon, <1>2, <1>6, <1>8, <1>9, <2>2 DEF Sound
<1>13. AnchorKept'
  <2> SUFFICES ASSUME restores = 0, anchor # NoValue
               PROVE  \E k \in DOMAIN manifests' :
                        /\ manifests'[k].manifest_ref = anchor.checkpoint_ref
                        /\ MatchesAnchor(manifests'[k], anchor)
    BY Zenon, <1>1 DEF AnchorKept, MatchesAnchor
  <2>1. PICK k \in DOMAIN manifests : manifests[k].manifest_ref = anchor.checkpoint_ref /\ MatchesAnchor(manifests[k], anchor)
    BY DEF CInv, AnchorKept
  <2> QED
    BY Zenon, <1>11, <2>1
<1> QED
  BY <1>1, <1>12, <1>13 DEF CInv, InfoOfSomeState

\* A copy is a sound chain beside its ledger, and so is what it restores.
LEMMA CopyKeeps == ASSUME CInv, SaveCopy \/ RestoreCopy PROVE CInv'
<1>1. CASE SaveCopy
  <2>1. /\ copy'.history = history /\ copy'.manifests = manifests
        /\ UNCHANGED <<history, info, manifests, anchor, now, restores>>
    BY <1>1 DEF SaveCopy
  <2> QED
    BY <2>1 DEF CInv, InfoOfSomeState, AnchorKept, MatchesAnchor
<1>2. CASE RestoreCopy
  <2>1. /\ history' = copy.history /\ manifests' = copy.manifests /\ restores' = restores + 1
        /\ UNCHANGED <<info, copy, anchor, now>>
    BY <1>2 DEF RestoreCopy
  <2>2. restores' \in Nat /\ restores' # 0
    BY <2>1 DEF CInv
  <2> QED
    BY <2>1, <2>2 DEF CInv, InfoOfSomeState, AnchorKept
<1> QED
  BY <1>1, <1>2

\* The registry anchors the last checkpoint of the chain.
LEMMA AnchorKeeps == ASSUME CInv, AnchorLatest PROVE CInv'
<1>1. /\ manifests # <<>> /\ UNCHANGED <<history, info, manifests, copy, now, restores>>
      /\ anchor' = [checkpoint_ref |-> Last(manifests).manifest_ref,
                    storage_root_identity |-> Last(manifests).body.storage_root_identity,
                    event_chain_head |-> Last(manifests).body.event_chain_head,
                    last_sequence |-> Last(manifests).body.last_sequence]
  BY DEF AnchorLatest, Verdict, Accepted
<1>2. PICK M : manifests \in Seq(M)
  BY DEF CInv, Sound
<1>3. Len(manifests) \in DOMAIN manifests /\ Last(manifests) = manifests[Len(manifests)]
  BY <1>1, <1>2, LastManifest
<1>4. /\ manifests[Len(manifests)].manifest_ref = anchor'.checkpoint_ref
      /\ MatchesAnchor(manifests[Len(manifests)], anchor')
  BY <1>1, <1>3 DEF MatchesAnchor
<1>5. AnchorKept'
  BY <1>1, <1>3, <1>4 DEF AnchorKept, MatchesAnchor
<1> QED
  BY <1>1, <1>5 DEF CInv, InfoOfSomeState

\* The clock only grows, so what was signed in time stays so.
LEMMA TickKeeps == ASSUME CInv, Tick PROVE CInv'
<1>1. now' = now + 1 /\ UNCHANGED <<history, info, manifests, copy, anchor, restores>>
  BY DEF Tick
<1>2. now \in Nat /\ now' \in Nat /\ now <= now'
  BY <1>1 DEF CInv
<1>3. Sound(history, manifests, now') /\ Sound(copy.history, copy.manifests, now')
  <2>1. history \in Seq(Payloads) /\ copy.history \in Seq(Payloads)
    BY DEF CInv, Sound
  <2> QED
    BY <1>2, <2>1, SoundKept DEF CInv
<1> QED
  BY <1>1, <1>2, <1>3 DEF CInv, InfoOfSomeState, AnchorKept, MatchesAnchor

\* Every step of the ledger, the signer and the restorer keeps the invariant.
LEMMA NextKeeps == CInv /\ [CheckpointNext]_checkpointVars => CInv'
<1> SUFFICES ASSUME CInv, [CheckpointNext]_checkpointVars PROVE CInv'
  OBVIOUS
<1>1. ASSUME NEW key \in Revocable, RevokeKey(key) PROVE CInv'
  BY <1>1 DEF RevokeKey, CInv, InfoOfSomeState, AnchorKept, MatchesAnchor
<1>2. CASE UNCHANGED checkpointVars
  BY <1>2 DEF checkpointVars, CInv, InfoOfSomeState, AnchorKept, MatchesAnchor
<1> QED
  BY <1>1, <1>2, AppendKeeps, SnapshotKeeps, CheckpointKeeps, CopyKeeps, AnchorKeeps, TickKeeps
  DEF CheckpointNext

\* An anchor moves only by AnchorLatest, to a later checkpoint of the ledger
\* that holds the anchored one.
LEMMA AnchorAdvances ==
    ASSUME CInv, [CheckpointNext]_checkpointVars, anchor' # anchor, anchor # NoValue
    PROVE  /\ IsPrefix(anchor.event_chain_head, anchor'.event_chain_head)
           /\ anchor'.storage_root_identity = anchor.storage_root_identity
<1>1. AnchorLatest
  BY Zenon DEF CheckpointNext, checkpointVars, ExtendHistory, WriteSnapshot, Checkpoint, SaveCopy, RestoreCopy, RevokeKey, Tick
<1> DEFINE l == Last(manifests).body
<1>2. /\ Verdict(manifests, anchor, now) = "ExternalAnchorVerified"
      /\ anchor'.event_chain_head = l.event_chain_head
      /\ anchor'.storage_root_identity = l.storage_root_identity
  <2>1. AnchorVerdict(manifests, anchor) # "LocalSignatureOnly"
    BY Zenon DEF AnchorVerdict
  <2> QED
    BY <1>1, <2>1 DEF AnchorLatest, Accepted, Verdict
<1>3. PICK i \in DOMAIN manifests : MatchesAnchor(manifests[i], anchor)
  BY <1>2, VerifiedMatches
<1>4. manifests # <<>> /\ ~ (l.last_sequence < anchor.last_sequence)
  BY <1>2, VerifiedMatches
<1>5. PICK M : manifests \in Seq(M)
  BY DEF CInv, Sound
<1>6. Len(manifests) \in DOMAIN manifests /\ l = manifests[Len(manifests)].body
  BY <1>4, <1>5, LastManifest
<1> HIDE DEF l
<1> DEFINE f == manifests[i].body
<1>7. /\ f.event_chain_head \in Seq(Payloads) /\ l.event_chain_head \in Seq(Payloads)
      /\ history \in Seq(Payloads)
      /\ IsPrefix(f.event_chain_head, history) /\ IsPrefix(l.event_chain_head, history)
      /\ f.last_sequence = Len(f.event_chain_head) /\ l.last_sequence = Len(l.event_chain_head)
      /\ f.storage_root_identity = l.storage_root_identity
  BY Zenon, <1>6 DEF CInv, Sound, Attests, Ordered
<1>8. /\ anchor.event_chain_head = f.event_chain_head /\ anchor.last_sequence = f.last_sequence
      /\ anchor.storage_root_identity = f.storage_root_identity
  BY <1>3 DEF MatchesAnchor
<1> HIDE DEF f
<1>9. Len(f.event_chain_head) <= Len(l.event_chain_head)
  BY <1>4, <1>7, <1>8
<1>10. IsPrefix(f.event_chain_head, l.event_chain_head)
  BY <1>7, <1>9, PrefixesNested
<1> QED
  BY Zenon, <1>2, <1>7, <1>8, <1>10

-----------------------------------------------------------------------------
(* The theorems *)

\* The invariant holds in every reachable state.
THEOREM ChainIsSound == CheckpointSpec => []CInv
  BY InitCInv, NextKeeps, PTL DEF CheckpointSpec

\* Every manifest checkpoint_material and the signer produce is about one
\* state of the ledger and its position in the log.
THEOREM ManifestsAreConsistent == CheckpointSpec => []ManifestsConsistent
<1>1. CInv => ManifestsConsistent
  BY InvImpliesConsistent
<1> QED
  BY <1>1, ChainIsSound, PTL

\* Local files that verify_checkpoint_chain accepts against the external
\* anchor hold every anchored event: a rollback or a fork does not verify.
THEOREM VerifiedIsNotRolledBack == CheckpointSpec => []VerifiedHoldsAnchored
<1>1. CInv => VerifiedHoldsAnchored
  BY InvImpliesHolds
<1> QED
  BY <1>1, ChainIsSound, PTL

\* What the signer produces verify_checkpoint_chain accepts, while no copy was
\* put back and keys and checkpoints are valid.
THEOREM HonestChainIsAccepted == CheckpointSpec => []HonestChainVerifies
<1>1. CInv => HonestChainVerifies
  BY InvImpliesHonest
<1> QED
  BY <1>1, ChainIsSound, PTL

\* Successive anchors are one line of history of one storage root.
THEOREM AnchorsFollowOneLine == CheckpointSpec => AnchorsAreOneLine
<1>1. CInv /\ [CheckpointNext]_checkpointVars =>
        [anchor # NoValue =>
           /\ IsPrefix(anchor.event_chain_head, anchor'.event_chain_head)
           /\ anchor'.storage_root_identity = anchor.storage_root_identity]_anchor
  BY AnchorAdvances
<1> QED
  BY <1>1, ChainIsSound, PTL DEF CheckpointSpec, AnchorsAreOneLine
=============================================================================
