------------------------- MODULE NoeticCrdt_proof ---------------------------
(***************************************************************************)
(* The replicated data types converge: merging is a join, for all clocks,  *)
(* all values and all credences, as long as both sides compare under the   *)
(* same credences, as NoeticState's merge makes them do.                   *)
(*                                                                         *)
(* Then what the operations on a replica and on a consensus engine do to   *)
(* what they hold: the facts from which Noetic_proof shows that the nodes  *)
(* converge and that the newest vote stands.                               *)
(***************************************************************************)
EXTENDS NoeticRuntime, TLAPS

Clocks == [phys_ms : Nat, log : Nat, node : Nat]

\* A map of credences, as a replica holds it.
IsCredence(credence) == \A p \in DOMAIN credence : credence[p] \in Nat

\* The weight of every peer is a number, known or not.
LEMMA CredenceIsNat ==
    ASSUME NEW credence, IsCredence(credence), NEW p
    PROVE  CredenceFor(credence, p) \in Nat
  BY NoeticCrdtConstants DEF IsCredence, CredenceFor

\* Hlc::compare is a strict total order: no clock is less than itself, it is
\* transitive, and two clocks of which neither is less are the same clock.
THEOREM CompareIsTotalOrder ==
    ASSUME NEW credence, IsCredence(credence)
    PROVE  /\ \A a \in Clocks : ~ HlcLess(a, a, credence)
           /\ \A a, b, c \in Clocks :
                HlcLess(a, b, credence) /\ HlcLess(b, c, credence) => HlcLess(a, c, credence)
           /\ \A a, b \in Clocks :
                ~ HlcLess(a, b, credence) /\ ~ HlcLess(b, a, credence) => a = b
<1> DEFINE w(p) == CredenceFor(credence, p)
<1>0. \A p : w(p) \in Nat
  BY CredenceIsNat
<1> HIDE DEF w
<1>1. \A a, b : HlcLess(a, b, credence) <=>
        \/ a.phys_ms < b.phys_ms
        \/ a.phys_ms = b.phys_ms /\ a.log < b.log
        \/ /\ a.phys_ms = b.phys_ms /\ a.log = b.log
           /\ w(a.node) < w(b.node) \/ (w(a.node) = w(b.node) /\ a.node < b.node)
  BY DEF HlcLess, Earlier, w
<1>2. \A a \in Clocks : a.phys_ms \in Nat /\ a.log \in Nat /\ a.node \in Nat
  BY DEF Clocks
<1>3. ASSUME NEW a \in Clocks PROVE ~ HlcLess(a, a, credence)
  BY <1>0, <1>1, <1>2
<1>4. ASSUME NEW a \in Clocks, NEW b \in Clocks, NEW c \in Clocks,
             HlcLess(a, b, credence), HlcLess(b, c, credence)
      PROVE  HlcLess(a, c, credence)
  BY <1>0, <1>1, <1>2, <1>4
<1>5. ASSUME NEW a \in Clocks, NEW b \in Clocks,
             ~ HlcLess(a, b, credence), ~ HlcLess(b, a, credence)
      PROVE  a = b
  <2>1. a.phys_ms = b.phys_ms /\ a.log = b.log /\ a.node = b.node
    BY <1>0, <1>1, <1>2, <1>5
  <2> QED
    BY <2>1 DEF Clocks
<1> QED
  BY <1>3, <1>4, <1>5

-----------------------------------------------------------------------------
(* The later of two clocks *)

Later(a, b, credence) == IF HlcLess(a, b, credence) THEN b ELSE a

\* The later of two clocks, as OrSet::merge keeps it per element, is a join.
LEMMA LaterIsJoin ==
    ASSUME NEW credence, IsCredence(credence)
    PROVE  /\ \A a, b \in Clocks : /\ Later(a, b, credence) \in Clocks
                                   /\ Later(a, b, credence) = Later(b, a, credence)
                                   /\ ~ HlcLess(Later(a, b, credence), a, credence)
           /\ \A a, b, c \in Clocks :
                Later(Later(a, b, credence), c, credence) = Later(a, Later(b, c, credence), credence)
           /\ \A a \in Clocks : Later(a, a, credence) = a
<1>1. /\ \A a \in Clocks : ~ HlcLess(a, a, credence)
      /\ \A a, b, c \in Clocks :
           HlcLess(a, b, credence) /\ HlcLess(b, c, credence) => HlcLess(a, c, credence)
      /\ \A a, b \in Clocks :
           ~ HlcLess(a, b, credence) /\ ~ HlcLess(b, a, credence) => a = b
  BY CompareIsTotalOrder
<1>2. ASSUME NEW a \in Clocks, NEW b \in Clocks
      PROVE  /\ Later(a, b, credence) \in Clocks
             /\ Later(a, b, credence) = Later(b, a, credence)
             /\ ~ HlcLess(Later(a, b, credence), a, credence)
  BY <1>1 DEF Later
<1>3. ASSUME NEW a \in Clocks, NEW b \in Clocks, NEW c \in Clocks
      PROVE  Later(Later(a, b, credence), c, credence) = Later(a, Later(b, c, credence), credence)
  BY <1>1 DEF Later
<1> QED
  BY <1>1, <1>2, <1>3 DEF Later

-----------------------------------------------------------------------------
(* Maps of clocks *)

\* A map of a replica: a clock for each of the keys it holds.
IsMap(a) == \E D : a \in [D -> Clocks]

\* x holds the later of the clocks of a (on D) and b (on E), or the only one.
Joins(x, a, D, b, E, credence) ==
    /\ x \in [D \cup E -> Clocks]
    /\ \A v \in D \cup E : x[v] = IF v \notin E THEN a[v] ELSE IF v \notin D THEN b[v]
                                  ELSE Later(a[v], b[v], credence)

\* That is what a merged map is.
LEMMA MergedMap ==
    ASSUME NEW credence, NEW D, NEW a \in [D -> Clocks], NEW E, NEW b \in [E -> Clocks]
    PROVE  Joins(PutAllLatest(a, b, credence), a, D, b, E, credence)
<1>1. DOMAIN a = D /\ DOMAIN b = E
  OBVIOUS
<1>2. \A v \in D \cup E : PutAllLatest(a, b, credence)[v] =
        IF v \notin E THEN a[v] ELSE IF v \notin D THEN b[v]
        ELSE Later(a[v], b[v], credence)
  BY <1>1 DEF PutAllLatest, Later
<1>3. PutAllLatest(a, b, credence) \in [D \cup E -> Clocks]
  BY <1>1, <1>2 DEF PutAllLatest, Later
<1> QED
  BY <1>2, <1>3 DEF Joins

\* Merging two maps of clocks: the order of the two sides does not matter.
LEMMA MapMergeCommutes ==
    ASSUME NEW credence, IsCredence(credence), NEW a, NEW b, IsMap(a), IsMap(b)
    PROVE  PutAllLatest(a, b, credence) = PutAllLatest(b, a, credence)
<1>a. PICK D : a \in [D -> Clocks]
  BY DEF IsMap
<1>b. PICK E : b \in [E -> Clocks]
  BY DEF IsMap
<1> DEFINE x == PutAllLatest(a, b, credence)
           y == PutAllLatest(b, a, credence)
<1>1. Joins(x, a, D, b, E, credence) /\ Joins(y, b, E, a, D, credence)
  BY <1>a, <1>b, MergedMap, Zenon
<1> HIDE DEF x, y
<1>2. \A v \in D \cap E : Later(a[v], b[v], credence) = Later(b[v], a[v], credence)
  BY <1>a, <1>b, LaterIsJoin
<1>3. E \cup D = D \cup E
  OBVIOUS
<1>4. \A v \in D \cup E : x[v] = y[v]
  BY <1>1, <1>2 DEF Joins
<1>5. x \in [D \cup E -> Clocks] /\ y \in [D \cup E -> Clocks]
  BY <1>1, <1>3 DEF Joins
<1>6. x = y
  BY <1>4, <1>5
<1> QED
  BY <1>6 DEF x, y

\* Merging three maps of clocks: the grouping does not matter.
LEMMA MapMergeAssociates ==
    ASSUME NEW credence, IsCredence(credence), NEW a, NEW b, NEW c, IsMap(a), IsMap(b), IsMap(c)
    PROVE  PutAllLatest(PutAllLatest(a, b, credence), c, credence)
             = PutAllLatest(a, PutAllLatest(b, c, credence), credence)
<1>a. PICK D : a \in [D -> Clocks]
  BY DEF IsMap
<1>b. PICK E : b \in [E -> Clocks]
  BY DEF IsMap
<1>c. PICK F : c \in [F -> Clocks]
  BY DEF IsMap
<1> DEFINE ab == PutAllLatest(a, b, credence)
           bc == PutAllLatest(b, c, credence)
<1>1. Joins(ab, a, D, b, E, credence) /\ Joins(bc, b, E, c, F, credence)
  BY <1>a, <1>b, <1>c, MergedMap, Zenon
<1> HIDE DEF ab, bc
<1>2. ab \in [D \cup E -> Clocks] /\ bc \in [E \cup F -> Clocks]
  BY <1>1 DEF Joins
<1> DEFINE x == PutAllLatest(ab, c, credence)
           y == PutAllLatest(a, bc, credence)
<1>3. Joins(x, ab, D \cup E, c, F, credence) /\ Joins(y, a, D, bc, E \cup F, credence)
  BY <1>a, <1>c, <1>2, MergedMap, Zenon
<1> HIDE DEF x, y
<1>4. D \cup (E \cup F) = (D \cup E) \cup F
  OBVIOUS
<1>5. x \in [(D \cup E) \cup F -> Clocks] /\ y \in [(D \cup E) \cup F -> Clocks]
  BY <1>3, <1>4 DEF Joins
<1>6. ASSUME NEW v \in (D \cup E) \cup F PROVE x[v] = y[v]
  <2>1. v \in D /\ v \in E /\ v \in F =>
          Later(Later(a[v], b[v], credence), c[v], credence) = Later(a[v], Later(b[v], c[v], credence), credence)
    BY <1>a, <1>b, <1>c, LaterIsJoin
  <2>2. x[v] = IF v \notin F THEN ab[v] ELSE IF v \notin D \cup E THEN c[v] ELSE Later(ab[v], c[v], credence)
    BY <1>3 DEF Joins
  <2>3. y[v] = IF v \notin E \cup F THEN a[v] ELSE IF v \notin D THEN bc[v] ELSE Later(a[v], bc[v], credence)
    BY <1>3, <1>4 DEF Joins
  <2>4. /\ v \in D \cup E => ab[v] = IF v \notin E THEN a[v] ELSE IF v \notin D THEN b[v]
                                     ELSE Later(a[v], b[v], credence)
        /\ v \in E \cup F => bc[v] = IF v \notin F THEN b[v] ELSE IF v \notin E THEN c[v]
                                     ELSE Later(b[v], c[v], credence)
    BY <1>1 DEF Joins
  <2> QED
    BY <1>6, <2>1, <2>2, <2>3, <2>4
<1>7. x = y
  BY <1>5, <1>6
<1> QED
  BY <1>7 DEF x, y, ab, bc

\* Merging a map of clocks into itself changes nothing.
LEMMA MapMergeIdempotent ==
    ASSUME NEW credence, IsCredence(credence), NEW a, IsMap(a)
    PROVE  PutAllLatest(a, a, credence) = a
<1>a. PICK D : a \in [D -> Clocks]
  BY DEF IsMap
<1> DEFINE x == PutAllLatest(a, a, credence)
<1>1. Joins(x, a, D, a, D, credence)
  BY <1>a, MergedMap, Zenon
<1> HIDE DEF x
<1>2. D \cup D = D
  OBVIOUS
<1>3. \A v \in D : Later(a[v], a[v], credence) = a[v]
  BY <1>a, LaterIsJoin
<1>4. \A v \in D : x[v] = a[v]
  BY <1>1, <1>3 DEF Joins
<1>5. x \in [D -> Clocks]
  BY <1>1, <1>2 DEF Joins
<1>6. x = a
  BY <1>a, <1>4, <1>5
<1> QED
  BY <1>6 DEF x

-----------------------------------------------------------------------------
(* The data types *)

\* What a replica's set is: two maps of clocks.
IsOrSet(x) ==
    /\ x = [adds |-> x.adds, removals |-> x.removals]
    /\ IsMap(x.adds) /\ IsMap(x.removals)

\* OrSet::merge is a join: in whatever order, grouping and number replicas of a
\* set merge each other's states, they end with the same additions and removals.
THEOREM OrSetMergeIsJoin ==
    ASSUME NEW credence, IsCredence(credence),
           NEW x, NEW y, NEW z, IsOrSet(x), IsOrSet(y), IsOrSet(z)
    PROVE  /\ OrSetMerge(x, y, credence) = OrSetMerge(y, x, credence)
           /\ OrSetMerge(OrSetMerge(x, y, credence), z, credence)
                = OrSetMerge(x, OrSetMerge(y, z, credence), credence)
           /\ OrSetMerge(x, x, credence) = x
<1>1. /\ PutAllLatest(x.adds, y.adds, credence) = PutAllLatest(y.adds, x.adds, credence)
      /\ PutAllLatest(x.removals, y.removals, credence) = PutAllLatest(y.removals, x.removals, credence)
  BY MapMergeCommutes DEF IsOrSet
<1>2. PutAllLatest(PutAllLatest(x.adds, y.adds, credence), z.adds, credence)
        = PutAllLatest(x.adds, PutAllLatest(y.adds, z.adds, credence), credence)
  BY MapMergeAssociates DEF IsOrSet
<1>3. PutAllLatest(PutAllLatest(x.removals, y.removals, credence), z.removals, credence)
        = PutAllLatest(x.removals, PutAllLatest(y.removals, z.removals, credence), credence)
  BY MapMergeAssociates DEF IsOrSet
<1>4. PutAllLatest(x.adds, x.adds, credence) = x.adds /\ PutAllLatest(x.removals, x.removals, credence) = x.removals
  BY MapMergeIdempotent DEF IsOrSet
<1>5. x = [adds |-> x.adds, removals |-> x.removals]
  BY DEF IsOrSet
<1> QED
  BY <1>1, <1>2, <1>3, <1>4, <1>5 DEF OrSetMerge

\* LwwRegister::merge is a join for registers whose clocks tell them apart, as
\* the clocks that a node stamps its updates with do.
THEOREM LwwMergeIsJoin ==
    ASSUME NEW credence, IsCredence(credence), NEW R,
           \A r \in R : r.clock \in Clocks,
           \A r, s \in R : r.clock = s.clock => r = s
    PROVE  /\ \A r, s \in R : LwwMerge(r, s, credence) = LwwMerge(s, r, credence)
           /\ \A r, s, t \in R : LwwMerge(LwwMerge(r, s, credence), t, credence)
                                   = LwwMerge(r, LwwMerge(s, t, credence), credence)
           /\ \A r \in R : LwwMerge(r, r, credence) = r
<1>1. /\ \A a, b, c \in Clocks :
           HlcLess(a, b, credence) /\ HlcLess(b, c, credence) => HlcLess(a, c, credence)
      /\ \A a \in Clocks : ~ HlcLess(a, a, credence)
      /\ \A a, b \in Clocks :
           ~ HlcLess(a, b, credence) /\ ~ HlcLess(b, a, credence) => a = b
  BY CompareIsTotalOrder
<1>2. ASSUME NEW r \in R, NEW s \in R PROVE LwwMerge(r, s, credence) = LwwMerge(s, r, credence)
  BY <1>1 DEF LwwMerge
<1>3. ASSUME NEW r \in R, NEW s \in R, NEW t \in R
      PROVE  LwwMerge(LwwMerge(r, s, credence), t, credence)
               = LwwMerge(r, LwwMerge(s, t, credence), credence)
  BY <1>1 DEF LwwMerge
<1> QED
  BY <1>2, <1>3 DEF LwwMerge

-----------------------------------------------------------------------------
(* Clocks that tick and merge *)

\* The time of clock a is not after that of b.
AtMost(a, b) == ~ Earlier(b, a)

\* Times are ordered.
LEMMA TimesOrdered ==
    ASSUME NEW a \in Clocks, NEW b \in Clocks, NEW c \in Clocks
    PROVE  /\ AtMost(a, a)
           /\ AtMost(a, b) /\ AtMost(b, c) => AtMost(a, c)
           /\ AtMost(a, b) /\ Earlier(b, c) => Earlier(a, c)
           /\ Earlier(a, b) /\ AtMost(b, c) => Earlier(a, c)
           /\ Earlier(a, b) => AtMost(a, b) /\ a # b
  BY DEF Clocks, AtMost, Earlier

Ticked(t, c) ==
    /\ t \in Clocks /\ t.node = c.node /\ t.log <= c.log + 1
    /\ c.log < LogLimit => Earlier(c, t)

\* A tick is later than the clock it is taken from, unless the counter is full.
LEMMA TickLater ==
    ASSUME NEW c \in Clocks, NEW now \in Nat
    PROVE  Ticked(HlcTick(c, now), c)
<1> DEFINE t == HlcTick(c, now)
<1>1. LogLimit \in Nat /\ c.phys_ms \in Nat /\ c.log \in Nat /\ c.node \in Nat
  BY NoeticCrdtConstants DEF Clocks
<1>2. CASE now > c.phys_ms
  <2>1. t = [phys_ms |-> now, log |-> 0, node |-> c.node]
    BY Zenon, <1>2 DEF HlcTick, Clocks
  <2>2. t.phys_ms = now /\ t.log = 0 /\ t.node = c.node /\ t \in Clocks
    BY <1>1, <2>1 DEF Clocks
  <2> HIDE DEF t
  <2> QED
    BY <1>1, <1>2, <2>2 DEF Earlier, Ticked, t
<1>3. CASE ~ (now > c.phys_ms)
  <2> DEFINE l == IF c.log < LogLimit THEN c.log + 1 ELSE c.log
  <2>1. t = [phys_ms |-> c.phys_ms, log |-> l, node |-> c.node]
    BY <1>3 DEF HlcTick, Clocks
  <2>2. l \in Nat /\ l <= c.log + 1 /\ (c.log < LogLimit => c.log < l)
    BY <1>1
  <2> HIDE DEF l
  <2>3. t.phys_ms = c.phys_ms /\ t.log = l /\ t.node = c.node /\ t \in Clocks
    BY <1>1, <2>1, <2>2 DEF Clocks
  <2> HIDE DEF t
  <2> QED
    BY <1>1, <2>2, <2>3 DEF Earlier, Ticked, t
<1> QED
  BY <1>2, <1>3

\* The greatest of one or two counters.
LEMMA MaxOfOne == ASSUME NEW a \in Nat PROVE Max({a}) = a
  BY DEF Max

\* The larger of two counters.
LEMMA MaxOfTwo ==
    ASSUME NEW a \in Nat, NEW b \in Nat
    PROVE  Max({a, b}) \in {a, b} /\ Max({a, b}) >= a /\ Max({a, b}) >= b
<1>1. \E x \in {a, b} : \A y \in {a, b} : x >= y
  OBVIOUS
<1> QED
  BY <1>1 DEF Max

Joint(m, c, d, n) ==
    /\ m \in Clocks /\ m.node = n
    /\ c.log < LogLimit /\ d.log < LogLimit => Earlier(c, m) /\ Earlier(d, m)

\* A merged clock is later than both clocks, unless a counter is full.
LEMMA MergedLater ==
    ASSUME NEW c \in Clocks, NEW d \in Clocks, NEW n \in Nat, NEW now \in Nat
    PROVE  Joint(HlcMerged(c, d, n, now), c, d, n)
<1> DEFINE phys == Larger(Larger(c.phys_ms, d.phys_ms), now)
           logs == {e.log : e \in {x \in {c, d} : x.phys_ms = phys}}
           log == IF logs = {} THEN 0 ELSE (Max(logs) + 1) % (LogLimit + 1)
           m == HlcMerged(c, d, n, now)
<1>1. /\ LogLimit \in Nat /\ c.phys_ms \in Nat /\ c.log \in Nat
      /\ d.phys_ms \in Nat /\ d.log \in Nat
  BY NoeticCrdtConstants DEF Clocks
<1>2. phys \in Nat /\ phys >= c.phys_ms /\ phys >= d.phys_ms
  BY <1>1 DEF Larger
<1>3. m = [phys_ms |-> phys, log |-> log, node |-> n]
  BY DEF HlcMerged
<1> HIDE DEF phys
<1>4. /\ c.phys_ms = phys /\ d.phys_ms = phys => logs = {c.log, d.log}
      /\ c.phys_ms = phys /\ d.phys_ms # phys => logs = {c.log}
      /\ c.phys_ms # phys /\ d.phys_ms = phys => logs = {d.log}
      /\ c.phys_ms # phys /\ d.phys_ms # phys => logs = {}
  OBVIOUS
<1> HIDE DEF logs
<1>5. logs # {} => /\ Max(logs) \in {c.log, d.log}
                   /\ c.phys_ms = phys => Max(logs) >= c.log
                   /\ d.phys_ms = phys => Max(logs) >= d.log
  <2>1. /\ Max({c.log}) = c.log /\ Max({d.log}) = d.log
        /\ Max({c.log, d.log}) \in {c.log, d.log}
        /\ Max({c.log, d.log}) >= c.log /\ Max({c.log, d.log}) >= d.log
    BY <1>1, MaxOfOne, MaxOfTwo
  <2> QED
    BY <1>1, <1>4, <2>1
<1>6. ASSUME NEW x \in Nat PROVE (x + 1) % (LogLimit + 1) \in Nat
  BY <1>1
<1>7. ASSUME NEW x \in Nat, x < LogLimit PROVE (x + 1) % (LogLimit + 1) = x + 1
  BY <1>1, <1>7
<1>8. log \in Nat
  BY <1>1, <1>5, <1>6
<1>9. ASSUME c.log < LogLimit, d.log < LogLimit
      PROVE  /\ c.phys_ms = phys => log > c.log
             /\ d.phys_ms = phys => log > d.log
  <2>1. CASE logs = {}
    BY <1>4, <2>1
  <2>2. CASE logs # {}
    <3>1. Max(logs) \in Nat /\ Max(logs) < LogLimit
      BY <1>1, <1>5, <1>9, <2>2
    <3>2. log = Max(logs) + 1
      BY <1>7, <2>2, <3>1
    <3> HIDE DEF log
    <3> QED
      BY <1>1, <1>5, <2>2, <3>1, <3>2
  <2> QED
    BY <2>1, <2>2
<1> HIDE DEF log, m
<1>10. m \in Clocks /\ m.node = n /\ m.phys_ms = phys /\ m.log = log
  BY <1>2, <1>3, <1>8 DEF Clocks
<1>11. ASSUME c.log < LogLimit, d.log < LogLimit PROVE Earlier(c, m) /\ Earlier(d, m)
  BY <1>1, <1>2, <1>8, <1>9, <1>10, <1>11 DEF Earlier
<1> QED
  BY <1>10, <1>11 DEF m, Joint

-----------------------------------------------------------------------------
(* The sets of a replica *)

\* The entries of a set whose replica's clock is top: a header was added at its
\* version, and removed, if ever, later than that.
GoodSet(set, top) ==
    /\ IsOrSet(set)
    /\ \A h \in DOMAIN set.adds : set.adds[h] = h.version /\ AtMost(h.version, top)
    /\ \A h \in DOMAIN set.removals :
         /\ h.version \in Clocks /\ AtMost(h.version, top)
         /\ Earlier(h.version, set.removals[h])

\* The clock of the replica may advance.
LEMMA SetRaised ==
    ASSUME NEW set, NEW c \in Clocks, NEW d \in Clocks, GoodSet(set, c), AtMost(c, d)
    PROVE  GoodSet(set, d)
<1>1. ASSUME NEW h \in DOMAIN set.adds PROVE set.adds[h] = h.version /\ AtMost(h.version, d)
  <2>1. h.version \in Clocks /\ set.adds[h] = h.version /\ AtMost(h.version, c)
    BY DEF GoodSet, IsOrSet, IsMap
  <2> QED
    BY <2>1, TimesOrdered
<1>2. ASSUME NEW h \in DOMAIN set.removals
      PROVE  h.version \in Clocks /\ AtMost(h.version, d) /\ Earlier(h.version, set.removals[h])
  <2>1. h.version \in Clocks /\ AtMost(h.version, c) /\ Earlier(h.version, set.removals[h])
    BY DEF GoodSet
  <2> QED
    BY <2>1, TimesOrdered
<1> QED
  BY <1>1, <1>2 DEF GoodSet

\* x is the map with the clock put in for the value, unless it was there.
PutInto(x, map, value, clock) ==
    /\ IsMap(x) /\ DOMAIN x = DOMAIN map \cup {value}
    /\ \A v \in DOMAIN map : v # value => x[v] = map[v]
    /\ x[value] = clock \/ (value \in DOMAIN map /\ x[value] = map[value])
    /\ value \notin DOMAIN map => x[value] = clock

\* A clock put into a map is there, or the one that was is.
LEMMA PutIsMap ==
    ASSUME NEW map, IsMap(map), NEW value, NEW clock \in Clocks, NEW credence
    PROVE  PutInto(PutLatest(map, value, clock, credence), map, value, clock)
<1>1. PICK D : map \in [D -> Clocks]
  BY DEF IsMap
<1> DEFINE x == PutLatest(map, value, clock, credence)
<1>2. DOMAIN map = D
  BY <1>1
<1>3. DOMAIN x = D \cup {value} /\ x = [v \in D \cup {value} |-> x[v]]
  BY <1>2 DEF PutLatest
<1>4. \A v \in D : v # value => x[v] = map[v]
  BY <1>2 DEF PutLatest
<1>5. /\ x[value] = clock \/ (value \in D /\ x[value] = map[value])
      /\ value \notin D => x[value] = clock
  BY <1>2 DEF PutLatest
<1> HIDE DEF x
<1>6. \A v \in D \cup {value} : x[v] \in Clocks
  BY <1>1, <1>4, <1>5
<1>7. x \in [D \cup {value} -> Clocks]
  BY <1>3, <1>6
<1>8. IsMap(x)
  BY <1>7, Zenon DEF IsMap
<1> QED
  BY <1>2, <1>3, <1>4, <1>5, <1>8 DEF x, PutInto

\* OrSet::insert of a header stamped no later than the replica's clock.
LEMMA SetInserted ==
    ASSUME NEW set, NEW top \in Clocks, GoodSet(set, top), NEW credence,
           NEW content, NEW clock \in Clocks, AtMost(clock, top)
    PROVE  GoodSet(OrSetInsert(set, Header(content, clock), clock, credence), top)
<1> DEFINE h == Header(content, clock)
           x == PutLatest(set.adds, h, clock, credence)
           after == OrSetInsert(set, h, clock, credence)
<1>1. h.version = clock
  BY DEF Header
<1>2. set = [adds |-> set.adds, removals |-> set.removals] /\ IsMap(set.adds) /\ IsMap(set.removals)
  BY DEF GoodSet, IsOrSet
<1> HIDE DEF h
<1>3. /\ IsMap(x) /\ DOMAIN x = DOMAIN set.adds \cup {h}
      /\ \A v \in DOMAIN set.adds : v # h => x[v] = set.adds[v]
      /\ x[h] = clock \/ (h \in DOMAIN set.adds /\ x[h] = set.adds[h])
  <2>1. PutInto(x, set.adds, h, clock)
    BY <1>2, PutIsMap
  <2> QED
    BY <2>1, Zenon DEF PutInto
<1>4. after.adds = x /\ after.removals = set.removals /\ after = [adds |-> x, removals |-> set.removals]
  BY <1>2 DEF OrSetInsert
<1> HIDE DEF x, after
<1>5. ASSUME NEW v \in DOMAIN x PROVE x[v] = v.version /\ AtMost(v.version, top)
  <2>1. CASE v = h
    BY <1>1, <1>3, <2>1 DEF GoodSet
  <2>2. CASE v # h
    BY <1>3, <2>2 DEF GoodSet
  <2> QED
    BY <2>1, <2>2
<1>6. IsOrSet(after)
  BY <1>2, <1>3, <1>4 DEF IsOrSet
<1>7. GoodSet(after, top)
  BY <1>4, <1>5, <1>6 DEF GoodSet
<1> QED
  BY <1>7 DEF after, h

\* OrSet::remove of a header that was added, stamped later than its version.
LEMMA SetRemoved ==
    ASSUME NEW set, NEW top \in Clocks, GoodSet(set, top), NEW credence,
           NEW h \in DOMAIN set.adds, NEW clock \in Clocks, Earlier(h.version, clock)
    PROVE  GoodSet(OrSetRemove(set, h, clock, credence), top)
<1> DEFINE x == PutLatest(set.removals, h, clock, credence)
           after == OrSetRemove(set, h, clock, credence)
<1>1. h.version \in Clocks /\ AtMost(h.version, top)
  <2>1. PICK D : set.adds \in [D -> Clocks]
    BY DEF GoodSet, IsOrSet, IsMap
  <2>2. set.adds[h] \in Clocks
    BY <2>1
  <2> QED
    BY <2>2 DEF GoodSet
<1>2. set = [adds |-> set.adds, removals |-> set.removals] /\ IsMap(set.adds) /\ IsMap(set.removals)
  BY DEF GoodSet, IsOrSet
<1>3. /\ IsMap(x) /\ DOMAIN x = DOMAIN set.removals \cup {h}
      /\ \A v \in DOMAIN set.removals : v # h => x[v] = set.removals[v]
      /\ x[h] = clock \/ (h \in DOMAIN set.removals /\ x[h] = set.removals[h])
  <2>1. PutInto(x, set.removals, h, clock)
    BY <1>2, PutIsMap
  <2> QED
    BY <2>1, Zenon DEF PutInto
<1>4. after.removals = x /\ after.adds = set.adds /\ after = [adds |-> set.adds, removals |-> x]
  BY <1>2 DEF OrSetRemove
<1> HIDE DEF x, after
<1>5. ASSUME NEW v \in DOMAIN x
      PROVE  v.version \in Clocks /\ AtMost(v.version, top) /\ Earlier(v.version, x[v])
  <2>1. CASE v = h
    BY <1>1, <1>3, <2>1 DEF GoodSet
  <2>2. CASE v # h
    BY <1>3, <2>2 DEF GoodSet
  <2> QED
    BY <2>1, <2>2
<1>6. IsOrSet(after)
  BY <1>2, <1>3, <1>4 DEF IsOrSet
<1>7. GoodSet(after, top)
  BY <1>4, <1>5, <1>6 DEF GoodSet
<1> QED
  BY <1>7 DEF after

\* OrSet::merge
LEMMA SetMerged ==
    ASSUME NEW a, NEW b, NEW top \in Clocks, GoodSet(a, top), GoodSet(b, top), NEW credence
    PROVE  GoodSet(OrSetMerge(a, b, credence), top)
<1> DEFINE x == PutAllLatest(a.adds, b.adds, credence)
           y == PutAllLatest(a.removals, b.removals, credence)
           after == OrSetMerge(a, b, credence)
<1>1. IsMap(a.adds) /\ IsMap(b.adds) /\ IsMap(a.removals) /\ IsMap(b.removals)
  BY DEF GoodSet, IsOrSet
<1>2. PICK A : a.adds \in [A -> Clocks]
  BY <1>1 DEF IsMap
<1>3. PICK B : b.adds \in [B -> Clocks]
  BY <1>1 DEF IsMap
<1>4. PICK R : a.removals \in [R -> Clocks]
  BY <1>1 DEF IsMap
<1>5. PICK S : b.removals \in [S -> Clocks]
  BY <1>1 DEF IsMap
<1>6. Joins(x, a.adds, A, b.adds, B, credence) /\ Joins(y, a.removals, R, b.removals, S, credence)
  BY <1>2, <1>3, <1>4, <1>5, MergedMap, Zenon
<1>7. after = [adds |-> x, removals |-> y]
  BY DEF OrSetMerge
<1> HIDE DEF x, y, after
<1>8. x \in [A \cup B -> Clocks] /\ y \in [R \cup S -> Clocks]
  BY <1>6 DEF Joins
<1>9. IsMap(x) /\ IsMap(y)
  BY <1>8, Zenon DEF IsMap
<1>10. ASSUME NEW v \in DOMAIN x PROVE x[v] = v.version /\ AtMost(v.version, top)
  <2>1. v \in A \cup B
    BY <1>8
  <2>2. /\ v \in A => a.adds[v] = v.version /\ AtMost(v.version, top)
        /\ v \in B => b.adds[v] = v.version /\ AtMost(v.version, top)
    BY <1>2, <1>3 DEF GoodSet
  <2> QED
    BY <1>6, <2>1, <2>2 DEF Joins, Later
<1>11. ASSUME NEW v \in DOMAIN y
       PROVE  v.version \in Clocks /\ AtMost(v.version, top) /\ Earlier(v.version, y[v])
  <2>1. v \in R \cup S
    BY <1>8
  <2>2. /\ v \in R => /\ v.version \in Clocks /\ AtMost(v.version, top)
                      /\ Earlier(v.version, a.removals[v])
        /\ v \in S => /\ v.version \in Clocks /\ AtMost(v.version, top)
                      /\ Earlier(v.version, b.removals[v])
    BY <1>4, <1>5 DEF GoodSet
  <2> QED
    BY <1>6, <2>1, <2>2 DEF Joins, Later
<1>12. GoodSet(after, top)
  BY <1>7, <1>9, <1>10, <1>11 DEF GoodSet, IsOrSet
<1> QED
  BY <1>12 DEF after

-----------------------------------------------------------------------------
(* Replicas *)

IsReplica(s) ==
    s = [peer |-> s.peer, clock |-> s.clock, credence |-> s.credence,
         models |-> s.models, epochs |-> s.epochs, seeds |-> s.seeds,
         model_topk |-> s.model_topk, seed_status |-> s.seed_status, policies |-> s.policies]

\* A register that was issued, no later than the replica's clock.
GoodRegister(reg, top, issued) == reg \in issued /\ AtMost(reg.clock, top)

\* A replica whose clock is its own and later than all it holds.
Good(s, issued) ==
    /\ IsReplica(s)
    /\ s.peer \in Nat /\ s.clock \in Clocks /\ s.clock.node = s.peer /\ IsCredence(s.credence)
    /\ GoodSet(s.models, s.clock) /\ GoodSet(s.epochs, s.clock) /\ GoodSet(s.seeds, s.clock)
    /\ GoodRegister(s.model_topk, s.clock, issued)
    /\ GoodRegister(s.seed_status, s.clock, issued)
    /\ GoodRegister(s.policies, s.clock, issued)

\* The clocks of registers tell them apart.
ToldApart(issued) ==
    /\ \A a \in issued : a.clock \in Clocks
    /\ \A a, b \in issued : a.clock = b.clock => a = b

\* A replica stays good when more is issued.
LEMMA MoreIssued ==
    ASSUME NEW s, NEW I, NEW J, Good(s, I), I \subseteq J
    PROVE  Good(s, J)
  BY DEF Good, GoodRegister

\* Its clock may advance.
LEMMA ClockRaised ==
    ASSUME NEW s, NEW I, ToldApart(I), Good(s, I), NEW c \in Clocks, c.node = s.peer, AtMost(s.clock, c)
    PROVE  Good([s EXCEPT !.clock = c], I)
<1> DEFINE t == [s EXCEPT !.clock = c]
<1>1. /\ IsReplica(t) /\ t.peer = s.peer /\ t.clock = c /\ t.credence = s.credence
      /\ t.models = s.models /\ t.epochs = s.epochs /\ t.seeds = s.seeds
      /\ t.model_topk = s.model_topk /\ t.seed_status = s.seed_status /\ t.policies = s.policies
  BY DEF Good, IsReplica
<1> HIDE DEF t
<1>2. GoodSet(s.models, c) /\ GoodSet(s.epochs, c) /\ GoodSet(s.seeds, c)
  BY SetRaised DEF Good
<1>3. ASSUME NEW reg, GoodRegister(reg, s.clock, I) PROVE GoodRegister(reg, c, I)
  <2>1. reg.clock \in Clocks /\ s.clock \in Clocks
    BY <1>3 DEF GoodRegister, ToldApart, Good
  <2> QED
    BY <1>3, <2>1, TimesOrdered DEF GoodRegister
<1>4. Good(t, I)
  BY <1>1, <1>2, <1>3 DEF Good
<1> QED
  BY <1>4 DEF t

\* set_credence
LEMMA CredenceSet ==
    ASSUME NEW s, NEW I, Good(s, I), NEW p, NEW v \in Nat
    PROVE  Good(SetCredence(s, p, v), I) /\ SetCredence(s, p, v).clock = s.clock
           /\ SetCredence(s, p, v).peer = s.peer
           /\ SetCredence(s, p, v).models = s.models
<1> DEFINE t == SetCredence(s, p, v)
           m == [q \in DOMAIN s.credence \cup {p} |-> IF q = p THEN v ELSE s.credence[q]]
<1>1. IsCredence(m)
  BY DEF Good, IsCredence
<1>2. t = [s EXCEPT !.credence = m]
  BY DEF SetCredence
<1> HIDE DEF m, t
<1>3. /\ IsReplica(t) /\ t.peer = s.peer /\ t.clock = s.clock /\ t.credence = m
      /\ t.models = s.models /\ t.epochs = s.epochs /\ t.seeds = s.seeds
      /\ t.model_topk = s.model_topk /\ t.seed_status = s.seed_status /\ t.policies = s.policies
  BY <1>2 DEF Good, IsReplica
<1> QED
  BY <1>1, <1>3 DEF Good, t

\* An update of one of the fields: t is s but for what may be put in.
LEMMA FieldsUpdated ==
    ASSUME NEW s, NEW I, Good(s, I), NEW t, IsReplica(t),
           t.peer = s.peer, t.clock = s.clock, t.credence = s.credence,
           t.models = s.models \/ GoodSet(t.models, s.clock),
           t.epochs = s.epochs \/ GoodSet(t.epochs, s.clock),
           t.seeds = s.seeds \/ GoodSet(t.seeds, s.clock),
           t.model_topk = s.model_topk \/ GoodRegister(t.model_topk, s.clock, I),
           t.seed_status = s.seed_status \/ GoodRegister(t.seed_status, s.clock, I),
           t.policies = s.policies \/ GoodRegister(t.policies, s.clock, I)
    PROVE  Good(t, I)
  BY DEF Good

KeptByHeader(s, h, issued) ==
    /\ Good(ApplyModelHeader(s, h), issued) /\ ApplyModelHeader(s, h).clock = s.clock
    /\ Good(ApplyEpoch(s, h), issued) /\ ApplyEpoch(s, h).clock = s.clock
    /\ Good(ApplySeed(s, h), issued) /\ ApplySeed(s, h).clock = s.clock

\* apply_model_header, apply_epoch and apply_seed
LEMMA HeadersApplied ==
    ASSUME NEW s, NEW I, Good(s, I), NEW content, NEW c \in Clocks, AtMost(c, s.clock)
    PROVE  KeptByHeader(s, Header(content, c), I)
<1> DEFINE h == Header(content, c)
           Put(set) == OrSetInsert(set, h, c, s.credence)
           Models(m) == [s EXCEPT !.models = m]
           Epochs(m) == [s EXCEPT !.epochs = m]
           Seeds(m) == [s EXCEPT !.seeds = m]
<1>1. h.version = c
  BY DEF Header
<1>2. s.clock \in Clocks /\ GoodSet(s.models, s.clock) /\ GoodSet(s.epochs, s.clock) /\ GoodSet(s.seeds, s.clock)
  BY DEF Good
<1>3. GoodSet(Put(s.models), s.clock) /\ GoodSet(Put(s.epochs), s.clock) /\ GoodSet(Put(s.seeds), s.clock)
  BY <1>2, SetInserted, Zenon
<1>4. /\ ApplyModelHeader(s, h) = Models(Put(s.models))
      /\ ApplyEpoch(s, h) = Epochs(Put(s.epochs))
      /\ ApplySeed(s, h) = Seeds(Put(s.seeds))
  BY <1>1 DEF ApplyModelHeader, ApplyEpoch, ApplySeed
<1> HIDE DEF h, Put
<1>5. ASSUME NEW m, GoodSet(m, s.clock)
      PROVE  /\ Good(Models(m), I) /\ Models(m).clock = s.clock
             /\ Good(Epochs(m), I) /\ Epochs(m).clock = s.clock
             /\ Good(Seeds(m), I) /\ Seeds(m).clock = s.clock
  <2> DEFINE t == Models(m)
             u == Epochs(m)
             w == Seeds(m)
  <2>1. /\ IsReplica(t) /\ t.peer = s.peer /\ t.clock = s.clock /\ t.credence = s.credence
        /\ t.models = m /\ t.epochs = s.epochs /\ t.seeds = s.seeds
        /\ t.model_topk = s.model_topk /\ t.seed_status = s.seed_status /\ t.policies = s.policies
    BY DEF Good, IsReplica
  <2>2. /\ IsReplica(u) /\ u.peer = s.peer /\ u.clock = s.clock /\ u.credence = s.credence
        /\ u.models = s.models /\ u.epochs = m /\ u.seeds = s.seeds
        /\ u.model_topk = s.model_topk /\ u.seed_status = s.seed_status /\ u.policies = s.policies
    BY DEF Good, IsReplica
  <2>3. /\ IsReplica(w) /\ w.peer = s.peer /\ w.clock = s.clock /\ w.credence = s.credence
        /\ w.models = s.models /\ w.epochs = s.epochs /\ w.seeds = m
        /\ w.model_topk = s.model_topk /\ w.seed_status = s.seed_status /\ w.policies = s.policies
    BY DEF Good, IsReplica
  <2> HIDE DEF t, u, w
  <2>4. Good(t, I) /\ Good(u, I) /\ Good(w, I)
    BY <1>5, <2>1, <2>2, <2>3, FieldsUpdated
  <2> QED
    BY <2>1, <2>2, <2>3, <2>4 DEF t, u, w
<1> HIDE DEF Models, Epochs, Seeds
<1>6. /\ Good(ApplyModelHeader(s, h), I) /\ ApplyModelHeader(s, h).clock = s.clock
      /\ Good(ApplyEpoch(s, h), I) /\ ApplyEpoch(s, h).clock = s.clock
      /\ Good(ApplySeed(s, h), I) /\ ApplySeed(s, h).clock = s.clock
  BY <1>3, <1>4, <1>5
<1> QED
  BY <1>6 DEF h, KeptByHeader

\* LwwRegister::merge with an issued register
LEMMA RegisterMerged ==
    ASSUME NEW a, NEW b, NEW top, NEW I, GoodRegister(a, top, I), GoodRegister(b, top, I), NEW credence
    PROVE  GoodRegister(LwwMerge(a, b, credence), top, I)
  BY DEF LwwMerge

\* update_model_topk, update_seed_status and update_policy
LEMMA RegistersUpdated ==
    ASSUME NEW s, NEW I, Good(s, I), NEW value, NEW c, GoodRegister(Lww(value, c), s.clock, I)
    PROVE  Good(UpdateModelTopK(s, value, c), I) /\ Good(UpdateSeedStatus(s, value, c), I)
           /\ Good(UpdatePolicy(s, value, c), I)
<1> DEFINE Put(reg) == LwwMerge(reg, Lww(value, c), s.credence)
           TopK(m) == [s EXCEPT !.model_topk = m]
           Status(m) == [s EXCEPT !.seed_status = m]
           Policy(m) == [s EXCEPT !.policies = m]
<1>1. /\ GoodRegister(Put(s.model_topk), s.clock, I)
      /\ GoodRegister(Put(s.seed_status), s.clock, I)
      /\ GoodRegister(Put(s.policies), s.clock, I)
  BY RegisterMerged DEF Good
<1>2. /\ UpdateModelTopK(s, value, c) = TopK(Put(s.model_topk))
      /\ UpdateSeedStatus(s, value, c) = Status(Put(s.seed_status))
      /\ UpdatePolicy(s, value, c) = Policy(Put(s.policies))
  BY DEF UpdateModelTopK, UpdateSeedStatus, UpdatePolicy
<1> HIDE DEF Put
<1>3. ASSUME NEW m, GoodRegister(m, s.clock, I)
      PROVE  Good(TopK(m), I) /\ Good(Status(m), I) /\ Good(Policy(m), I)
  <2> DEFINE t == TopK(m)
             u == Status(m)
             w == Policy(m)
  <2>1. /\ IsReplica(t) /\ t.peer = s.peer /\ t.clock = s.clock /\ t.credence = s.credence
        /\ t.models = s.models /\ t.epochs = s.epochs /\ t.seeds = s.seeds
        /\ t.model_topk = m /\ t.seed_status = s.seed_status /\ t.policies = s.policies
    BY DEF Good, IsReplica
  <2>2. /\ IsReplica(u) /\ u.peer = s.peer /\ u.clock = s.clock /\ u.credence = s.credence
        /\ u.models = s.models /\ u.epochs = s.epochs /\ u.seeds = s.seeds
        /\ u.model_topk = s.model_topk /\ u.seed_status = m /\ u.policies = s.policies
    BY DEF Good, IsReplica
  <2>3. /\ IsReplica(w) /\ w.peer = s.peer /\ w.clock = s.clock /\ w.credence = s.credence
        /\ w.models = s.models /\ w.epochs = s.epochs /\ w.seeds = s.seeds
        /\ w.model_topk = s.model_topk /\ w.seed_status = s.seed_status /\ w.policies = m
    BY DEF Good, IsReplica
  <2> HIDE DEF t, u, w
  <2>4. Good(t, I) /\ Good(u, I) /\ Good(w, I)
    BY <1>3, <2>1, <2>2, <2>3, FieldsUpdated
  <2> QED
    BY <2>4 DEF t, u, w
<1> HIDE DEF TopK, Status, Policy
<1> QED
  BY <1>1, <1>2, <1>3

\* Joined credences are credences, and it does not matter whose come first.
LEMMA CredencesMerged ==
    ASSUME NEW a, NEW b, IsCredence(a), IsCredence(b)
    PROVE  IsCredence(MergedCredence(a, b)) /\ MergedCredence(a, b) = MergedCredence(b, a)
<1> DEFINE x == MergedCredence(a, b)
           y == MergedCredence(b, a)
           D == DOMAIN a \cup DOMAIN b
<1>1. x = [p \in D |-> x[p]] /\ y = [p \in D |-> y[p]] /\ DOMAIN x = D
  BY DEF MergedCredence
<1>2. ASSUME NEW p \in D PROVE x[p] \in Nat /\ x[p] = y[p]
  BY DEF MergedCredence, IsCredence, Larger
<1> HIDE DEF x, y, D
<1>3. [p \in D |-> x[p]] = [p \in D |-> y[p]]
  BY <1>2
<1>4. IsCredence(x)
  BY <1>1, <1>2 DEF IsCredence
<1>5. x = y
  BY <1>1, <1>3, Zenon
<1> QED
  BY <1>4, <1>5 DEF x, y

\* merge: the fields of the outcome
LEMMA MergeFields ==
    ASSUME NEW s, NEW o, IsReplica(s)
    PROVE  LET t  == MergeState(s, o)
               cr == MergedCredence(s.credence, o.credence)
           IN  /\ IsReplica(t) /\ t.peer = s.peer /\ t.credence = cr
               /\ t.clock = HlcMerged(s.clock, o.clock, s.peer, Larger(s.clock.phys_ms, o.clock.phys_ms))
               /\ t.models = OrSetMerge(s.models, o.models, cr)
               /\ t.epochs = OrSetMerge(s.epochs, o.epochs, cr)
               /\ t.seeds = OrSetMerge(s.seeds, o.seeds, cr)
               /\ t.model_topk = LwwMerge(s.model_topk, o.model_topk, cr)
               /\ t.seed_status = LwwMerge(s.seed_status, o.seed_status, cr)
               /\ t.policies = LwwMerge(s.policies, o.policies, cr)
<1> DEFINE cr == MergedCredence(s.credence, o.credence)
           c  == HlcMerged(s.clock, o.clock, s.peer, Larger(s.clock.phys_ms, o.clock.phys_ms))
           ms == OrSetMerge(s.models, o.models, cr)
           es == OrSetMerge(s.epochs, o.epochs, cr)
           ss == OrSetMerge(s.seeds, o.seeds, cr)
           mt == LwwMerge(s.model_topk, o.model_topk, cr)
           st == LwwMerge(s.seed_status, o.seed_status, cr)
           ps == LwwMerge(s.policies, o.policies, cr)
           t  == MergeState(s, o)
<1>1. t = [[s EXCEPT !.credence = cr, !.models = ms, !.epochs = es, !.seeds = ss,
                     !.model_topk = mt, !.seed_status = st, !.policies = ps] EXCEPT !.clock = c]
  BY Zenon DEF MergeState, MergeEntries
<1> HIDE DEF cr, c, ms, es, ss, mt, st, ps, t
<1>2. t = [peer |-> s.peer, clock |-> c, credence |-> cr, models |-> ms, epochs |-> es, seeds |-> ss,
           model_topk |-> mt, seed_status |-> st, policies |-> ps]
  BY Zenon, <1>1 DEF IsReplica
<1>3. /\ IsReplica(t) /\ t.peer = s.peer /\ t.credence = cr /\ t.clock = c
      /\ t.models = ms /\ t.epochs = es /\ t.seeds = ss
      /\ t.model_topk = mt /\ t.seed_status = st /\ t.policies = ps
  BY <1>2 DEF IsReplica
<1> QED
  BY <1>3, Zenon DEF cr, c, ms, es, ss, mt, st, ps, t

\* A merge of good replicas is good.
LEMMA MergeGood ==
    ASSUME NEW s, NEW o, NEW I, ToldApart(I), Good(s, I), Good(o, I),
           s.clock.log < LogLimit, o.clock.log < LogLimit
    PROVE  Good(MergeState(s, o), I) /\ MergeState(s, o).peer = s.peer
           /\ Earlier(s.clock, MergeState(s, o).clock)
<1> DEFINE t  == MergeState(s, o)
           cr == MergedCredence(s.credence, o.credence)
           now == Larger(s.clock.phys_ms, o.clock.phys_ms)
           top == t.clock
<1>1. /\ IsReplica(t) /\ t.peer = s.peer /\ t.credence = cr
      /\ top = HlcMerged(s.clock, o.clock, s.peer, now)
      /\ t.models = OrSetMerge(s.models, o.models, cr)
      /\ t.epochs = OrSetMerge(s.epochs, o.epochs, cr)
      /\ t.seeds = OrSetMerge(s.seeds, o.seeds, cr)
      /\ t.model_topk = LwwMerge(s.model_topk, o.model_topk, cr)
      /\ t.seed_status = LwwMerge(s.seed_status, o.seed_status, cr)
      /\ t.policies = LwwMerge(s.policies, o.policies, cr)
  BY MergeFields DEF Good
<1>2. now \in Nat /\ s.clock \in Clocks /\ o.clock \in Clocks /\ s.peer \in Nat
  BY DEF Good, Clocks, Larger
<1>3. IsCredence(cr)
  BY CredencesMerged DEF Good
<1> HIDE DEF now, cr, t
<1>4. top \in Clocks /\ top.node = s.peer /\ Earlier(s.clock, top) /\ Earlier(o.clock, top)
  <2> DEFINE m == HlcMerged(s.clock, o.clock, s.peer, now)
  <2>1. Joint(m, s.clock, o.clock, s.peer)
    BY <1>2, MergedLater
  <2> HIDE DEF m
  <2>2. m \in Clocks /\ m.node = s.peer /\ Earlier(s.clock, m) /\ Earlier(o.clock, m)
    BY <2>1 DEF Joint
  <2> QED
    BY <1>1, <2>2 DEF m
<1> HIDE DEF top
<1>5. AtMost(s.clock, top) /\ AtMost(o.clock, top)
  BY <1>2, <1>4, TimesOrdered
<1>6. ASSUME NEW x, NEW y, GoodSet(x, s.clock), GoodSet(y, o.clock)
      PROVE  GoodSet(OrSetMerge(x, y, cr), top)
  <2>1. GoodSet(x, top) /\ GoodSet(y, top)
    BY <1>2, <1>4, <1>5, <1>6, SetRaised
  <2> QED
    BY <1>4, <2>1, SetMerged
<1>7. ASSUME NEW x, NEW y, GoodRegister(x, s.clock, I), GoodRegister(y, o.clock, I)
      PROVE  GoodRegister(LwwMerge(x, y, cr), top, I)
  <2>1. x.clock \in Clocks /\ y.clock \in Clocks
    BY <1>7 DEF GoodRegister, ToldApart
  <2>2. GoodRegister(x, top, I) /\ GoodRegister(y, top, I)
    BY <1>2, <1>4, <1>5, <1>7, <2>1, TimesOrdered DEF GoodRegister
  <2> QED
    BY <2>2, RegisterMerged
<1>8. Good(t, I)
  BY <1>1, <1>2, <1>3, <1>4, <1>6, <1>7 DEF Good, top
<1> QED
  BY <1>1, <1>4, <1>8 DEF t, top

\* Two good replicas that merge each other's state show the same.
LEMMA MergeShowsAlike ==
    ASSUME NEW s, NEW o, NEW I, ToldApart(I), Good(s, I), Good(o, I)
    PROVE  Shown(MergeState(s, o)) = Shown(MergeState(o, s))
<1> DEFINE cr == MergedCredence(s.credence, o.credence)
<1>1. IsCredence(cr) /\ cr = MergedCredence(o.credence, s.credence)
  BY CredencesMerged DEF Good
<1>2. IsReplica(s) /\ IsReplica(o)
  BY DEF Good
<1>3. /\ MergeState(s, o).credence = MergeState(o, s).credence
      /\ MergeState(s, o).credence = cr
  BY <1>1, <1>2, MergeFields
<1> HIDE DEF cr
<1>4. ASSUME NEW x, NEW y, IsOrSet(x), IsOrSet(y) PROVE OrSetMerge(x, y, cr) = OrSetMerge(y, x, cr)
  BY <1>1, <1>4, OrSetMergeIsJoin
<1>5. ASSUME NEW x \in I, NEW y \in I PROVE LwwMerge(x, y, cr) = LwwMerge(y, x, cr)
  BY <1>1, LwwMergeIsJoin DEF ToldApart
<1>6. /\ MergeState(s, o).models = MergeState(o, s).models
      /\ MergeState(s, o).epochs = MergeState(o, s).epochs
      /\ MergeState(s, o).seeds = MergeState(o, s).seeds
  <2>1. /\ MergeState(s, o).models = OrSetMerge(s.models, o.models, cr)
        /\ MergeState(o, s).models = OrSetMerge(o.models, s.models, cr)
        /\ MergeState(s, o).epochs = OrSetMerge(s.epochs, o.epochs, cr)
        /\ MergeState(o, s).epochs = OrSetMerge(o.epochs, s.epochs, cr)
        /\ MergeState(s, o).seeds = OrSetMerge(s.seeds, o.seeds, cr)
        /\ MergeState(o, s).seeds = OrSetMerge(o.seeds, s.seeds, cr)
    BY <1>1, <1>2, MergeFields DEF cr
  <2>2. /\ IsOrSet(s.models) /\ IsOrSet(o.models) /\ IsOrSet(s.epochs) /\ IsOrSet(o.epochs)
        /\ IsOrSet(s.seeds) /\ IsOrSet(o.seeds)
    BY DEF Good, GoodSet
  <2> QED
    BY <1>4, <2>1, <2>2
<1>7. /\ MergeState(s, o).model_topk = MergeState(o, s).model_topk
      /\ MergeState(s, o).seed_status = MergeState(o, s).seed_status
      /\ MergeState(s, o).policies = MergeState(o, s).policies
  <2>1. /\ MergeState(s, o).model_topk = LwwMerge(s.model_topk, o.model_topk, cr)
        /\ MergeState(o, s).model_topk = LwwMerge(o.model_topk, s.model_topk, cr)
        /\ MergeState(s, o).seed_status = LwwMerge(s.seed_status, o.seed_status, cr)
        /\ MergeState(o, s).seed_status = LwwMerge(o.seed_status, s.seed_status, cr)
        /\ MergeState(s, o).policies = LwwMerge(s.policies, o.policies, cr)
        /\ MergeState(o, s).policies = LwwMerge(o.policies, s.policies, cr)
    BY <1>1, <1>2, MergeFields DEF cr
  <2> QED
    BY <1>5, <2>1 DEF Good, GoodRegister
<1> QED
  BY Zenon, <1>3, <1>6, <1>7 DEF Shown

\* The replica t is s with a header put into one of its sets, or a value into
\* one of its registers.
Alike(t, s) == IsReplica(t) /\ t.peer = s.peer /\ t.clock = s.clock /\ t.credence = s.credence
ModelIn(t, s, h) ==
    /\ Alike(t, s) /\ t.model_topk = s.model_topk
    /\ t.models = OrSetInsert(s.models, h, h.version, s.credence)
SeedIn(t, s, h) ==
    /\ Alike(t, s) /\ t.models = s.models /\ t.seed_status = s.seed_status
    /\ t.seeds = OrSetInsert(s.seeds, h, h.version, s.credence)
TopKIn(t, s, x) ==
    /\ Alike(t, s) /\ t.models = s.models
    /\ t.model_topk = LwwMerge(s.model_topk, x, s.credence)
StatusIn(t, s, x) ==
    /\ Alike(t, s) /\ t.models = s.models /\ t.seeds = s.seeds
    /\ t.seed_status = LwwMerge(s.seed_status, x, s.credence)
PolicyIn(t, s, x) ==
    /\ Alike(t, s) /\ t.models = s.models
    /\ t.policies = LwwMerge(s.policies, x, s.credence)

\* The fields that the operations on a replica set and leave.
LEMMA AppliedFields ==
    ASSUME NEW s, IsReplica(s), NEW h, NEW v, NEW c
    PROVE  /\ ModelIn(ApplyModelHeader(s, h), s, h)
           /\ SeedIn(ApplySeed(s, h), s, h)
           /\ Alike(ApplyEpoch(s, h), s) /\ ApplyEpoch(s, h).models = s.models
           /\ TopKIn(UpdateModelTopK(s, v, c), s, Lww(v, c))
           /\ StatusIn(UpdateSeedStatus(s, v, c), s, Lww(v, c))
           /\ PolicyIn(UpdatePolicy(s, v, c), s, Lww(v, c))
<1>1. ModelIn(ApplyModelHeader(s, h), s, h)
  BY DEF ApplyModelHeader, IsReplica, ModelIn, Alike
<1>2. SeedIn(ApplySeed(s, h), s, h)
  BY DEF ApplySeed, IsReplica, SeedIn, Alike
<1>3. Alike(ApplyEpoch(s, h), s) /\ ApplyEpoch(s, h).models = s.models
  BY DEF ApplyEpoch, IsReplica, Alike
<1>4. TopKIn(UpdateModelTopK(s, v, c), s, Lww(v, c))
  BY DEF UpdateModelTopK, IsReplica, TopKIn, Alike
<1>5. StatusIn(UpdateSeedStatus(s, v, c), s, Lww(v, c))
  BY DEF UpdateSeedStatus, IsReplica, StatusIn, Alike
<1>6. PolicyIn(UpdatePolicy(s, v, c), s, Lww(v, c))
  BY DEF UpdatePolicy, IsReplica, PolicyIn, Alike
<1> QED
  BY Zenon, <1>1, <1>2, <1>3, <1>4, <1>5, <1>6

\* The replica t is s after apply_commit of p, with c as its clock.
CommittedIn(t, s, p, c) ==
    /\ IsReplica(t) /\ t.peer = s.peer /\ t.clock = c /\ t.credence = s.credence
    /\ p.object.kind = "model" =>
         /\ t.models = OrSetInsert(s.models, Header(p.object.content, p.clock), p.clock, s.credence)
         /\ t.model_topk = LwwMerge(s.model_topk, Lww(p.object.content, p.clock), s.credence)
    /\ p.object.kind # "model" => t.models = s.models
    /\ p.object.kind = "seed" =>
         /\ t.seeds = OrSetInsert(s.seeds, Header(p.object.content, p.clock), p.clock, s.credence)
         /\ t.seed_status = LwwMerge(s.seed_status, Lww(p.object.content, p.clock), s.credence)
    /\ p.object.kind = "policy" =>
         t.policies = LwwMerge(s.policies, Lww(p.object.content, p.clock), s.credence)

\* apply_commit, field by field.
LEMMA CommitParts ==
    ASSUME NEW s, IsReplica(s), NEW p, p.object.kind \in Kinds, NEW now
    PROVE  CommittedIn(ApplyCommit(s, p, now), s, p, HlcMerged(s.clock, p.clock, s.peer, now))
<1> DEFINE c == HlcMerged(s.clock, p.clock, s.peer, now)
           u == [s EXCEPT !.clock = c]
           content == p.object.content
           h == Header(content, p.clock)
           x == Lww(content, p.clock)
           a == ApplyModelHeader(u, h)
           b == ApplySeed(u, h)
           t == ApplyCommit(s, p, now)
<1>1. t = IF p.object.kind = "model" THEN UpdateModelTopK(a, content, p.clock)
          ELSE IF p.object.kind = "seed" THEN UpdateSeedStatus(b, content, p.clock)
          ELSE UpdatePolicy(u, content, p.clock)
  BY DEF ApplyCommit, Kinds
<1>2. /\ IsReplica(u) /\ u.peer = s.peer /\ u.clock = c /\ u.credence = s.credence
      /\ u.models = s.models /\ u.seeds = s.seeds /\ u.model_topk = s.model_topk
      /\ u.seed_status = s.seed_status /\ u.policies = s.policies
  BY DEF IsReplica
<1>3. h.version = p.clock
  BY DEF Header
<1> HIDE DEF u, c
<1>4. ModelIn(a, u, h) /\ SeedIn(b, u, h)
  BY Zenon, <1>2, AppliedFields
<1>5. IsReplica(a) /\ IsReplica(b)
  BY Zenon, <1>4 DEF ModelIn, SeedIn, Alike
<1> HIDE DEF a, b
<1>6. /\ TopKIn(UpdateModelTopK(a, content, p.clock), a, x)
      /\ StatusIn(UpdateSeedStatus(b, content, p.clock), b, x)
      /\ PolicyIn(UpdatePolicy(u, content, p.clock), u, x)
  BY Zenon, <1>2, <1>5, AppliedFields
<1> HIDE DEF content, h, x, t
<1>7. CASE p.object.kind = "model"
  <2>1. TopKIn(t, a, x)
    BY <1>1, <1>6, <1>7
  <2>2. /\ IsReplica(t) /\ t.peer = s.peer /\ t.clock = c /\ t.credence = s.credence
        /\ t.models = OrSetInsert(s.models, h, p.clock, s.credence)
        /\ t.model_topk = LwwMerge(s.model_topk, x, s.credence)
    BY <1>2, <1>3, <1>4, <2>1 DEF TopKIn, ModelIn, Alike
  <2> QED
    BY <1>7, <2>2 DEF CommittedIn, t, c, h, x, content
<1>8. CASE p.object.kind = "seed"
  <2>1. StatusIn(t, b, x)
    BY <1>1, <1>6, <1>8
  <2>2. /\ IsReplica(t) /\ t.peer = s.peer /\ t.clock = c /\ t.credence = s.credence
        /\ t.seeds = OrSetInsert(s.seeds, h, p.clock, s.credence) /\ t.models = s.models
        /\ t.seed_status = LwwMerge(s.seed_status, x, s.credence)
    BY <1>2, <1>3, <1>4, <2>1 DEF StatusIn, SeedIn, Alike
  <2> QED
    BY <1>8, <2>2 DEF CommittedIn, t, c, h, x, content
<1>9. CASE p.object.kind = "policy"
  <2>1. PolicyIn(t, u, x)
    BY <1>1, <1>6, <1>9
  <2>2. /\ IsReplica(t) /\ t.peer = s.peer /\ t.clock = c /\ t.credence = s.credence
        /\ t.models = s.models /\ t.policies = LwwMerge(s.policies, x, s.credence)
    BY <1>2, <2>1 DEF PolicyIn, Alike
  <2> QED
    BY <1>9, <2>2 DEF CommittedIn, t, c, h, x, content
<1> QED
  BY <1>7, <1>8, <1>9 DEF Kinds

\* What apply_commit does to the clock and the shape of a replica.
LEMMA CommitFields ==
    ASSUME NEW s, IsReplica(s), NEW p, p.object.kind \in Kinds, NEW now
    PROVE  LET t == ApplyCommit(s, p, now)
           IN  /\ IsReplica(t) /\ t.peer = s.peer
               /\ t.clock = HlcMerged(s.clock, p.clock, s.peer, now)
<1> DEFINE t == ApplyCommit(s, p, now)
           c == HlcMerged(s.clock, p.clock, s.peer, now)
<1>1. CommittedIn(t, s, p, c)
  BY Zenon, CommitParts
<1> HIDE DEF t, c
<1>2. IsReplica(t) /\ t.peer = s.peer /\ t.clock = c
  BY <1>1 DEF CommittedIn
<1> QED
  BY <1>2 DEF t, c

\* An update stamped c is shown by the set and the register it is put into.
Displayed(set, reg, content, c, credence) ==
    /\ Header(content, c)
         \in OrSetElements(OrSetInsert(set, Header(content, c), c, credence), credence)
    /\ LwwMerge(reg, Lww(content, c), credence).clock = c

\* A committed update, as apply_commit stamps it, is what the replica's set and
\* register show, when all they held is from before.
LEMMA UpdateShown ==
    ASSUME NEW set, NEW top \in Clocks, GoodSet(set, top), NEW credence, IsCredence(credence),
           NEW reg, reg.clock \in Clocks, AtMost(reg.clock, top),
           NEW content, NEW c \in Clocks, Earlier(top, c)
    PROVE  Displayed(set, reg, content, c, credence)
<1> DEFINE h == Header(content, c)
           x == PutLatest(set.adds, h, c, credence)
           after == OrSetInsert(set, h, c, credence)
<1>1. h.version = c
  BY DEF Header
<1>2. after.adds = x /\ after.removals = set.removals
  BY DEF OrSetInsert, GoodSet, IsOrSet
<1>3. h \in DOMAIN x
  BY DEF PutLatest
<1>4. h \notin DOMAIN set.removals
  BY <1>1, TimesOrdered DEF GoodSet, AtMost
<1> HIDE DEF h, x, after
<1>5. h \in OrSetElements(after, credence)
  BY <1>2, <1>3, <1>4 DEF OrSetElements
<1>6. Lww(content, c).clock = c
  BY DEF Lww
<1>7. Earlier(reg.clock, c)
  BY TimesOrdered
<1>8. LwwMerge(reg, Lww(content, c), credence) = Lww(content, c)
  BY <1>6, <1>7 DEF LwwMerge, HlcLess
<1> QED
  BY <1>5, <1>6, <1>8 DEF Displayed, h, after

\* apply_commit keeps a replica good, and the headers it has removed.
LEMMA CommitGood ==
    ASSUME NEW s, NEW I, ToldApart(I), Good(s, I), s.clock.log < LogLimit,
           NEW p, p.clock \in Clocks, p.clock.log < LogLimit, p.object.kind \in Kinds,
           Lww(p.object.content, p.clock) \in I, NEW now \in Nat
    PROVE  /\ Good(ApplyCommit(s, p, now), I)
           /\ DOMAIN ApplyCommit(s, p, now).models.removals = DOMAIN s.models.removals
           /\ Earlier(s.clock, ApplyCommit(s, p, now).clock)
           /\ Earlier(p.clock, ApplyCommit(s, p, now).clock)
<1> DEFINE c == HlcMerged(s.clock, p.clock, s.peer, now)
           u == [s EXCEPT !.clock = c]
           content == p.object.content
           h == Header(content, p.clock)
           t == ApplyCommit(s, p, now)
<1>1. t = IF p.object.kind = "model"
            THEN UpdateModelTopK(ApplyModelHeader(u, h), content, p.clock)
          ELSE IF p.object.kind = "seed"
            THEN UpdateSeedStatus(ApplySeed(u, h), content, p.clock)
          ELSE UpdatePolicy(u, content, p.clock)
  BY DEF ApplyCommit, Kinds
<1>2. s.clock \in Clocks /\ s.peer \in Nat
  BY DEF Good
<1>3. Joint(c, s.clock, p.clock, s.peer)
  BY <1>2, MergedLater
<1> HIDE DEF c
<1>4. c \in Clocks /\ c.node = s.peer /\ Earlier(s.clock, c) /\ Earlier(p.clock, c)
  BY <1>3 DEF Joint
<1>5. AtMost(s.clock, c) /\ AtMost(p.clock, c)
  BY <1>2, <1>4, TimesOrdered
<1>6. Good(u, I)
  BY <1>4, <1>5, ClockRaised
<1>7. u.clock = c /\ u.models = s.models
  BY DEF Good, IsReplica
<1> HIDE DEF u, t
<1>8. Lww(content, p.clock).clock = p.clock
  BY DEF Lww
<1>9. /\ Good(ApplyModelHeader(u, h), I) /\ ApplyModelHeader(u, h).clock = c
      /\ Good(ApplySeed(u, h), I) /\ ApplySeed(u, h).clock = c
  <2>1. KeptByHeader(u, h, I)
    BY <1>4, <1>5, <1>6, <1>7, HeadersApplied
  <2> QED
    BY <1>7, <2>1 DEF KeptByHeader
<1> HIDE DEF content, h
<1>10. GoodRegister(Lww(content, p.clock), c, I)
  BY <1>5, <1>8 DEF GoodRegister, content
<1>11. Good(t, I)
  BY <1>1, <1>6, <1>7, <1>9, <1>10, RegistersUpdated
<1>12. CommittedIn(t, s, p, c)
  BY Zenon, CommitParts DEF Good, t, c
<1>13. OrSetInsert(s.models, h, p.clock, s.credence).removals = s.models.removals
  BY DEF OrSetInsert, Good, GoodSet, IsOrSet
<1>14. t.models.removals = s.models.removals /\ t.clock = c
  BY Zenon, <1>12, <1>13 DEF CommittedIn, h, content
<1> QED
  BY <1>4, <1>11, <1>14 DEF t

\* The replica t shows the object of the proposal p.
ShowsObject(t, p) ==
    /\ p.object.kind = "model" =>
         /\ Header(p.object.content, p.clock) \in Shown(t).models
         /\ Shown(t).model_topk.clock = p.clock
    /\ p.object.kind = "seed" =>
         /\ Header(p.object.content, p.clock) \in Shown(t).seeds
         /\ Shown(t).seed_status.clock = p.clock
    /\ p.object.kind = "policy" => Shown(t).policies.clock = p.clock

\* A commit stamped after all that the replica holds is shown.
LEMMA CommitShown ==
    ASSUME NEW s, NEW I, ToldApart(I), Good(s, I), NEW top \in Clocks,
           GoodSet(s.models, top), GoodSet(s.seeds, top), AtMost(s.model_topk.clock, top),
           AtMost(s.seed_status.clock, top), AtMost(s.policies.clock, top),
           NEW p, p.clock \in Clocks, Earlier(top, p.clock), p.object.kind \in Kinds,
           NEW now
    PROVE  ShowsObject(ApplyCommit(s, p, now), p)
<1> DEFINE content == p.object.content
           h == Header(content, p.clock)
           x == Lww(content, p.clock)
           t == ApplyCommit(s, p, now)
<1>1. CommittedIn(t, s, p, HlcMerged(s.clock, p.clock, s.peer, now))
  BY Zenon, CommitParts DEF Good
<1>2. /\ s.model_topk.clock \in Clocks /\ s.seed_status.clock \in Clocks
      /\ s.policies.clock \in Clocks /\ IsCredence(s.credence)
  BY DEF Good, GoodRegister, ToldApart
<1>3. /\ Displayed(s.models, s.model_topk, content, p.clock, s.credence)
      /\ Displayed(s.seeds, s.seed_status, content, p.clock, s.credence)
      /\ Displayed(s.seeds, s.policies, content, p.clock, s.credence)
  BY Zenon, <1>2, UpdateShown
<1> HIDE DEF t
<1>4. ASSUME p.object.kind = "model"
      PROVE  h \in Shown(t).models /\ Shown(t).model_topk.clock = p.clock
  <2>1. t.models = OrSetInsert(s.models, h, p.clock, s.credence) /\ t.credence = s.credence
        /\ t.model_topk = LwwMerge(s.model_topk, x, s.credence)
    BY Zenon, <1>1, <1>4 DEF CommittedIn
  <2> QED
    BY Zenon, <1>3, <2>1 DEF Shown, Displayed
<1>5. ASSUME p.object.kind = "seed"
      PROVE  h \in Shown(t).seeds /\ Shown(t).seed_status.clock = p.clock
  <2>1. t.seeds = OrSetInsert(s.seeds, h, p.clock, s.credence) /\ t.credence = s.credence
        /\ t.seed_status = LwwMerge(s.seed_status, x, s.credence)
    BY Zenon, <1>1, <1>5 DEF CommittedIn
  <2> QED
    BY Zenon, <1>3, <2>1 DEF Shown, Displayed
<1>6. ASSUME p.object.kind = "policy" PROVE Shown(t).policies.clock = p.clock
  <2>1. t.policies = LwwMerge(s.policies, x, s.credence)
    BY Zenon, <1>1, <1>6 DEF CommittedIn
  <2> QED
    BY Zenon, <1>3, <2>1 DEF Shown, Displayed
<1> QED
  BY Zenon, <1>4, <1>5, <1>6 DEF t, ShowsObject

-----------------------------------------------------------------------------
(* Engines *)

IsProposal(q) ==
    /\ q = [proposer |-> q.proposer, object |-> q.object, clock |-> q.clock, votes |-> q.votes,
            committed |-> q.committed, credence_sum |-> q.credence_sum]
    /\ q.clock \in Clocks /\ q.object.kind \in Kinds
    /\ \A v \in DOMAIN q.votes : q.votes[v].clock \in Clocks

IsEngine(e) ==
    /\ e = [quorum |-> e.quorum, proposals |-> e.proposals]
    /\ \A i \in DOMAIN e.proposals : IsProposal(e.proposals[i])

\* A vote stamped clock, or one at least as new, stands for the peer.
Stands(q, peer, clock) == peer \in DOMAIN q.votes /\ ~ IsNewer(clock, q.votes[peer].clock)

\* A proposal, later on: its object and clock are the same, its votes as new.
Became(q, before) ==
    /\ q.object = before.object /\ q.clock = before.clock
    /\ \A v \in DOMAIN before.votes : Stands(q, v, before.votes[v].clock)

\* An engine, later on.
Follows(e, before) ==
    \A i \in DOMAIN before.proposals :
      i \in DOMAIN e.proposals /\ Became(e.proposals[i], before.proposals[i])

\* is_newer orders clocks.
LEMMA NewerOrders ==
    ASSUME NEW a \in Clocks, NEW b \in Clocks, NEW c \in Clocks
    PROVE  /\ ~ IsNewer(a, a)
           /\ IsNewer(a, b) => ~ IsNewer(b, a)
           /\ ~ IsNewer(a, b) /\ ~ IsNewer(b, c) => ~ IsNewer(a, c)
  BY DEF Clocks, IsNewer, Earlier

\* What stood before stands in what a proposal became.
LEMMA StillStands ==
    ASSUME NEW q, NEW before, IsProposal(q), IsProposal(before), Became(q, before),
           NEW peer, NEW clock \in Clocks, Stands(before, peer, clock)
    PROVE  Stands(q, peer, clock)
<1>1. peer \in DOMAIN before.votes /\ peer \in DOMAIN q.votes
  BY DEF Stands, Became
<1>2. before.votes[peer].clock \in Clocks /\ q.votes[peer].clock \in Clocks
  BY <1>1 DEF IsProposal
<1> QED
  BY <1>1, <1>2, NewerOrders DEF Stands, Became

\* A proposal is its own successor.
LEMMA LaterSelf ==
    ASSUME NEW q, IsProposal(q)
    PROVE  Became(q, q)
<1>1. ASSUME NEW v \in DOMAIN q.votes PROVE Stands(q, v, q.votes[v].clock)
  BY NewerOrders DEF Stands, IsProposal
<1> QED
  BY <1>1 DEF Became

\* The outcome of vote() for a proposal.
Recorded(q, before, peer, clock) ==
    IsProposal(q) /\ Became(q, before) /\ Stands(q, peer, clock)

\* vote(): a vote that is not recorded is no newer than the voter's last one.
LEMMA VoteKept ==
    ASSUME NEW q, IsProposal(q), NEW peer, NEW vote, vote.clock \in Clocks,
           ~ VoteIsRecorded(q, peer, vote.clock)
    PROVE  Recorded(q, q, peer, vote.clock)
<1>1. peer \in DOMAIN q.votes /\ ~ IsNewer(vote.clock, q.votes[peer].clock)
  BY DEF VoteIsRecorded
<1> QED
  BY <1>1, LaterSelf DEF Recorded, Stands

\* vote(): a vote that is recorded replaces the voter's last one.
LEMMA VoteReplaces ==
    ASSUME NEW q, IsProposal(q), NEW peer, NEW vote, vote.clock \in Clocks,
           VoteIsRecorded(q, peer, vote.clock), NEW done
    PROVE  Recorded([RecordVote(q, peer, vote) EXCEPT !.committed = done], q, peer, vote.clock)
<1> DEFINE votes == [p \in DOMAIN q.votes \cup {peer} |-> IF p = peer THEN vote ELSE q.votes[p]]
           sum == q.credence_sum + Weight(vote) -
                    (IF peer \in DOMAIN q.votes THEN Weight(q.votes[peer]) ELSE 0)
           t == [RecordVote(q, peer, vote) EXCEPT !.committed = done]
<1>1. t = [[q EXCEPT !.votes = votes, !.credence_sum = sum] EXCEPT !.committed = done]
  BY DEF RecordVote
<1>2. DOMAIN votes = DOMAIN q.votes \cup {peer} /\ votes[peer] = vote
  OBVIOUS
<1>3. ASSUME NEW v \in DOMAIN q.votes, v # peer PROVE votes[v] = q.votes[v]
  BY <1>3
<1> HIDE DEF votes, sum, t
<1>4. t = [proposer |-> q.proposer, object |-> q.object, clock |-> q.clock, votes |-> votes,
           committed |-> done, credence_sum |-> sum]
  BY Zenon, <1>1 DEF IsProposal
<1>5. /\ t = [proposer |-> t.proposer, object |-> t.object, clock |-> t.clock, votes |-> t.votes,
              committed |-> t.committed, credence_sum |-> t.credence_sum]
      /\ t.object = q.object /\ t.clock = q.clock /\ t.votes = votes
  BY <1>4
<1>6. ASSUME NEW v \in DOMAIN votes PROVE votes[v].clock \in Clocks
  BY <1>2, <1>3 DEF IsProposal
<1>7. IsProposal(t)
  BY <1>5, <1>6 DEF IsProposal
<1>8. Stands(t, peer, vote.clock)
  BY <1>2, <1>5, NewerOrders DEF Stands
<1>9. ASSUME NEW v \in DOMAIN q.votes PROVE Stands(t, v, q.votes[v].clock)
  <2>1. q.votes[v].clock \in Clocks
    BY DEF IsProposal
  <2>2. CASE v = peer
    BY <1>2, <1>5, <2>1, <2>2, NewerOrders DEF Stands, VoteIsRecorded
  <2>3. CASE v # peer
    BY <1>2, <1>3, <1>5, <2>1, <2>3, NewerOrders DEF Stands
  <2> QED
    BY <2>2, <2>3
<1>10. Recorded(t, q, peer, vote.clock)
  BY <1>5, <1>7, <1>8, <1>9 DEF Recorded, Became
<1> QED
  BY <1>10 DEF t

\* An engine in which one proposal was replaced by what it became.
Replaced(e, before, id) ==
    /\ IsEngine(e) /\ Follows(e, before)
    /\ e.quorum = before.quorum /\ DOMAIN e.proposals = DOMAIN before.proposals
    /\ \A i \in DOMAIN e.proposals : i # id => e.proposals[i] = before.proposals[i]

\* An engine in which one proposal is replaced keeps the others.
LEMMA ProposalReplaced ==
    ASSUME NEW e, IsEngine(e), NEW id \in DOMAIN e.proposals, NEW q, IsProposal(q),
           Became(q, e.proposals[id])
    PROVE  /\ Replaced([e EXCEPT !.proposals[id] = q], e, id)
           /\ [e EXCEPT !.proposals[id] = q].proposals[id] = q
<1> DEFINE ps == [e.proposals EXCEPT ![id] = q]
           f == [e EXCEPT !.proposals[id] = q]
<1>1. f = [quorum |-> e.quorum, proposals |-> ps]
  BY DEF IsEngine
<1>2. f.quorum = e.quorum /\ f.proposals = ps /\ f = [quorum |-> f.quorum, proposals |-> f.proposals]
  BY <1>1
<1>3. DOMAIN ps = DOMAIN e.proposals /\ ps[id] = q
  OBVIOUS
<1>4. ASSUME NEW i \in DOMAIN e.proposals, i # id PROVE ps[i] = e.proposals[i]
  BY <1>4
<1> HIDE DEF ps, f
<1>5. ASSUME NEW i \in DOMAIN e.proposals PROVE IsProposal(ps[i]) /\ Became(ps[i], e.proposals[i])
  BY <1>3, <1>4, LaterSelf DEF IsEngine
<1>6. IsEngine(f)
  BY <1>2, <1>3, <1>5 DEF IsEngine
<1>7. Follows(f, e)
  BY <1>2, <1>3, <1>5 DEF Follows
<1>8. Replaced(f, e, id) /\ f.proposals[id] = q
  BY <1>2, <1>3, <1>4, <1>6, <1>7 DEF Replaced
<1> QED
  BY <1>8 DEF f

\* An engine follows itself.
LEMMA ReplacedSelf ==
    ASSUME NEW e, IsEngine(e), NEW id
    PROVE  Replaced(e, e, id)
  BY LaterSelf DEF Replaced, Follows, IsEngine

\* vote()
LEMMA VoteCounted ==
    ASSUME NEW e, IsEngine(e), NEW id \in DOMAIN e.proposals, NEW peer, NEW vote, vote.clock \in Clocks
    PROVE  /\ Replaced(Vote(e, id, peer, vote), e, id)
           /\ Recorded(Vote(e, id, peer, vote).proposals[id], e.proposals[id], peer, vote.clock)
<1> DEFINE q == e.proposals[id]
           voted == RecordVote(q, peer, vote)
           done == voted.committed \/ Commits(voted, e.quorum)
           t == [voted EXCEPT !.committed = done]
<1>1. IsProposal(q)
  BY DEF IsEngine
<1>2. CASE ~ VoteIsRecorded(q, peer, vote.clock)
  <2>1. Vote(e, id, peer, vote) = e
    BY <1>2 DEF Vote
  <2>2. Recorded(q, q, peer, vote.clock)
    BY <1>1, <1>2, VoteKept
  <2> QED
    BY <2>1, <2>2, ReplacedSelf
<1>3. CASE VoteIsRecorded(q, peer, vote.clock)
  <2>1. Vote(e, id, peer, vote) = [e EXCEPT !.proposals[id] = t]
    BY <1>3 DEF Vote
  <2> HIDE DEF done
  <2>2. Recorded(t, q, peer, vote.clock)
    BY <1>1, <1>3, VoteReplaces
  <2> HIDE DEF t
  <2>3. Replaced([e EXCEPT !.proposals[id] = t], e, id) /\ [e EXCEPT !.proposals[id] = t].proposals[id] = t
    BY <2>2, ProposalReplaced DEF Recorded
  <2> QED
    BY <2>1, <2>2, <2>3
<1> QED
  BY <1>2, <1>3

\* commit()
LEMMA CommitForced ==
    ASSUME NEW e, IsEngine(e), NEW id \in DOMAIN e.proposals
    PROVE  Replaced(Commit(e, id), e, id)
<1> DEFINE q == e.proposals[id]
           yes == TRUE
           t == [q EXCEPT !.committed = yes]
<1>1. IsProposal(q) /\ Commit(e, id) = [e EXCEPT !.proposals[id] = t]
  BY DEF IsEngine, Commit
<1> HIDE DEF yes
<1>2. t = [proposer |-> q.proposer, object |-> q.object, clock |-> q.clock, votes |-> q.votes,
           committed |-> yes, credence_sum |-> q.credence_sum]
  BY <1>1 DEF IsProposal
<1> HIDE DEF t
<1>3. /\ t = [proposer |-> t.proposer, object |-> t.object, clock |-> t.clock, votes |-> t.votes,
              committed |-> t.committed, credence_sum |-> t.credence_sum]
      /\ t.object = q.object /\ t.clock = q.clock /\ t.votes = q.votes
  BY <1>2
<1>4. IsProposal(t)
  BY <1>1, <1>3 DEF IsProposal
<1>5. Became(t, q)
  BY <1>1, <1>3, LaterSelf DEF Became, Stands
<1> QED
  BY <1>1, <1>4, <1>5, ProposalReplaced

\* set_quorum
LEMMA QuorumSet ==
    ASSUME NEW e, IsEngine(e), NEW quorum
    PROVE  /\ IsEngine(SetQuorum(e, quorum)) /\ Follows(SetQuorum(e, quorum), e)
           /\ SetQuorum(e, quorum).proposals = e.proposals
<1> DEFINE f == SetQuorum(e, quorum)
<1>1. f.proposals = e.proposals /\ f = [quorum |-> f.quorum, proposals |-> f.proposals]
  BY DEF SetQuorum, IsEngine
<1> HIDE DEF f
<1>2. IsEngine(f) /\ Follows(f, e)
  BY <1>1, LaterSelf DEF IsEngine, Follows
<1> QED
  BY <1>1, <1>2 DEF f

\* An engine with one more proposal, of an object stamped clock.
Extended(e, before, id, object, clock) ==
    /\ IsEngine(e) /\ Follows(e, before)
    /\ DOMAIN e.proposals = DOMAIN before.proposals \cup {id}
    /\ e.proposals[id].object = object /\ e.proposals[id].clock = clock
    /\ \A i \in DOMAIN before.proposals : e.proposals[i] = before.proposals[i]

\* propose_model, propose_seed and propose_policy
LEMMA ObjectProposed ==
    ASSUME NEW e, IsEngine(e), NEW id, id \notin DOMAIN e.proposals, NEW proposer,
           NEW object, object.kind \in Kinds, NEW clock \in Clocks
    PROVE  Extended(ProposeObject(e, id, proposer, object, clock), e, id, object, clock)
<1> DEFINE none == << >>
           q == [proposer |-> proposer, object |-> object, clock |-> clock,
                 votes |-> none, committed |-> FALSE, credence_sum |-> 0]
           ps == [i \in DOMAIN e.proposals \cup {id} |-> IF i = id THEN q ELSE e.proposals[i]]
           f == ProposeObject(e, id, proposer, object, clock)
<1>1. f = [e EXCEPT !.proposals = ps]
  BY Zenon DEF ProposeObject
<1>2. q.object = object /\ q.clock = clock /\ IsProposal(q)
  <2>1. DOMAIN none = {}
    OBVIOUS
  <2> HIDE DEF none
  <2> QED
    BY <2>1 DEF IsProposal
<1> HIDE DEF q, f
<1>3. /\ DOMAIN ps = DOMAIN e.proposals \cup {id} /\ ps[id] = q
      /\ \A i \in DOMAIN e.proposals : ps[i] = e.proposals[i]
  OBVIOUS
<1> HIDE DEF ps
<1>4. f = [quorum |-> e.quorum, proposals |-> ps]
  BY <1>1 DEF IsEngine
<1>5. f.proposals = ps /\ f = [quorum |-> f.quorum, proposals |-> f.proposals]
  BY <1>4
<1>6. IsEngine(f)
  BY <1>2, <1>3, <1>5 DEF IsEngine
<1>7. Follows(f, e)
  BY <1>3, <1>5, LaterSelf DEF Follows, IsEngine
<1>8. Extended(f, e, id, object, clock)
  BY <1>2, <1>3, <1>5, <1>6, <1>7 DEF Extended
<1> QED
  BY <1>8 DEF f

\* A vote on the new proposal comes on top.
LEMMA ExtendedAndVoted ==
    ASSUME NEW e, IsEngine(e), NEW asked, NEW id, id \notin DOMAIN e.proposals, NEW object, NEW clock,
           Extended(asked, e, id, object, clock), NEW voted, Replaced(voted, asked, id)
    PROVE  Extended(voted, e, id, object, clock)
<1>1. DOMAIN voted.proposals = DOMAIN e.proposals \cup {id}
  BY DEF Extended, Replaced
<1>2. ASSUME NEW i \in DOMAIN e.proposals PROVE voted.proposals[i] = e.proposals[i]
  BY <1>1 DEF Extended, Replaced
<1>3. Follows(voted, e)
  BY <1>1, <1>2, LaterSelf DEF Follows, IsEngine
<1>4. voted.proposals[id].object = object /\ voted.proposals[id].clock = clock
  BY DEF Extended, Replaced, Follows, Became
<1> QED
  BY <1>1, <1>2, <1>3, <1>4 DEF Extended, Replaced
=============================================================================
