----------------------------- MODULE ReflexRules -----------------------------
(***************************************************************************)
(* Reflex rules of the field (add_reflex, remove_reflex,                   *)
(* process_reflex_for and fire_reflex of liminal-core/src/cluster_field.rs)*)
(* An impulse is counted under each of its tokens; a rule fires when       *)
(* enough impulses of its kind and strength arrived within its window.     *)
(*                                                                         *)
(* What a rule does can depend on the order in which a hash map is walked  *)
(* and on the ranking of cells, so the operators return the set of         *)
(* possible outcomes: records of the field f, the deltas d emitted and the *)
(* rules fired by this impulse.                                            *)
(***************************************************************************)
EXTENDS FieldCore

CONSTANTS
    DefaultRetention,   \* counters no rule looks at are kept this long (2 s)
    QueueCap            \* newest impulses kept per token and kind (256)

\* add_reflex: id 0 asks for a fresh id
AddReflex(f, id, rule) ==
    LET given == IF id = 0 THEN f.nextRule ELSE id
    IN  [f |-> [f EXCEPT !.nextRule = IF id = 0 THEN @ + 1 ELSE Larger(@, id + 1),
                         !.rules = [i \in DOMAIN @ \cup {given} |->
                                       IF i = given THEN rule ELSE @[i]]],
         d |-> <<[kind |-> "reflex_add", id |-> given, rule |-> rule]>>,
         id |-> given]

RemoveReflex(f, id) ==
    [f |-> [f EXCEPT !.rules = [i \in DOMAIN @ \ {id} |-> @[i]]],
     d |-> IF id \in DOMAIN f.rules THEN <<[kind |-> "reflex_remove", id |-> id]>> ELSE <<>>]

Relevant(f, t, imp) ==
    {r \in DOMAIN f.rules : /\ f.rules[r].enabled
                            /\ f.rules[r].kind = imp.kind
                            /\ t \in f.rules[r].tokens}

CountOf(f, key) == IF key \in DOMAIN f.counters THEN f.counters[key] ELSE <<>>

\* Mutant: counters are kept for the shortest window of the rules, not the longest
RetentionShortest(windows) ==
    IF windows = {} THEN DefaultRetention
    ELSE CHOOSE w \in windows : \A v \in windows : w <= v

Retention(windows) ==
    IF windows = {} THEN DefaultRetention
    ELSE CHOOSE w \in windows : \A v \in windows : w >= v

\* the impulse is counted, then the queue loses what the retention and the cap
\* no longer cover
Count(f, t, imp) ==
    LET key  == <<t, imp.kind>>
        keep == Retention({f.rules[r].window : r \in Relevant(f, t, imp)})
        all  == Append(CountOf(f, key), [ts |-> f.now, strength |-> imp.strength])
        kept == SelectSeq(all, LAMBDA e : f.now - e.ts <= keep)
    IN  [f EXCEPT !.counters = [k \in DOMAIN @ \cup {key} |->
                                   IF k = key THEN Capped(kept, QueueCap) ELSE @[k]]]

Matched(f, t, r) ==
    Len(SelectSeq(CountOf(f, <<t, f.rules[r].kind>>),
                  LAMBDA e : /\ f.now - e.ts <= f.rules[r].window
                             /\ e.strength >= f.rules[r].minStrength))

-----------------------------------------------------------------------------
(* What a fired rule does *)

SpawnCell(o, cell) ==
    LET id == o.f.next
    IN  [o EXCEPT !.f = [AttachCell(@, id, cell) EXCEPT !.next = id + 1],
                  !.d = Append(@, SpawnDelta(id, cell))]

WakeCells(o, ids) ==
    LET f == [o.f EXCEPT !.cells = [i \in DOMAIN @ |->
                 IF i \in ids THEN [@[i] EXCEPT !.state = "Awake", !.energy = "Fed"] ELSE @[i]]]
    IN  [o EXCEPT !.f = f, !.d = @ \o SetToSeq({EnergyDelta(i, f.cells[i]) : i \in ids})]

\* perform_wake_sleeping takes the first count sleeping cells, those whose
\* pattern has the token before the others
WakeChoices(f, t, count) ==
    LET sleeping == {i \in Ids(f) : f.cells[i].state = "Sleep"}
        near     == {i \in sleeping : t \in f.cells[i].pat}
    IN  {w \in SUBSET sleeping :
            /\ Cardinality(w) = IF count < Cardinality(sleeping) THEN count ELSE Cardinality(sleeping)
            /\ near \subseteq w \/ w \subseteq near}

\* BoostLinks only moves route bias, EmitHint only logs
FireReflex(o, r, t) ==
    LET rule  == o.f.rules[r]
        fired == [o EXCEPT !.d = Append(@, StateDelta("reflex_fire", r)), !.fired = @ \cup {r}]
    IN  CASE rule.then = "SpawnSeed"    -> {SpawnCell(fired, FromSeed(rule.seed))}
          [] rule.then = "WakeSleeping" -> {WakeCells(fired, w) : w \in WakeChoices(o.f, t, 1)}
          [] OTHER                      -> {fired}

Pending(o, f, t, imp) ==
    {r \in Relevant(f, t, imp) \ o.fired : Matched(f, t, r) >= f.rules[r].minCount}

\* process_reflex_for: the rules due are fired once each, in any order
ProcessReflexFor(o, t, imp) ==
    LET f == Count(o.f, t, imp)
    IN  UNION {FoldLeft(LAMBDA S, r : UNION {FireReflex(x, r, t) : x \in S},
                        {[o EXCEPT !.f = f]}, order)
               : order \in SetToSeqs(Pending(o, f, t, imp))}

\* the reflex part of route_impulse: every distinct token in turn
ProcessReflexes(f, imp) ==
    FoldLeft(LAMBDA S, t : UNION {ProcessReflexFor(o, t, imp) : o \in S},
             {[f |-> f, d |-> <<>>, fired |-> {}]}, imp.tokens)
=============================================================================
