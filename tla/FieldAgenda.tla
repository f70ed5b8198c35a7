----------------------------- MODULE FieldAgenda -----------------------------
(***************************************************************************)
(* What a tick of the field settles besides its cells: the registered      *)
(* views (liminal-core/src/views.rs), emitted when they are due, and the   *)
(* seed garden (seeds.rs), whose seeds sprout, bloom and are harvested by  *)
(* age.  Times are in units of the views' tick.                            *)
(***************************************************************************)
EXTENDS FieldCore

CONSTANTS
    ViewTick,       \* views are looked at once per so much field time (500 ms)
    MinEvery,       \* a view is emitted no more often than this (200 ms)
    SproutAge,      \* a planted seed sprouts at this age (1 s)
    BloomAge        \* and blooms at this one (10 s)

Minus(a, b) == IF a > b THEN a - b ELSE 0

\* Subscribe of exec_lql, and add_view: due at the next look, once the field is
\* older than the period
AddView(f, every) ==
    LET e == Larger(every, MinEvery)
        v == [every |-> e, last |-> Minus(f.now, e)]
    IN  [f EXCEPT !.views = [i \in DOMAIN @ \cup {f.nextView} |-> IF i = f.nextView THEN v ELSE @[i]],
                  !.nextView = @ + 1]

RemoveView(f, id) == [f EXCEPT !.views = [i \in DOMAIN @ \ {id} |-> @[i]]]

Due(f) == {i \in DOMAIN f.views : Minus(f.now, f.views[i].last) >= f.views[i].every}

\* Mutant: the length of the tick is compared with ViewTick, not the time gathered
EmitViewsPerTick(f, dt) ==
    LET due == IF dt >= ViewTick THEN Due(f) ELSE {}
    IN  [f EXCEPT !.views = [i \in DOMAIN @ |-> IF i \in due THEN [@[i] EXCEPT !.last = f.now] ELSE @[i]]]

\* the loop over view_tick_accum calls take_due at least once, and every call
\* after the first finds nothing, because each view waits at least MinEvery
EmitViews(f, dt) ==
    LET total == f.accum + dt
        due   == IF total >= ViewTick THEN Due(f) ELSE {}
    IN  [f EXCEPT !.accum = total % ViewTick,
                  !.views = [i \in DOMAIN @ |-> IF i \in due THEN [@[i] EXCEPT !.last = f.now] ELSE @[i]]]

-----------------------------------------------------------------------------

Settled == {"Harvested", "Aborted"}

\* seeds.rs plant, with an id of its own choice
Plant(f, ttl) ==
    LET s == [planted |-> f.now, ttl |-> ttl, stage |-> "Planted"]
    IN  [f EXCEPT !.seeds = [i \in DOMAIN @ \cup {f.nextSeed} |-> IF i = f.nextSeed THEN s ELSE @[i]],
                  !.nextSeed = @ + 1]

\* abort marks any seed it finds, a harvested one too
Abort(f, id) ==
    IF id \in DOMAIN f.seeds THEN [f EXCEPT !.seeds[id].stage = "Aborted"] ELSE f

\* Mutant: a tick looks at the aborted seeds as well
TickSeedAll(seed, now) ==
    LET age == Minus(now, seed.planted)
    IN  IF seed.stage = "Harvested" THEN seed
        ELSE [seed EXCEPT !.stage = IF age >= seed.ttl THEN "Harvested"
                                    ELSE IF age >= BloomAge THEN "Blooming"
                                    ELSE IF age >= SproutAge THEN "Sprouting" ELSE @]

\* tick_garden for one seed.  The yield a seed is scored by is never negative
\* (the evaluation is a placeholder), so at its ttl the seed is harvested.
TickSeed(seed, now) ==
    LET age   == Minus(now, seed.planted)
        grown == IF seed.stage = "Planted" /\ age >= SproutAge THEN "Sprouting" ELSE seed.stage
        stage == IF grown = "Sprouting" /\ age >= BloomAge THEN "Blooming" ELSE grown
    IN  IF seed.stage \in Settled THEN seed
        ELSE [seed EXCEPT !.stage = IF age >= seed.ttl THEN "Harvested" ELSE stage]

TickGarden(f) == [f EXCEPT !.seeds = [i \in DOMAIN @ |-> TickSeed(@[i], f.now)]]
=============================================================================
