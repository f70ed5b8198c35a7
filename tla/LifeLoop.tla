------------------------------ MODULE LifeLoop ------------------------------
(***************************************************************************)
(* The life loop (liminal-core/src/life_loop.rs): it sleeps for one tick,  *)
(* takes the field's lock, ticks the field and, now and then, measures it, *)
(* lets the regulator (trs.rs) and the hints (morph_mind.rs) change the    *)
(* tick, dreams, and dreams collectively.  A dream slows the next tick     *)
(* down; a collective dream slows the ticks of a whole phase.  Each saves  *)
(* the tick it found and puts it back.                                     *)
(*                                                                         *)
(* Everything after the sleep happens under the lock, so an iteration is   *)
(* one action; operators' commands happen between iterations.  Timers are  *)
(* kept as the time passed or left.  What the field measures is chosen     *)
(* freely from Measures: how many cells sleep (0: at most 0.6 of them, 1:  *)
(* at most 0.65, 2: at most 0.7, 3: more) and whether the load is low.     *)
(***************************************************************************)
EXTENDS ReflexFeedback

CONSTANTS
    MinTick, MaxTick,   \* 80 and 800 ms
    RegMax,             \* the regulator's upper limit, 450 ms
    SlowStep, SlowMax,  \* SlowTick adds 50 ms up to 400
    FastStep, FastMin,  \* FastTick takes 10 ms down to 100
    MetricsEvery,       \* 1000 ms
    MinIdle,            \* min_idle_s of the dream configuration
    PhaseLen, PhaseGap, \* of the sync configuration
    DreamWindow,        \* a collective dream follows a dream within 30 s
    TrsAdjust,          \* what the regulator may add to the tick
    AwakenAdjust,       \* what an awakening may add to the tick
    Measures,           \* what analyze may find: [sleep : 0..3, low : BOOLEAN]
    Cooldowns           \* cooldown_ms an operator may configure

ASSUME LifeAssumption ==
    /\ {MinTick, MaxTick, RegMax, SlowMax, FastMin} \subseteq Nat \ {0}
    /\ {SlowStep, FastStep, MetricsEvery, MinIdle, PhaseLen, PhaseGap, DreamWindow} \subseteq Nat
    /\ TrsAdjust \subseteq Int /\ AwakenAdjust \subseteq Int
    /\ Measures \subseteq [sleep : 0..3, low : BOOLEAN]

VARIABLES
    loop,       \* the locals of run_loop
    feedback,   \* reflex_feedback of the field
    dreamAge,   \* time since the field's last_dream_ms (-1: never)
    base,       \* history: the tick before the pending slowdowns (0: none)
    overlap     \* history: a dream began inside a phase and one of both is pending

lifeVars == <<loop, feedback, dreamAge, base, overlap>>

NoMetrics == [sleep |-> 0, low |-> FALSE]

LifeInit ==
    /\ loop \in [tick : {RegMax}, restore : {0}, slowedOnce : {FALSE},
                 active : {FALSE}, left : {0}, saved : {0},
                 sinceMetrics : {0}, sinceDream : {0, MinIdle + 1}, sincePhase : {0, PhaseGap},
                 metrics : {NoMetrics}]
    /\ \E c \in Cooldowns : feedback = NewFeedback(c)
    /\ dreamAge = -1
    /\ base = 0 /\ overlap = FALSE

Between(n, lo, hi) == IF n < lo THEN lo ELSE IF n > hi THEN hi ELSE n
UpTo(n, bound)     == IF n > bound THEN bound ELSE n

\* the tick times percent / 100, rounded, or a little more if that is no slower
Slower(tick, percent) ==
    LET s == (tick * percent + 50) \div 100
    IN  Between(IF s <= tick THEN tick + 1 ELSE s, MinTick, MaxTick)

-----------------------------------------------------------------------------
(* The parts of an iteration, as functions of the loop's locals *)

\* a dream's slowdown ends once a slowed tick was slept
Woken(l) ==
    IF l.restore > 0 /\ l.slowedOnce
    THEN [l EXCEPT !.tick = l.restore, !.restore = 0, !.slowedOnce = FALSE]
    ELSE l

\* the sleep, and tick_all
Slept(l) ==
    [l EXCEPT !.slowedOnce = @ \/ l.restore > 0,
              !.left       = IF @ > l.tick THEN @ - l.tick ELSE 0,
              !.sinceDream = UpTo(@ + l.tick, MinIdle + 1),
              !.sincePhase = UpTo(@ + l.tick, PhaseGap)]

\* the phase of a collective dream is over
PhaseEnded(l) ==
    IF l.active /\ l.left = 0
    THEN [l EXCEPT !.active = FALSE, !.sincePhase = 0, !.tick = l.saved, !.saved = 0]
    ELSE l

Counted(l) == [l EXCEPT !.sinceMetrics = @ + l.tick]

\* the hint to slow down when most cells sleep
SlowHint(m) == m.sleep = 3

\* apply_hints: slow down first, then speed up when answers are late
Hinted(tick, m, late) ==
    LET t == IF SlowHint(m) THEN UpTo(tick + SlowStep, SlowMax) ELSE tick
    IN  IF late /\ t > FastMin THEN Between(t - FastStep, FastMin, t) ELSE t

\* the regulator (its target is suggest_target's, whatever was set before), and the hints
Regulated(l, m, adjust, late) ==
    [l EXCEPT !.tick = Hinted(Between(@ + adjust, MinTick, RegMax), m, late),
              !.metrics = m, !.sinceMetrics = 0]

\* rebuild_and_awaken
Awakened(l, adjust) ==
    IF adjust = 0 THEN l ELSE [l EXCEPT !.tick = Between(@ + adjust, MinTick, MaxTick)]

\* Mutant: a dream does not wait for min_idle_s to pass since the last
DreamyAtOnce(l) == l.metrics.sleep >= 1 /\ l.metrics.low

Dreamy(l) == l.metrics.sleep >= 1 /\ l.metrics.low /\ l.sinceDream > MinIdle

Dreamed(l, after, adjust) ==
    Awakened([l EXCEPT !.sinceDream = 0,
                       !.restore = IF @ > 0 THEN @ ELSE l.tick,
                       !.slowedOnce = FALSE,
                       !.tick = Slower(@, 115),
                       !.metrics = after], adjust)

\* what the tick is put back to when the phase ends
\* Mutant: the tick in force is saved, whether or not a dream has slowed it
BaselineSlowed(l) == l.tick

Baseline(l) == IF l.restore > 0 THEN l.restore ELSE IF l.saved > 0 THEN l.saved ELSE l.tick

Shared(l, after, adjust) ==
    LET w == Awakened([l EXCEPT !.metrics = after], adjust)
    IN  [w EXCEPT !.active = TRUE, !.left = PhaseLen, !.saved = Baseline(w), !.tick = Slower(@, 110)]

\* m is what the loop measured before the dream of the same iteration
Shareable(l, m, age) ==
    /\ ~l.active
    /\ age >= 0 /\ age <= DreamWindow
    /\ m.sleep >= 2
    /\ l.sincePhase >= PhaseGap

Pending(l) == l.restore > 0 \/ l.active

-----------------------------------------------------------------------------
(* Actions *)

\* how a dream may leave the loop, and a collective dream
Dreams(l, dreams) ==
    IF dreams THEN {Dreamed(l, m, a) : m \in Measures, a \in AwakenAdjust} ELSE {l}

Shares(l, d, age) ==
    {d} \cup (IF Shareable(d, l.metrics, age)
             THEN {Shared(d, m, a) : m \in Measures, a \in AwakenAdjust} ELSE {})

\* history: the tick before the slowdowns that are pending after an iteration
Remembered(l, dreams, e) ==
    /\ base' = IF ~Pending(e) THEN 0
               ELSE IF Pending(l) /\ base > 0 THEN base
               ELSE IF dreams THEN l.tick
               ELSE e.saved
    /\ overlap' = (Pending(e) /\ ((Pending(l) /\ overlap) \/ (dreams /\ l.active)))

\* the second half of an iteration: a dream if the field is dreamy and has two
\* cells, and a collective dream if groups of cells answer together
DreamPart(l, age) ==
    \E dreams \in {FALSE, Dreamy(l)} : \E d \in Dreams(l, dreams) :
    \E age1 \in {IF dreams THEN 0 ELSE age} : \E e \in Shares(l, d, age1) :
        loop' = e /\ dreamAge' = age1 /\ Remembered(l, dreams, e)

\* a sample for the feedback, the signal it reads and the action it takes
Reflect(fb) ==
    IF ~fb.enabled THEN feedback' = fb
    ELSE \E signal \in SignalsOf(PushSample(fb)) :
            LET kind == Proposed(PushSample(fb), signal)
            IN  feedback' = Acted(PushSample(fb), kind)

MetricsPart(l, age, fb) ==
    IF l.sinceMetrics < MetricsEvery
    THEN /\ feedback' = fb
         /\ DreamPart(l, age)
    ELSE \E m \in Measures, adjust \in TrsAdjust, late \in BOOLEAN :
         /\ Reflect(fb)
         /\ \E r \in {Regulated(l, m, adjust, late)} : DreamPart(r, age)

Iterate ==
    \E w \in {Woken(loop)} :
    \E l \in {Counted(PhaseEnded(Slept(w)))} :
    \E age \in {IF dreamAge < 0 THEN -1 ELSE UpTo(dreamAge + w.tick, DreamWindow + 1)} :
    \E fb \in {Cooled(feedback, w.tick)} :
        MetricsPart(l, age, fb)

\* dream.now of a host: a dream without a slowdown
DreamNow ==
    /\ dreamAge' = 0
    /\ UNCHANGED <<loop, feedback, base, overlap>>

\* REFLEX ON, REFLEX OFF and the tuning of the cooldown
TuneReflex ==
    /\ \E on \in BOOLEAN, c \in Cooldowns : feedback' = SetCooldown(SetEnabled(feedback, on), c)
    /\ UNCHANGED <<loop, dreamAge, base, overlap>>

LifeNext == Iterate \/ DreamNow \/ TuneReflex

LifeSpec == LifeInit /\ [][LifeNext]_lifeVars

-----------------------------------------------------------------------------
(* Properties *)

\* Whichever pending slowdown ends last, the tick it puts back is the one from
\* before the first of them: a collective dream that begins while a dream has
\* the tick slowed saves the tick the dream saved.  A dream that begins inside
\* a phase is the exception (overlap): it saves the phase's slowed tick and, if
\* the phase ends first, puts that back afterwards.
SlowdownsUndone ==
    ~overlap => /\ loop.restore > 0 => loop.restore = base
                /\ loop.active => loop.saved = base

\* Slowdowns do not last: every dream's slowdown and every phase comes to an
\* end, as long as min_idle_s keeps two dreams further apart than two ticks.
SlowdownsEnd ==
    /\ (loop.restore > 0) ~> (loop.restore = 0)
    /\ loop.active ~> ~loop.active
=============================================================================
