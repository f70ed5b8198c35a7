--------------------------- MODULE ReflexFeedback ---------------------------
(***************************************************************************)
(* The reflex feedback of the field (liminal-core/src/reflex/feedback.rs   *)
(* and record_reflex_snapshot of cluster_field.rs).  Once per metrics a    *)
(* sample is pushed, a signal is read off the window of samples, and the   *)
(* action for that signal is taken unless its kind is cooling down.        *)
(*                                                                         *)
(* The feedback is a record: enabled, the number of samples (0, 1 or 2 for *)
(* more), the time left of each cooldown, and the configured cooldown.     *)
(* Which signal two samples or more give is floating point and chosen by   *)
(* the caller.                                                             *)
(***************************************************************************)
EXTENDS Integers

Signals == {"Ok", "Plateau", "DriftDown", "Oscillation", "Overload"}
ActionKinds == {"MicroPivot", "Defuse", "Dampening", "TargetShift"}

\* ReflexState::new
NewFeedback(cooldown) ==
    [enabled |-> FALSE, samples |-> 0, cooldown |-> cooldown, left |-> [k \in ActionKinds |-> 0]]

\* set_reflex_enabled keeps the samples and the cooldowns
SetEnabled(fb, on)   == [fb EXCEPT !.enabled = on]
SetCooldown(fb, ttl) == [fb EXCEPT !.cooldown = ttl]

\* evaluate: fewer than two samples say nothing
SignalsOf(fb) == IF fb.samples < 2 THEN {"Ok"} ELSE Signals

\* propose_action: the kind of action a signal asks for
KindFor(signal) ==
    CASE signal = "Plateau"     -> "MicroPivot"
      [] signal = "DriftDown"   -> "Defuse"
      [] signal = "Oscillation" -> "Dampening"
      [] signal = "Overload"    -> "TargetShift"
      [] OTHER                  -> "None"

CooldownFor(fb, kind) == IF kind = "Defuse" THEN 2 * fb.cooldown ELSE fb.cooldown

PushSample(fb) == [fb EXCEPT !.samples = IF @ < 2 THEN @ + 1 ELSE 2]

Proposed(fb, signal) ==
    LET kind == KindFor(signal)
    IN  IF kind = "None" THEN "None" ELSE IF fb.left[kind] > 0 THEN "None" ELSE kind

\* record_action after apply_action
Acted(fb, kind) == IF kind = "None" THEN fb ELSE [fb EXCEPT !.left[kind] = CooldownFor(fb, kind)]

\* time passes for the cooldowns
Cooled(fb, dt) == [fb EXCEPT !.left = [k \in ActionKinds |-> IF @[k] > dt THEN @[k] - dt ELSE 0]]
=============================================================================
