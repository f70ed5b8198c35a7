------------------------------ MODULE FieldCore ------------------------------
(***************************************************************************)
(* The data of the cluster field (liminal-core/src/cluster_field.rs and    *)
(* node_cell.rs): the cells, the token index over them, the tracking of    *)
(* their links, and the deltas by which the field writes its changes to    *)
(* the journal.  A field is a record f; every operator here is a function  *)
(* of fields.                                                              *)
(*                                                                         *)
(* Data is abstracted to what the field's decisions tell apart.  A cell's  *)
(* energy is Spent (at most 0.1, so that trimming removes it and idling    *)
(* may kill it) or Fed; it is Awake (Active or Idle, told apart only by    *)
(* energy thresholds) or asleep; a link's score is a level 0..2 (0 is at   *)
(* most 0.25, where a dream prunes the link, 1 the score of a new link).   *)
(* Affinity, metabolism, salience and route bias only rank cells or shift  *)
(* thresholds; what they decide is chosen by the callers.                  *)
(***************************************************************************)
EXTENDS Integers, Sequences, FiniteSets, SequencesExt

CONSTANTS
    Token,          \* tokens of patterns
    RootPattern,    \* tokens of the root's pattern
    MirrorLimit,    \* MIRROR_EPOCH_LIMIT
    MirrorSnapLimit \* MIRROR_SNAPSHOT_LIMIT

\* NodeCell::from_seed
FromSeed(pat) == [pat |-> pat, state |-> "Awake", energy |-> "Fed", links |-> {}]

\* maybe_divide's child: its parent's pattern, no links
Child(parent) == FromSeed(parent.pat)

EmptyMap == [x \in {} |-> 0]

\* ClusterField::new
NewField ==
    [cells |-> EmptyMap, next |-> 1, now |-> 0,
     index |-> [t \in Token |-> {}],
     usage |-> {}, scores |-> EmptyMap, routes |-> {}, recent |-> [t \in Token |-> {}],
     rules |-> EmptyMap, nextRule |-> 1, counters |-> EmptyMap,
     dream |-> "default", sync |-> "default", lastDream |-> 0, epochs |-> <<>>,
     views |-> EmptyMap, nextView |-> 1, accum |-> 0,
     seeds |-> EmptyMap, nextSeed |-> 1,
     model |-> [built |-> <<>>, applied |-> <<>>, config |-> "default", tick |-> 0]]

Ids(f) == DOMAIN f.cells

Holds(f, from, to) == from \in Ids(f) /\ to \in f.cells[from].links

-----------------------------------------------------------------------------
(* The token index and the link tracking *)

UpdateIndexFor(f, id) ==
    [f EXCEPT !.index = [t \in Token |-> IF t \in f.cells[id].pat
                                         THEN f.index[t] \cup {id}
                                         ELSE f.index[t] \ {id}]]

\* register_link for a set of links: what is tracked already stays as it is
RegisterLinks(f, pairs) ==
    [f EXCEPT !.usage  = @ \cup pairs,
              !.scores = [p \in DOMAIN @ \cup pairs |-> IF p \in DOMAIN @ THEN @[p] ELSE 1]]

Unregister(f, pairs) ==
    [f EXCEPT !.usage  = @ \ pairs,
              !.scores = [p \in DOMAIN @ \ pairs |-> @[p]]]

LinksOf(f, id) == {<<id, to>> : to \in f.cells[id].links}

AttachCell(f, id, cell) ==
    LET g == [f EXCEPT !.cells = [i \in Ids(f) \cup {id} |-> IF i = id THEN cell ELSE @[i]]]
    IN  RegisterLinks(UpdateIndexFor(g, id), LinksOf(g, id))

\* rebuild_index: the index afresh; links are registered, never unregistered
RebuildIndex(f) ==
    RegisterLinks([f EXCEPT !.index = [t \in Token |-> {i \in Ids(f) : t \in f.cells[i].pat}]],
                  UNION {LinksOf(f, i) : i \in Ids(f)})

\* purge_tracking_for, for every id of dead
Purge(f, dead) ==
    LET gone == {p \in f.usage \cup DOMAIN f.scores \cup f.routes : p[1] \in dead \/ p[2] \in dead}
    IN  [Unregister(f, gone) EXCEPT !.routes = @ \ gone]

RemoveCells(f, dead) == [f EXCEPT !.cells = [i \in Ids(f) \ dead |-> @[i]]]

\* cell.links.insert, and register_link when the link is new
InsertLink(f, from, to) ==
    IF from \notin Ids(f) \/ Holds(f, from, to) THEN f
    ELSE RegisterLinks([f EXCEPT !.cells[from].links = @ \cup {to}], {<<from, to>>})

\* cell.links.remove, and unregister_link when the link was held
DropLink(f, from, to) ==
    IF ~Holds(f, from, to) THEN f
    ELSE Unregister([f EXCEPT !.cells[from].links = @ \ {to}], {<<from, to>>})

LinkScore(f, from, to) ==
    IF <<from, to>> \in DOMAIN f.scores THEN f.scores[<<from, to>>] ELSE 1

SetScore(f, from, to, s) ==
    [f EXCEPT !.scores = [p \in DOMAIN @ \cup {<<from, to>>} |->
                             IF p = <<from, to>> THEN s ELSE @[p]]]

\* adjust_link_score: the clamped score, for a held link only
Clamp(n, lo, hi) == IF n < lo THEN lo ELSE IF n > hi THEN hi ELSE n
Adjusted(f, from, to, by) == Clamp(LinkScore(f, from, to) + by, 0, 2)
AdjustLinkScore(f, from, to, by) ==
    IF Holds(f, from, to) THEN SetScore(f, from, to, Adjusted(f, from, to, by)) ELSE f
ScoreChanges(f, from, to, by) ==
    Holds(f, from, to) /\ Adjusted(f, from, to, by) # LinkScore(f, from, to)

\* push_back onto a ring that keeps its newest entries
Capped(seq, limit) == IF Len(seq) > limit THEN SubSeq(seq, Len(seq) - limit + 1, Len(seq)) ELSE seq

-----------------------------------------------------------------------------
(* Deltas *)

SpawnDelta(id, cell)       == [kind |-> "spawn", id |-> id, cell |-> cell]
DivideDelta(parent, id, c) == [kind |-> "divide", parent |-> parent, id |-> id, cell |-> c]
EnergyDelta(id, c)         == [kind |-> "energy", id |-> id, energy |-> c.energy, state |-> c.state]
StateDelta(kind, id)       == [kind |-> kind, id |-> id]
LinkDelta(kind, from, to)  == [kind |-> kind, from |-> from, to |-> to]
ScoreDelta(f, from, to)    == [kind |-> "score", from |-> from, to |-> to,
                               score |-> LinkScore(f, from, to)]
ValueDelta(kind, v)        == [kind |-> kind, value |-> v]

Larger(a, b) == IF a >= b THEN a ELSE b

\* Mutant: replaying a division does not move next_id past the child
ApplyDivideKeepsNext(f, d) == AttachCell(InsertLink(f, d.parent, d.id), d.id, d.cell)

ApplyDivide(f, d) ==
    [AttachCell(InsertLink(f, d.parent, d.id), d.id, d.cell)
        EXCEPT !.next = Larger(@, d.id + 1)]

\* Mutant: replaying a death leaves the index as it was
ApplyDeadKeepsIndex(f, d) == Purge(RemoveCells(f, {d.id}), {d.id})

ApplyDead(f, d) == Purge(RebuildIndex(RemoveCells(f, {d.id})), {d.id})

\* apply_delta
ApplyDelta(f, d) ==
    CASE d.kind = "tick" -> [f EXCEPT !.now = d.value]
      [] d.kind = "spawn" -> [AttachCell(f, d.id, d.cell) EXCEPT !.next = Larger(@, d.id + 1)]
      [] d.kind = "divide" -> ApplyDivide(f, d)
      [] d.kind = "sleep" -> IF d.id \in Ids(f) THEN [f EXCEPT !.cells[d.id].state = "Sleep"] ELSE f
      [] d.kind = "dead" -> ApplyDead(f, d)
      [] d.kind \in {"link", "dream_rewire"} -> InsertLink(f, d.from, d.to)
      [] d.kind = "unlink" -> DropLink(f, d.from, d.to)
      [] d.kind = "dream_prune" -> Unregister(DropLink(f, d.from, d.to), {<<d.from, d.to>>})
      [] d.kind = "energy" -> IF d.id \in Ids(f)
                              THEN [f EXCEPT !.cells[d.id].energy = d.energy,
                                             !.cells[d.id].state = d.state]
                              ELSE f
      [] d.kind = "score" -> SetScore(f, d.from, d.to, d.score)
      [] d.kind = "reflex_add" -> [f EXCEPT !.nextRule = Larger(@, d.id + 1),
                                            !.rules = [i \in DOMAIN @ \cup {d.id} |->
                                                         IF i = d.id THEN d.rule ELSE @[i]]]
      [] d.kind = "reflex_remove" -> [f EXCEPT !.rules = [i \in DOMAIN @ \ {d.id} |-> @[i]]]
      [] d.kind = "dream_config" -> [f EXCEPT !.dream = d.value]
      [] d.kind = "sync_config" -> [f EXCEPT !.sync = d.value]
      [] d.kind = "dream_report" -> [f EXCEPT !.lastDream = d.value]
      [] d.kind = "model_build" -> [f EXCEPT !.model.built = d.value]
      [] d.kind = "awaken_apply" -> [f EXCEPT !.model.applied = d.value, !.model.config = d.config]
      [] d.kind = "awaken_tick" -> [f EXCEPT !.model.tick = d.now,
                                            !.model.applied = IF @ = <<>> THEN d.value ELSE @]
      [] d.kind = "mirror_epoch" -> [f EXCEPT !.epochs = Capped(Append(@, d.value), MirrorLimit)]
      [] OTHER -> f

ApplyDeltas(f, deltas) == FoldLeft(ApplyDelta, f, deltas)

-----------------------------------------------------------------------------
(* Snapshots *)

\* create_snapshot and load_snapshot keep the cells, both id counters, the
\* rules, the configurations, the newest epochs and the seed garden, but not
\* which resonant model was built and applied (both are skipped by serde);
\* into_field rebuilds the index and the tracking (rebuild_caches) and leaves
\* the rest as new() makes it
IntoField(f) ==
    RebuildIndex([NewField EXCEPT !.cells = f.cells, !.next = f.next, !.now = f.now,
                                  !.rules = f.rules, !.nextRule = f.nextRule,
                                  !.dream = f.dream, !.sync = f.sync,
                                  !.epochs = Capped(f.epochs, MirrorSnapLimit),
                                  !.seeds = f.seeds, !.nextSeed = f.nextSeed,
                                  !.model.config = f.model.config, !.model.tick = f.model.tick])
=============================================================================
