---------------------------- MODULE ClusterField -----------------------------
(***************************************************************************)
(* The cluster field as a state machine (liminal-core/src/cluster_field.rs *)
(* with dream_engine.rs, synchrony.rs, awakening.rs and mirror.rs), run by *)
(* a host that journals it (liminal-cli/src/main.rs run_interactive, ffi.rs*)
(* BridgeState::new) and may stop and start again at any point.            *)
(*                                                                         *)
(* field is the field in memory.  disk is the field a restart would get:   *)
(* the latest snapshot with every later delta applied.  It stands for the  *)
(* snapshot and the log together, so emitting deltas applies them to disk, *)
(* and a snapshot replaces it.  Every action is one call made under the    *)
(* host's field lock.                                                      *)
(***************************************************************************)
EXTENDS ReflexRules, FieldAgenda

CONSTANTS
    WakePattern,    \* tokens of the seed injected by the WakeSeeds hint
    CellCap,        \* no seed is injected above so many cells (64)
    Fanout,         \* cells an impulse is handed to (3)
    DreamOps        \* links one dream works on (bounds max_ops_per_cycle)

VARIABLES
    field,      \* the ClusterField in memory
    disk,       \* what load_latest_snapshot and the replay of the log give
    epochSeq,   \* EPOCH_SEQ, a counter of the process
    unlogged,   \* history: cells of field no delta or snapshot has recorded
    lost,       \* history: cells that were gone after a restart
    highest,    \* history: the highest cell id ever recorded on disk
    fired       \* history: the rules the latest impulse fired

vars == <<field, disk, epochSeq, unlogged, lost, highest, fired>>

\* add_root before set_journal: the Spawn delta goes nowhere
AddRoot(f) == [AttachCell(f, f.next, FromSeed(RootPattern)) EXCEPT !.next = @ + 1]

Recorded(deltas) == {deltas[i].id : i \in {j \in DOMAIN deltas : deltas[j].kind \in {"spawn", "divide"}}}
MaxOf(S) == CHOOSE x \in S : \A y \in S : x >= y

\* one call on the field: o holds the new field and the deltas it emitted
Commit(o) ==
    /\ field' = o.f
    /\ disk' = ApplyDeltas(disk, o.d)
    /\ highest' = MaxOf({highest} \cup Recorded(o.d))

Quiet == UNCHANGED <<epochSeq, unlogged, lost, fired>>

Init ==
    /\ field = AddRoot(NewField)
    /\ disk = NewField
    /\ epochSeq = 1
    /\ unlogged = {1}
    /\ lost = {}
    /\ highest = 0
    /\ fired = {}

-----------------------------------------------------------------------------
(* Impulses *)

\* NodeCell::ingest of a cell that matches
Ingest(c, kind) ==
    LET states   == IF kind = "Write" THEN {"Awake"} ELSE {c.state, "Awake"}
        energies == CASE kind = "Query" -> {c.energy, "Spent"}
                      [] kind = "Write" -> {c.energy, "Fed"}
                      [] OTHER          -> {"Spent", "Fed"}
    IN  {[c EXCEPT !.state = s, !.energy = e] : s \in states, e \in energies}

\* a cell that does not match loses energy and answers nothing
Ignore(c) == {[c EXCEPT !.energy = e] : e \in {c.energy, "Spent"}}

\* candidates by token, or every cell when no token is known
Candidates(f, imp) ==
    LET known == UNION {f.index[t] : t \in ToSet(imp.tokens)}
    IN  IF known # {} THEN known \cap Ids(f) ELSE Ids(f)

\* record_route_sequence: consecutive answers form a route; a route along a
\* held link counts as a use of the link
RecordRoutes(f, order) ==
    LET pairs == {<<order[i], order[i + 1]>> : i \in 1..(Len(order) - 1)}
    IN  [f EXCEPT !.routes = @ \cup pairs,
                  !.usage  = @ \cup {p \in pairs : Holds(f, p[1], p[2])}]

\* the part of route_impulse after the reflexes: the cells of top are handed
\* the impulse in that order, and become the cells of new
Deliver(o, imp, top, new, answered) ==
    LET order == SelectSeq(top, LAMBDA i : i \in answered)
        f     == [o.f EXCEPT !.cells = [i \in DOMAIN @ |-> IF i \in ToSet(top) THEN new[i] ELSE @[i]],
                             !.recent = [t \in Token |-> IF t \in ToSet(imp.tokens)
                                                         THEN @[t] \cup answered ELSE @[t]]]
    IN  [f |-> RecordRoutes(f, order),
         d |-> o.d \o [k \in 1..Len(order) |-> EnergyDelta(order[k], new[order[k]])]]

\* a cell reached by a token of its pattern always matches
Answers(f, imp, id) == f.cells[id].pat \cap ToSet(imp.tokens) # {}

RouteImpulse(imp) ==
    \E o \in ProcessReflexes(field, imp) :
      LET cand == Candidates(o.f, imp)
          n    == IF Cardinality(cand) < Fanout THEN Cardinality(cand) ELSE Fanout
      IN \E S \in {T \in SUBSET cand : Cardinality(T) = n} : \E top \in SetToSeqs(S) :
         \E answered \in {T \in SUBSET S : {i \in S : Answers(o.f, imp, i)} \subseteq T} :
         \E new \in [S -> UNION {Ingest(o.f.cells[i], imp.kind) \cup Ignore(o.f.cells[i]) : i \in S}] :
            /\ \A i \in S : new[i] \in IF i \in answered THEN Ingest(o.f.cells[i], imp.kind)
                                                        ELSE Ignore(o.f.cells[i])
            /\ Commit(Deliver(o, imp, top, new, answered))
            /\ fired' = o.fired
            /\ UNCHANGED <<epochSeq, unlogged, lost>>

-----------------------------------------------------------------------------
(* The tick *)

\* What a tick can do to one cell: NodeCell::tick lowers the energy and may
\* wake a sleeper, maybe_divide needs energy, maybe_sleep_or_die comes last.
\* The thresholds move with the harmony, so they are not part of the guard.
Fates == {"tires", "wakes", "divides", "sleeps", "collapses", "dies"}

CanMeet(c, fate) ==
    /\ fate = "wakes" => c.state = "Sleep" /\ c.energy = "Fed"
    /\ fate = "divides" => c.state = "Awake" /\ c.energy = "Fed"

Aged(c, fate) ==
    [c EXCEPT !.energy = IF fate \in {"tires", "collapses"} THEN "Spent" ELSE @,
              !.state = CASE fate = "wakes" -> "Awake"
                          [] fate \in {"sleeps", "collapses"} -> "Sleep"
                          [] OTHER -> @]

\* a division: the link and the child, announced in that order
Divide(o, parent) ==
    LET id    == o.f.next
        child == Child(o.f.cells[parent])
    IN  [f |-> [AttachCell(InsertLink(o.f, parent, id), id, child) EXCEPT !.next = id + 1],
         d |-> o.d \o <<LinkDelta("link", parent, id), DivideDelta(parent, id, child)>>]

\* Mutant: tick_all forgets to purge the tracking of the cells that died
BuryKeepsTracking(f, dying) ==
    IF dying = {} THEN f ELSE RebuildIndex(RemoveCells(f, dying))

Bury(f, dying) ==
    IF dying = {} THEN f ELSE Purge(RebuildIndex(RemoveCells(f, dying)), dying)

\* Mutant: a sleeping cell's energy is not emitted by the tick
SettleSkipsSleepers(old, new, id, dies) ==
    IF dies THEN <<StateDelta("dead", id)>>
    ELSE IF new.state = "Sleep" THEN <<StateDelta("sleep", id)>>
    ELSE <<EnergyDelta(id, new)>>

Settle(old, new, id, dies) ==
    IF dies THEN <<StateDelta("dead", id)>>
    ELSE (IF old.state # "Sleep" /\ new.state = "Sleep" THEN <<StateDelta("sleep", id)>> ELSE <<>>)
         \o <<EnergyDelta(id, new)>>

AwakenTick(o) ==
    [f |-> [o.f EXCEPT !.model.tick = o.f.now],
     d |-> Append(o.d, [kind |-> "awaken_tick", now |-> o.f.now, value |-> o.f.model.applied])]

\* tick_all.  Cells age; parents divide; cells that stayed idle fall asleep or
\* die.  Whatever happened to a cell, its energy and state are emitted last.
\* Then the views, the seed garden and awaken_tick.
TickAll(dt, fate, parents) ==
    LET ids    == SetToSeq(Ids(field))
        dying  == {i \in DOMAIN fate : fate[i] = "dies"}
        start  == [field EXCEPT !.now = @ + dt,
                                !.cells = [i \in DOMAIN @ |-> IF i \in DOMAIN fate
                                                              THEN Aged(@[i], fate[i]) ELSE @[i]]]
        grown  == FoldLeft(Divide, [f |-> start, d |-> <<>>], parents)
        final  == FlattenSeq([k \in DOMAIN ids |->
                     Settle(field.cells[ids[k]], grown.f.cells[ids[k]], ids[k], ids[k] \in dying)])
        o      == AwakenTick([f |-> TickGarden(EmitViews(Bury(grown.f, dying), dt)), d |-> final])
    IN  [f |-> o.f, d |-> <<ValueDelta("tick", field.now + dt)>> \o grown.d \o o.d]

\* fate gives the cells to which something happens
Tick(dt, fate) ==
    /\ \A i \in DOMAIN fate : CanMeet(field.cells[i], fate[i])
    /\ \E parents \in SetToSeqs({i \in DOMAIN fate : fate[i] = "divides"}) :
          Commit(TickAll(dt, fate, parents))
    /\ Quiet

-----------------------------------------------------------------------------
(* What the hints, dreams and awakenings of the life loop do to the field *)

\* trim_low_energy: cells not protected by salience and long not recalled may
\* be put to sleep, which no delta records; spent ones are removed
Trim(protected, drowsy) ==
    LET victims == {i \in Ids(field) \ protected : field.cells[i].energy = "Spent"}
        dozed   == [field EXCEPT !.cells = [i \in DOMAIN @ |->
                       IF i \in drowsy /\ @[i].state = "Awake"
                       THEN [@[i] EXCEPT !.state = "Sleep"] ELSE @[i]]]
    IN  /\ drowsy \cap protected = {}
        /\ Commit([f |-> Bury(dozed, victims),
                   d |-> SetToSeq({StateDelta("dead", i) : i \in victims})])
        /\ Quiet

\* inject_seed_variation: some of the other cells link to the new one
Inject(admirers) ==
    LET id   == field.next
        cell == FromSeed(WakePattern)
        new  == [AttachCell(field, id, cell) EXCEPT !.next = id + 1]
        o    == [f |-> new, d |-> <<SpawnDelta(id, cell)>>]
    IN  /\ Cardinality(Ids(field)) <= CellCap
        /\ Commit(FoldLeft(LAMBDA x, a : [f |-> InsertLink(x.f, a, id),
                                          d |-> Append(x.d, LinkDelta("link", a, id))],
                           o, SetToSeq(admirers)))
        /\ Quiet

\* recent_pairs: cells that answered the same token, whether or not they live
RecentPairs(f) == {<<a, b>> \in UNION {f.recent[t] \X f.recent[t] : t \in Token} : a < b}

\* pick_direction
Direction(f, p) ==
    IF Holds(f, p[1], p[2]) THEN p ELSE <<p[2], p[1]>>

Strengthen(o, p) ==
    LET l == Direction(o.f, p)
        g == AdjustLinkScore(o.f, l[1], l[2], 1)
    IN  IF ScoreChanges(o.f, l[1], l[2], 1)
        THEN [f |-> g, d |-> Append(o.d, ScoreDelta(g, l[1], l[2]))]
        ELSE o

\* rewire_lonely: a cell without links is linked to the nearest other cell
Rewire(o, id) ==
    IF id \notin Ids(o.f) \/ Ids(o.f) = {id} THEN {o}
    ELSE IF o.f.cells[id].links # {} THEN {o}
    ELSE {[f |-> InsertLink(o.f, id, to),
           d |-> o.d \o <<LinkDelta("link", id, to), LinkDelta("dream_rewire", id, to)>>]
          : to \in Ids(o.f) \ {id}}

\* Mutant: prune_link takes the link out of the cell and emits no Unlink
PruneSilent(o, l) ==
    [f |-> DropLink(o.f, l[1], l[2]), d |-> o.d]

Prune(o, l) ==
    [f |-> DropLink(o.f, l[1], l[2]),
     d |-> o.d \o <<LinkDelta("unlink", l[1], l[2]), LinkDelta("dream_prune", l[1], l[2])>>]

\* a weakened link at the bottom of its range is pruned, and its ends rewired
\* unless the dream has used up its operations
Weaken(o, p) ==
    LET l == Direction(o.f, p)
        g == AdjustLinkScore(o.f, l[1], l[2], -1)
        w == [f |-> g, d |-> Append(o.d, ScoreDelta(g, l[1], l[2]))]
    IN  IF ~ScoreChanges(o.f, l[1], l[2], -1) THEN {o}
        ELSE IF LinkScore(g, l[1], l[2]) > 0 THEN {w}
        ELSE {Prune(w, l)} \cup UNION {Rewire(x, l[2]) : x \in Rewire(Prune(w, l), l[1])}

\* run_dream_cycle
DreamCycle(strong, weak) ==
    LET start == [f |-> field, d |-> <<>>]
        lit   == FoldLeft(Strengthen, start, SetToSeq(strong))
        dim   == FoldLeft(LAMBDA S, p : UNION {Weaken(o, p) : o \in S}, {lit}, SetToSeq(weak))
    IN  /\ Cardinality(Ids(field)) >= 2
        /\ strong \cap weak = {} /\ Cardinality(strong \cup weak) <= DreamOps
        /\ \E o \in dim : Commit([f |-> [o.f EXCEPT !.lastDream = field.now],
                                  d |-> IF RecentPairs(field) = {} THEN o.d
                                        ELSE Append(o.d, ValueDelta("dream_report", field.now))])
        /\ Quiet

\* run_collective_dream: within each group, the connected cells of the pairs
\* that co-occur often enough, every link is strengthened
Linked(pairs, a, b) ==
    LET nodes == UNION {{p[1], p[2]} : p \in pairs}
    IN  \A S \in SUBSET nodes : a \in S /\ b \notin S =>
            \E p \in pairs : (p[1] \in S) # (p[2] \in S)

CollectiveDream(pairs) ==
    LET nodes == UNION {{p[1], p[2]} : p \in pairs}
        links == {<<a, b>> \in nodes \X nodes : a # b /\ Linked(pairs, a, b) /\ ScoreChanges(field, a, b, 1)}
        align(o, l) == LET g == AdjustLinkScore(o.f, l[1], l[2], 1)
                       IN  [f |-> g, d |-> Append(o.d, ScoreDelta(g, l[1], l[2]))]
    IN  /\ pairs # {}
        /\ Commit(FoldLeft(align, [f |-> field, d |-> <<>>], SetToSeq(links)))
        /\ Quiet

\* build_model: tensions are computed among the cells, if there are two
BuildModel(f) == IF Cardinality(Ids(f)) < 2 THEN {} ELSE Ids(f)

\* awaken_now: the energy of the tense cells is raised, and emitted
Awaken(tense) ==
    LET f == [field EXCEPT !.cells = [i \in DOMAIN @ |->
                 IF i \in tense THEN [@[i] EXCEPT !.energy = "Fed"] ELSE @[i]]]
    IN  /\ tense \subseteq BuildModel(field)
        /\ Commit([f |-> f, d |-> SetToSeq({EnergyDelta(i, f.cells[i]) : i \in tense})])
        /\ Quiet

\* record_epoch and push_mirror_epoch
PushEpoch ==
    LET epoch == [id |-> epochSeq, start |-> field.now]
    IN  /\ Commit([f |-> [field EXCEPT !.epochs = Capped(Append(@, epoch), MirrorLimit)],
                   d |-> <<ValueDelta("mirror_epoch", epoch)>>])
        /\ epochSeq' = epochSeq + 1
        /\ UNCHANGED <<unlogged, lost, fired>>

-----------------------------------------------------------------------------
(* Rules, configurations, views and seeds *)

AddRule(id, rule) == Commit(AddReflex(field, id, rule)) /\ Quiet
RemoveRule(id)    == Commit(RemoveReflex(field, id)) /\ Quiet

\* set_sync_config clamps the transfer weight before it is kept and emitted
ClampSync(cfg) == IF cfg = "outside" THEN "clamped" ELSE cfg

SetDreamConfig(cfg) ==
    Commit([f |-> [field EXCEPT !.dream = cfg], d |-> <<ValueDelta("dream_config", cfg)>>]) /\ Quiet

SetSyncConfig(cfg) ==
    /\ Commit([f |-> [field EXCEPT !.sync = ClampSync(cfg)],
               d |-> <<ValueDelta("sync_config", ClampSync(cfg))>>])
    /\ Quiet

SetAwakeningConfig(cfg) == Commit([f |-> [field EXCEPT !.model.config = cfg], d |-> <<>>]) /\ Quiet

\* the hash of a model covers the time and the cells
BuildResonantModel ==
    LET hash == <<field.now, field.cells>>
    IN  /\ Commit([f |-> [field EXCEPT !.model.built = hash], d |-> <<ValueDelta("model_build", hash)>>])
        /\ Quiet

ApplyAwakeningModel ==
    LET m == field.model
    IN  /\ Commit([f |-> [field EXCEPT !.model.applied = m.built],
                   d |-> <<[kind |-> "awaken_apply", value |-> m.built, config |-> m.config]>>])
        /\ Quiet

Subscribe(every) == Commit([f |-> AddView(field, every), d |-> <<>>]) /\ Quiet
Unsubscribe(id)  == Commit([f |-> RemoveView(field, id), d |-> <<>>]) /\ Quiet
PlantSeed(ttl)   == Commit([f |-> Plant(field, ttl), d |-> <<>>]) /\ Quiet
AbortSeed(id)    == Commit([f |-> Abort(field, id), d |-> <<>>]) /\ Quiet

-----------------------------------------------------------------------------
(* Snapshots and restarts *)

\* snapshot_once: create_snapshot under the field lock, then the manifest
Snapshot ==
    /\ disk' = IntoField(field)
    /\ unlogged' = {}
    /\ highest' = MaxOf({highest} \cup Ids(field))
    /\ UNCHANGED <<field, epochSeq, lost, fired>>

\* the host stops and starts: the field is loaded, and given a root that is
\* not journaled if it has no cells.  Counters of the process start over.
Restart ==
    LET bare == Ids(disk) = {}
    IN  /\ field' = IF bare THEN AddRoot(disk) ELSE disk
        /\ unlogged' = IF bare THEN {disk.next} ELSE {}
        /\ lost' = (lost \cup (Ids(field) \ Ids(disk))) \ unlogged'
        /\ epochSeq' = 1
        /\ UNCHANGED <<disk, highest, fired>>

-----------------------------------------------------------------------------
(* Properties *)

\* The token index lists exactly the live cells, by every token of their
\* patterns: attach_cell and rebuild_index leave no dead cell in it and miss no
\* new one.  Routing would otherwise fall back to every cell, or skip some.
IndexExact ==
    \A f \in {field, disk} : \A t \in Token :
        f.index[t] = {i \in Ids(f) : t \in f.cells[i].pat}

\* Link scores and link usage are kept only for links that a live cell holds
\* (purge_tracking_for, unregister_link), and routes only between live cells.
\* The cells a restart lost are excepted: the replay of a dream's score writes
\* it whether or not the cell is there.
TrackingHeld ==
    /\ \A p \in field.usage \cup DOMAIN field.scores : Holds(field, p[1], p[2]) \/ p[1] \in lost
    /\ \A p \in field.routes : p[1] \in Ids(field) /\ p[2] \in Ids(field)

\* A restart at this moment would bring back every recorded cell with its
\* pattern and links, every rule, the dream and the sync configuration, and no
\* model older than the one last built and applied: each of these changes is
\* emitted and apply_delta does to the replayed field what the call did to the
\* live one.  Not so the awakening configuration: set_awakening_config emits
\* nothing, and it comes back as the last apply_awakening_model or snapshot had it.
ReplayAgrees ==
    /\ Ids(disk) = Ids(field) \ unlogged
    /\ \A i \in Ids(disk) : /\ disk.cells[i].pat = field.cells[i].pat
                            /\ disk.cells[i].links = field.cells[i].links
    /\ disk.rules = field.rules /\ disk.nextRule = field.nextRule
    /\ disk.dream = field.dream /\ disk.sync = field.sync
    /\ disk.now = field.now
    /\ disk.model.built \in {<<>>, field.model.built}
    /\ disk.model.applied \in {<<>>, field.model.applied}

\* Right after a tick a restart would also bring back every cell's energy and
\* state, whatever was changed since the last tick without a delta (the energy
\* lost to an unmatched impulse, the sleep ordered by a trim), and the model
\* that is applied, which snapshots leave out.
TickRecordsCells ==
    [][disk'.now # disk.now =>
         \A i \in Ids(disk') : /\ disk'.cells[i].energy = field'.cells[i].energy
                               /\ disk'.cells[i].state = field'.cells[i].state
                               /\ disk'.model.applied = field'.model.applied]_vars

\* A cell id that was ever recorded is never given to another cell, in this
\* process or after a restart: next_id is above every recorded id.
IdsStayFresh == highest < field.next /\ highest < disk.next

\* No view is left waiting for longer than its period and the time between two
\* looks at the views, however the ticks divide that time (view_tick_accum
\* gathers them and carries the remainder over).
ViewsOnTime ==
    \A i \in DOMAIN field.views :
        field.now - field.views[i].last < field.views[i].every + ViewTick

\* A seed that was harvested or aborted never grows again within a process,
\* and no tick leaves a growing seed past its ttl.
SeedsSettle ==
    [][/\ disk'.now # disk.now =>
            \A i \in DOMAIN field'.seeds : \/ field'.seeds[i].stage \in Settled
                                           \/ field'.now - field'.seeds[i].planted < field'.seeds[i].ttl
       /\ field'.now # field.now => \A i \in DOMAIN field.seeds :
            field.seeds[i].stage \in Settled => field'.seeds[i] = field.seeds[i]]_vars
=============================================================================
