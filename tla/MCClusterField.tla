--------------------------- MODULE MCClusterField ---------------------------
(***************************************************************************)
(* Small instances of the cluster field, one per scenario: the cells with  *)
(* their links and dreams, the reflex rules, and the views, seeds and      *)
(* epochs.  A scenario is a choice of calls; the field is the same.        *)
(***************************************************************************)
EXTENDS ClusterField

CONSTANTS
    t1, t2,
    Scenarios,
    MaxId,          \* cells ever created
    CellSteps, DreamSteps, ReflexSteps, AgendaSteps     \* calls, by scenario

VARIABLES
    scenario, steps,
    heard,      \* history: the impulses counted, one entry per token
    since       \* history: for each rule, how many of heard preceded it

mcVars == <<vars, scenario, steps, heard, since>>

-----------------------------------------------------------------------------
(* Cells: births, sleep, deaths, trims and restarts.  Something happens to one
   cell in a tick, and no two cells answer an impulse together. *)

Impulse(tokens, kind, strength) == [tokens |-> tokens, kind |-> kind, strength |-> strength]

Few(n) == {S \in SUBSET Ids(field) : Cardinality(S) <= n}

\* something happens to at most n cells
FatesOf(n) == UNION {[S -> Fates] : S \in Few(n)}

CellsNext ==
    /\ \/ RouteImpulse(Impulse(<<t2>>, "Query", 1))
       \/ \E fate \in FatesOf(1) : Tick(1, fate)
       \/ \E p, d \in Few(1) : Trim(p, d)
       \/ \E a \in Few(1) : Inject(a)
       \/ \E w \in Ids(field) : Awaken({w})
       \/ Snapshot
       \/ Restart
    /\ field'.routes = {}
    /\ field'.next <= MaxId + 1
    /\ UNCHANGED <<heard, since>>

(* Dreams: cells that answered together; their links are strengthened, pruned
   and rewired, and cells still die *)

DreamsNext ==
    /\ \/ RouteImpulse(Impulse(<<t1>>, "Affect", 1))
       \/ \E fate \in FatesOf(2) : Tick(1, fate)
       \/ Trim({}, {})
       \/ \E s, w \in SUBSET RecentPairs(field) : DreamCycle(s, w)
       \/ \E p \in SUBSET RecentPairs(field) : CollectiveDream(p)
       \/ Snapshot
       \/ Restart
    /\ \A i \in Ids(field') : field'.cells[i].state = "Awake"
    /\ field'.next <= MaxId + 1
    /\ UNCHANGED <<heard, since>>

-----------------------------------------------------------------------------
(* Reflexes: the cells only fall asleep, wake and spawn *)

Rule(tokens, window, strength, count, then) ==
    [tokens |-> tokens, kind |-> "Write", window |-> window, minStrength |-> strength,
     minCount |-> count, then |-> then, seed |-> {t2}, enabled |-> TRUE]

Rules == {Rule({t1}, 1, 1, 2, "WakeSleeping"), Rule({t1, t2}, 3, 2, 2, "SpawnSeed"),
          [Rule({t2}, 2, 1, 1, "EmitHint") EXCEPT !.enabled = FALSE]}

Hear(imp) ==
    /\ RouteImpulse(imp)
    /\ heard' = heard \o [k \in 1..Len(imp.tokens) |->
           [ts |-> field.now, token |-> imp.tokens[k], kind |-> imp.kind, strength |-> imp.strength]]
    /\ UNCHANGED since

ReflexNext ==
    /\ \/ \E toks \in {<<t1>>, <<t2, t1>>}, s \in {1, 2} : Hear(Impulse(toks, "Write", s))
       \/ \E id \in {0, 1}, rule \in Rules :
             /\ AddRule(id, rule)
             /\ LET new == AddReflex(field, id, rule).id
                IN  since' = [r \in DOMAIN since \cup {new} |-> IF r = new THEN Len(heard) ELSE since[r]]
             /\ UNCHANGED heard
       \/ \E id \in DOMAIN field.rules : RemoveRule(id) /\ UNCHANGED <<heard, since>>
       \/ \E dt \in {1, 2}, S \in Few(1) : Tick(dt, [i \in S |-> "sleeps"]) /\ UNCHANGED <<heard, since>>
       \/ Restart /\ since' = [r \in DOMAIN since |-> Len(heard)] /\ UNCHANGED heard
    /\ \A i \in Ids(field') : field'.cells[i].energy = "Fed"
    /\ field'.next = field.next \/ fired' # fired
    /\ field'.next <= MaxId + 1

-----------------------------------------------------------------------------
(* Views, seeds, configurations and epochs, on a field whose cells are at rest *)

AgendaNext ==
    /\ \/ \E e \in {1, 6} : Subscribe(e)
       \/ \E id \in DOMAIN field.views : Unsubscribe(id)
       \/ \E ttl \in {2, 5} : PlantSeed(ttl)
       \/ \E id \in DOMAIN field.seeds : AbortSeed(id)
       \/ \E c \in {"a", "b"} : SetDreamConfig(c)
       \/ SetSyncConfig("outside")
       \/ PushEpoch
       \/ BuildResonantModel
       \/ ApplyAwakeningModel
       \/ SetAwakeningConfig("a")
       \/ \E dt \in {2, 3} : Tick(dt, EmptyMap)
       \/ Snapshot
       \/ Restart
    /\ field'.next <= 2
    /\ UNCHANGED <<heard, since>>

-----------------------------------------------------------------------------

StepsOf == [cells |-> CellSteps, dreams |-> DreamSteps, reflex |-> ReflexSteps, agenda |-> AgendaSteps]

MCInit ==
    /\ Init
    /\ scenario \in Scenarios /\ steps = 0
    /\ heard = <<>> /\ since = EmptyMap

MCNext ==
    /\ steps < StepsOf[scenario] /\ steps' = steps + 1
    /\ UNCHANGED scenario
    /\ \/ scenario = "cells" /\ CellsNext
       \/ scenario = "dreams" /\ DreamsNext
       \/ scenario = "reflex" /\ ReflexNext
       \/ scenario = "agenda" /\ AgendaNext

MCSpec == MCInit /\ [][MCNext]_mcVars

-----------------------------------------------------------------------------
(* Properties *)

\* A rule fires on an impulse only if enough impulses of its kind, strength
\* and token arrived within its window, and it does fire when that many
\* arrived since it was added and the process started, among the newest
\* QueueCap of that token and kind (process_reflex_for prunes by the longest
\* window of the rules that look at the token).
InWindow(r, t, from) ==
    LET rule == field.rules[r]
        same == SelectSeq(SubSeq(heard, from + 1, Len(heard)),
                          LAMBDA e : e.token = t /\ e.kind = rule.kind)
    IN  Len(SelectSeq(Capped(same, QueueCap),
                      LAMBDA e : field.now - e.ts <= rule.window /\ e.strength >= rule.minStrength))

RuleFiresInWindow ==
    [][Len(heard') > Len(heard) =>
         LET now == {heard'[i].token : i \in (Len(heard) + 1)..Len(heard')}
             kind == heard'[Len(heard')].kind
         IN \A r \in DOMAIN field.rules :
              LET mine == IF field.rules[r].enabled /\ field.rules[r].kind = kind
                          THEN now \cap field.rules[r].tokens ELSE {}
              IN  /\ r \in fired' => \E t \in mine : InWindow(r, t, 0)' >= field.rules[r].minCount
                  /\ (\E t \in mine : InWindow(r, t, since[r])' >= field.rules[r].minCount) => r \in fired']_mcVars
=============================================================================
