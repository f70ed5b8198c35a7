------------------------------- MODULE Bridge -------------------------------
(***************************************************************************)
(* The C bridge (liminal-bridge-abi/src/ffi.rs, protocol.rs) and the host  *)
(* that pipes CBOR through it (liminal-cli, run_pipe_cbor).  A push works  *)
(* on the field under the field's lock and posts its answer to the outbox  *)
(* afterwards, under the outbox's lock; the life loop and the snapshot     *)
(* loop post to the same outbox; a pull takes everything, or puts it back  *)
(* when it does not fit into the caller's buffer.                          *)
(*                                                                         *)
(* What the field and the noetic state do with a command is modelled       *)
(* elsewhere (ClusterField, NoeticRuntime); here a command is the log      *)
(* lines it leaves, and a line is known by what event_from_field_log makes *)
(* of it.  Events are numbered in the order in which they are posted.      *)
(***************************************************************************)
EXTENDS Integers, Sequences, FiniteSets

CONSTANTS
    Thread,      \* callers of the bridge
    MaxPosted,   \* bound: events ever posted
    PullCaps     \* sizes of the callers' buffers, in events

VARIABLES
    ready,    \* is STATE set?
    answer,   \* per thread: the events its push has still to post, or Idle
    box,      \* the outbox: its events, and whether it holds metrics
    posted,   \* events ever posted
    pulled    \* the events handed out, in order

bridgeVars == <<ready, answer, box, posted, pulled>>

Idle == -1

BridgeInit ==
    /\ ready = FALSE
    /\ answer = [t \in Thread |-> Idle]
    /\ box = [events |-> <<>>, metrics |-> FALSE]
    /\ posted = 0 /\ pulled = <<>>

-----------------------------------------------------------------------------
(* The lines a push leaves, one set of possible outcomes per kind of message *)

\* route_impulse: one line per cell reached
ImpulseLines == {<<>>, <<"cell">>, <<"cell", "cell">>}

TrsLines == {<<"json">>}

\* parse_lql and exec_lql: an error, or the one event of the query
LqlLines == {<<"json">>}

\* a dream's summary is a line of its own, unknown to event_from_field_log
DreamLines == {<<"dream", "json">>, <<"dream">>}
DreamConfigLines == {<<"json">>}

\* a collective dream's summary is known, even when it says that nothing was done
SyncLines == {<<"collective", "json">>, <<"collective">>}
SyncConfigLines == {<<"json">>}

AwakenLines == {<<"json">>}
MirrorLines == {<<"json">>}
PeerLines == {<<"json">>}

\* an error, or the proposal's event, the vote's, and what they commit
NoeticLines == {<<"json">>, <<"json", "json">>, <<"json", "json", "json">>}

IntrospectLines == {<<"json">>}

PushLines ==
    UNION {ImpulseLines, TrsLines, LqlLines, DreamLines, DreamConfigLines, SyncLines, SyncConfigLines,
           AwakenLines, MirrorLines, PeerLines, NoeticLines, IntrospectLines}

\* event_from_field_log and event_from_impulse_log
Recognised(line) == line \in {"json", "divide", "sleep", "dead", "collective", "cell"}

\* the life loop's log lines; those of a dream are dropped
LoopLines == {"json", "divide", "sleep", "dead", "collective", "dream"}

EventsOf(lines) == Cardinality({i \in DOMAIN lines : Recognised(lines[i])})

-----------------------------------------------------------------------------
(* The outbox *)

Numbers(from, n) == [i \in 1 .. n |-> from + i]

\* push_event, n times, and set_metrics
Post(n, metrics) ==
    /\ posted + n <= MaxPosted
    /\ posted' = posted + n
    /\ box' = [events |-> box.events \o Numbers(posted, n), metrics |-> box.metrics \/ metrics]

\* take
Taken(b) == [events |-> <<>>, metrics |-> FALSE]

\* Mutant: the package's events are put back first to last
RestoreUnreversed(b, package) ==
    [events |-> [i \in 1 .. Len(package.events) |->
                   package.events[Len(package.events) - i + 1]] \o b.events,
     metrics |-> b.metrics \/ package.metrics]

\* restore: in front of what was posted since, which is nothing under the lock
Restore(b, package) ==
    [events |-> package.events \o b.events, metrics |-> b.metrics \/ package.metrics]

Size(package) == Len(package.events) + (IF package.metrics THEN 1 ELSE 0)

-----------------------------------------------------------------------------
(* The calls and the loops *)

\* liminal_init: the field is recovered and the loops are started; STATE is set once
InitBridge ==
    /\ ~ready
    /\ ready' = TRUE
    /\ UNCHANGED <<answer, box, posted, pulled>>

\* liminal_push, under the field's lock
Push(t) ==
    /\ ready /\ answer[t] = Idle
    /\ \E lines \in PushLines : answer' = [answer EXCEPT ![t] = EventsOf(lines)]
    /\ UNCHANGED <<ready, box, posted, pulled>>

\* liminal_push, under the outbox's lock
Answer(t) ==
    /\ answer[t] # Idle
    /\ Post(answer[t], FALSE)
    /\ answer' = [answer EXCEPT ![t] = Idle]
    /\ UNCHANGED <<ready, pulled>>

\* the life loop's three callbacks and the snapshot loop
LoopPosts ==
    /\ ready
    /\ \/ Post(1, TRUE)
       \/ \E line \in LoopLines : Post(EventsOf(<<line>>), FALSE)
    /\ UNCHANGED <<ready, answer, pulled>>

SnapshotPosts ==
    /\ ready
    /\ Post(1, FALSE)
    /\ UNCHANGED <<ready, answer, pulled>>

\* liminal_pull, by a caller with a buffer for cap events
Pull(cap) ==
    /\ ready /\ Size(box) > 0
    /\ IF Size(box) > cap
       THEN box' = Restore(Taken(box), box) /\ UNCHANGED pulled
       ELSE box' = Taken(box) /\ pulled' = pulled \o box.events
    /\ UNCHANGED <<ready, answer, posted>>

BridgeNext ==
    \/ InitBridge \/ LoopPosts \/ SnapshotPosts
    \/ \E t \in Thread : Push(t) \/ Answer(t)
    \/ \E cap \in PullCaps : Pull(cap)

BridgeSpec == BridgeInit /\ [][BridgeNext]_bridgeVars

-----------------------------------------------------------------------------
(* Properties *)

\* Every event posted is handed out exactly once and in the order of posting,
\* whichever threads post it and however often a pull finds its buffer too small.
OutboxExact == pulled \o box.events = Numbers(0, posted)
=============================================================================
