------------------------------- MODULE SdkTs -------------------------------
(***************************************************************************)
(* The TypeScript client (sdk/ts/src/client.ts).  Commands, heartbeats and *)
(* the authentication go through one bounded queue behind a token bucket.  *)
(* A socket's handlers work on the client whether or not that socket is    *)
(* still the client's current one, so superseded sockets are kept too.     *)
(* Commands are numbered in the order in which the client accepts them.    *)
(***************************************************************************)
EXTENDS Integers, Sequences

CONSTANTS
    TsBuffer,      \* bufferLimit
    TsRate,        \* qpsLimit: the size of the token bucket (0 or less: no limit, not modelled)
    TsCommands,    \* bound: tokens ever handed out
    TsSockets,     \* bound: superseded sockets that are still connecting
    TsBackoff,     \* doublings of the delay from its minimum to its maximum
    TsKeys,        \* is there a key to authenticate with?
    TsBeats,       \* is the heartbeat interval positive?
    InOrder        \* do the sockets connect in the order they were opened?

ASSUME SdkTsAssumption ==
    /\ {TsBuffer, TsRate} \subseteq Nat \ {0} /\ {TsCommands, TsSockets, TsBackoff} \subseteq Nat
    /\ {TsKeys, TsBeats, InOrder} \subseteq BOOLEAN

VARIABLES
    ts,      \* the client
    tsSent   \* the commands written to a socket

tsVars == <<ts, tsSent>>

TsInit ==
    /\ ts = [cur |-> "none", older |-> 0, left |-> 0, timer |-> FALSE, heart |-> FALSE,
             reconnect |-> TRUE, backoff |-> 0, queue |-> <<>>, tokens |-> TsRate, next |-> 1,
             opens |-> 0, flushed |-> <<>>]
    /\ tsSent = <<>>

-----------------------------------------------------------------------------
(* The methods: functions of the client; flushed is what they write *)

\* connect: anything but an open socket is superseded by a new one
Connect(t) ==
    IF t.cur = "open" THEN t
    ELSE [t EXCEPT !.cur = "connecting", !.older = IF t.cur = "connecting" THEN @ + 1 ELSE @]

\* Mutant: a command leaves the queue only when the next one is accepted
FlushQueueKeepsLast(t) ==
    IF t.cur # "open" THEN Connect(t)
    ELSE [t EXCEPT !.flushed = @ \o t.queue,
                   !.queue = IF @ = <<>> THEN @ ELSE <<@[Len(@)]>>]

\* flushQueue
FlushQueue(t) ==
    IF t.cur # "open" THEN Connect(t) ELSE [t EXCEPT !.flushed = @ \o t.queue, !.queue = <<>>]

\* enqueue: dropped when rate limited; a full queue loses its oldest command
Enqueue(t) ==
    IF t.tokens = 0 THEN t
    ELSE FlushQueue([t EXCEPT !.tokens = @ - 1, !.next = @ + 1,
                              !.queue = Append(IF Len(@) >= TsBuffer THEN Tail(@) ELSE @, t.next)])

\* handleOpen: the queue is flushed before the authentication is queued; the
\* open events are counted modulo 2, so that each of them is a change of state
HandleOpen(t) ==
    LET f == FlushQueue([t EXCEPT !.backoff = 0, !.opens = 1 - @])
    IN  [(IF TsKeys THEN Enqueue(f) ELSE f) EXCEPT !.heart = TsBeats]

\* scheduleReconnect
ScheduleReconnect(t) == [t EXCEPT !.timer = @ \/ t.reconnect]

\* handleError and handleClose, of whichever socket
HandleClose(t) == ScheduleReconnect([t EXCEPT !.heart = FALSE])

-----------------------------------------------------------------------------
(* Steps *)

TsBecomes(t) ==
    /\ t.older <= TsSockets
    /\ ts' = [t EXCEPT !.flushed = <<>>]
    /\ tsSent' = tsSent \o t.flushed

\* a command method, or the heartbeat's timer
Command   == TsBecomes(Enqueue(ts))
Heartbeat == ts.heart /\ TsBecomes(Enqueue(ts))
CallConnect == TsBecomes(Connect(ts))

\* refill, bounded
Refill ==
    /\ ts.tokens < TsRate /\ ts.next + ts.tokens <= TsCommands
    /\ TsBecomes([ts EXCEPT !.tokens = @ + 1])

\* disconnect: the socket is closed and forgotten; its close event is still to come
CallDisconnect ==
    TsBecomes([ts EXCEPT !.reconnect = FALSE, !.heart = FALSE, !.timer = FALSE, !.cur = "none",
                         !.left = IF ts.cur \in {"connecting", "open"} THEN 1 ELSE @])

OpenCurrent ==
    /\ ts.cur = "connecting" /\ (InOrder => ts.older = 0)
    /\ TsBecomes(HandleOpen([ts EXCEPT !.cur = "open"]))

OpenOlder ==
    /\ ts.older > 0
    /\ TsBecomes(HandleOpen([ts EXCEPT !.older = @ - 1, !.left = 1]))

CloseCurrent ==
    /\ ts.cur \in {"connecting", "open"}
    /\ TsBecomes(HandleClose([ts EXCEPT !.cur = "closed"]))

\* left = 1 stands for any number of open sockets that are not the current one
CloseOlder ==
    \/ ts.older > 0 /\ TsBecomes(HandleClose([ts EXCEPT !.older = @ - 1]))
    \/ ts.left = 1 /\ \E n \in 0 .. 1 : TsBecomes(HandleClose([ts EXCEPT !.left = n]))

\* the reconnect timer
TimerFires ==
    /\ ts.timer
    /\ TsBecomes([Connect([ts EXCEPT !.timer = FALSE])
                     EXCEPT !.backoff = IF @ < TsBackoff THEN @ + 1 ELSE @])

TsNext ==
    \/ Command \/ Heartbeat \/ CallConnect \/ Refill \/ CallDisconnect
    \/ OpenCurrent \/ OpenOlder \/ CloseCurrent \/ CloseOlder \/ TimerFires

\* a network on which every connection attempt succeeds and no socket closes
TsCalm == Command \/ CallConnect \/ Refill \/ OpenCurrent \/ OpenOlder

-----------------------------------------------------------------------------
(* Properties *)

\* Commands reach a socket at most once and in the order they were accepted,
\* through full queues, reconnections and superseded sockets.
TsSentInOrder == \A i \in 2 .. Len(tsSent) : tsSent[i - 1] < tsSent[i]

\* Commands queued while the client is connecting are sent once it has
\* connected: connect(), then commands, is how the documentation uses it.
QueuedCommandsSent == ts.queue # <<>> ~> ts.queue = <<>>
=============================================================================
