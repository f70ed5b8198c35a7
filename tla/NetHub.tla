------------------------------- MODULE NetHub -------------------------------
(***************************************************************************)
(* The bridge hub and the WebSocket server (liminal-bridge-net/src/lib.rs, *)
(* ws_server.rs).  The hub broadcasts events and metrics to the sessions   *)
(* and collects their commands in one bounded queue; the command-line host *)
(* takes the commands one by one and publishes the answers as events for   *)
(* everybody.  A session is four tasks: two pumps that move events and     *)
(* metrics into its bounded outgoing queue, a sender that empties it, and  *)
(* the loop that reads the client's messages and pings it.                 *)
(*                                                                         *)
(* An event is named by the client whose command it answers, or by Other.  *)
(* A client asks one thing.  A broadcast channel keeps its newest entries; *)
(* a receiver that falls behind skips to the oldest one kept (tokio).      *)
(***************************************************************************)
EXTENDS Integers, Sequences

CONSTANTS
    Client, Other, NoEvent,
    EventCap,    \* capacity of the event broadcast (1024)
    MetricsCap,  \* capacity of the metrics broadcast (32)
    OutCap,      \* capacity of a session's outgoing queue (256)
    CommandCap   \* capacity of the command queue (128)

VARIABLES
    ring,      \* the events the broadcast channel keeps
    harmony,   \* is there a latest harmony event for new clients?
    registry,  \* clients listed by the hub
    session,   \* the tasks of each client's session
    commands,  \* the command queue: who sent each command
    asked      \* what became of each client's command

hubVars == <<ring, harmony, registry, session, commands, asked>>

NewSession ==
    [phase |-> "none", conn |-> "open", unread |-> 0, metrics |-> 0, hand |-> NoEvent,
     mhand |-> FALSE, out |-> <<>>, sendDone |-> FALSE, eventsDone |-> FALSE, metricsDone |-> FALSE]

HubInit ==
    /\ ring = <<>> /\ harmony = FALSE /\ registry = {}
    /\ session = [c \in Client |-> NewSession]
    /\ commands = <<>> /\ asked = [c \in Client |-> "idle"]

\* the session's loop ended and it waits for its tasks, or it is still looping
Started(c) == session[c].phase \in {"running", "ending", "panicked"}

-----------------------------------------------------------------------------
(* A session starts *)

\* accept, the handshake, and register_client
Accept(c) ==
    /\ session[c].phase = "none"
    /\ \/ session' = [session EXCEPT ![c].phase = "registered"] /\ registry' = registry \cup {c}
       \/ session' = [session EXCEPT ![c].phase = "refused"] /\ UNCHANGED registry
    /\ UNCHANGED <<ring, harmony, commands, asked>>

\* both subscriptions, the latest harmony event if there is one, and the tasks
Start(c) ==
    /\ session[c].phase = "registered"
    /\ session' = [session EXCEPT ![c].phase = "running",
                                  ![c].out = IF harmony THEN <<Other>> ELSE <<>>]
    /\ UNCHANGED <<ring, harmony, registry, commands, asked>>

-----------------------------------------------------------------------------
(* Publishing *)

Receives(c) == Started(c) /\ ~session[c].eventsDone

\* broadcast::Sender::send never waits: the oldest event is overwritten, and an
\* answer overwritten before its client's pump has read it is lost
Broadcast(e) ==
    LET full == Len(ring) = EventCap
    IN  /\ ring' = IF full THEN Append(Tail(ring), e) ELSE Append(ring, e)
        /\ session' = [c \in Client |->
                         IF Receives(c) /\ session[c].unread < EventCap
                         THEN [session[c] EXCEPT !.unread = @ + 1] ELSE session[c]]
        /\ asked' = [c \in Client |->
                       IF full /\ Head(ring) = c /\ session[c].unread = EventCap THEN "lost"
                       ELSE IF e = c THEN "posted" ELSE asked[c]]

\* publish_event, from the life loop
Publish ==
    /\ Broadcast(Other)
    /\ UNCHANGED <<harmony, registry, commands>>

\* publish_metrics
PublishMetrics ==
    /\ session' = [c \in Client |->
                     IF Started(c) /\ ~session[c].metricsDone /\ session[c].metrics < MetricsCap
                     THEN [session[c] EXCEPT !.metrics = @ + 1] ELSE session[c]]
    /\ UNCHANGED <<ring, harmony, registry, commands, asked>>

\* handle_network_command publishes what these commands answer when they
\* succeed; the others are carried out and answered on the host's terminal only
CommandKinds == {"lql", "awaken", "introspect", "impulse", "dream", "sync", "mirror", "policy", "raw"}
AnsweredKinds == {"lql", "awaken", "introspect"}

\* the host's task takes a command and carries it out
Handle ==
    /\ commands # <<>>
    /\ commands' = Tail(commands)
    /\ IF Head(commands) = Other THEN UNCHANGED <<ring, session, asked>>
       ELSE Broadcast(Head(commands))
    /\ UNCHANGED <<harmony, registry>>

-----------------------------------------------------------------------------
(* The pumps and the sender *)

\* Mutant: a receiver that has fallen behind ends the pump
PumpEventUntilLag(c) ==
    /\ Receives(c) /\ session[c].hand = NoEvent /\ session[c].unread > 0
    /\ LET e == ring[Len(ring) - session[c].unread + 1]
       IN  /\ harmony' \in {harmony, harmony \/ e = Other}
           /\ session' = [session EXCEPT ![c].hand = e, ![c].unread = @ - 1,
                                         ![c].eventsDone = session[c].unread = EventCap]
    /\ UNCHANGED <<ring, registry, commands, asked>>

\* event_rx.recv: Lagged is skipped; a harmony event becomes the latest one
PumpEvent(c) ==
    /\ Receives(c) /\ session[c].hand = NoEvent /\ session[c].unread > 0
    /\ LET e == ring[Len(ring) - session[c].unread + 1]
       IN  /\ harmony' \in {harmony, harmony \/ e = Other}
           /\ session' = [session EXCEPT ![c].hand = e, ![c].unread = @ - 1]
    /\ UNCHANGED <<ring, registry, commands, asked>>

\* Mutant: a pump drops what it cannot hand over and goes on
HandOverAndGoOn(c) ==
    /\ session[c].hand # NoEvent
    /\ \/ /\ session[c].sendDone
          /\ session' = [session EXCEPT ![c].hand = NoEvent]
       \/ /\ ~session[c].sendDone /\ Len(session[c].out) < OutCap
          /\ session' = [session EXCEPT ![c].hand = NoEvent, ![c].out = Append(@, session[c].hand)]
    /\ UNCHANGED <<ring, harmony, registry, commands, asked>>

\* out_events_tx.send: it waits for room, and fails once the sender is gone
HandOver(c) ==
    /\ session[c].hand # NoEvent
    /\ \/ /\ session[c].sendDone
          /\ session' = [session EXCEPT ![c].hand = NoEvent, ![c].unread = 0, ![c].eventsDone = TRUE]
       \/ /\ ~session[c].sendDone /\ Len(session[c].out) < OutCap
          /\ session' = [session EXCEPT ![c].hand = NoEvent, ![c].out = Append(@, session[c].hand)]
    /\ UNCHANGED <<ring, harmony, registry, commands, asked>>

\* the metrics pump, likewise
PumpMetrics(c) ==
    /\ Started(c) /\ ~session[c].metricsDone
    /\ \/ /\ ~session[c].mhand /\ session[c].metrics > 0
          /\ session' = [session EXCEPT ![c].mhand = TRUE, ![c].metrics = @ - 1]
       \/ /\ session[c].mhand /\ session[c].sendDone
          /\ session' = [session EXCEPT ![c].mhand = FALSE, ![c].metrics = 0, ![c].metricsDone = TRUE]
       \/ /\ session[c].mhand /\ ~session[c].sendDone /\ Len(session[c].out) < OutCap
          /\ session' = [session EXCEPT ![c].mhand = FALSE, ![c].out = Append(@, Other)]
    /\ UNCHANGED <<ring, harmony, registry, commands, asked>>

\* sink.send: the client receives the message, or the sender ends
Send(c) ==
    /\ Started(c) /\ ~session[c].sendDone /\ session[c].out # <<>>
    /\ IF session[c].conn = "open"
       THEN /\ session' = [session EXCEPT ![c].out = Tail(@)]
            /\ asked' = [asked EXCEPT ![c] = IF Head(session[c].out) = c THEN "answered" ELSE @]
       ELSE /\ session' = [session EXCEPT ![c].out = <<>>, ![c].sendDone = TRUE]
            /\ UNCHANGED asked
    /\ UNCHANGED <<ring, harmony, registry, commands>>

-----------------------------------------------------------------------------
(* The session's loop *)

\* a message of the client becomes a command; the loop waits while the queue is
\* full.  Of the commands that will be answered only the first is followed.
Ask(c) ==
    /\ session[c].phase = "running" /\ session[c].conn = "open" /\ Len(commands) < CommandCap
    /\ \E kind \in CommandKinds, succeeds \in BOOLEAN :
         IF kind \in AnsweredKinds /\ succeeds
         THEN /\ asked[c] = "idle"
              /\ commands' = Append(commands, c)
              /\ asked' = [asked EXCEPT ![c] = "queued"]
         ELSE commands' = Append(commands, Other) /\ UNCHANGED asked
    /\ UNCHANGED <<ring, harmony, registry, session>>

\* the client's close frame, which the loop logs as undecodable, or its end of
\* stream, which nobody reads once the loop has ended
Hangup(c) ==
    /\ session[c].phase \in {"running", "ending"}
    /\ \/ session[c].conn = "open" /\ session' = [session EXCEPT ![c].conn = "closing"]
       \/ session[c].conn # "closed" /\ session' = [session EXCEPT ![c].conn = "closed"]
    /\ UNCHANGED <<ring, harmony, registry, commands, asked>>

\* the ping of every 30 seconds, whether or not earlier ones were answered
Ping(c) ==
    /\ session[c].phase = "running"
    /\ \/ /\ session[c].sendDone
          /\ session' = [session EXCEPT ![c].phase = "ending"]
       \/ /\ ~session[c].sendDone /\ Len(session[c].out) < OutCap
          /\ session' = [session EXCEPT ![c].out = Append(@, Other)]
    /\ UNCHANGED <<ring, harmony, registry, commands, asked>>

\* a message cannot be received: the loop leaves, though the client is connected
\* and can still be written to
RecvError(c) ==
    /\ session[c].phase = "running" /\ session[c].conn # "closed"
    /\ session' = [session EXCEPT ![c].phase = "ending"]
    /\ UNCHANGED <<ring, harmony, registry, commands, asked>>

\* the loop leaves at the end of the stream; it also leaves when the sender or a
\* pump has ended, and then awaits a task that has been awaited: a panic
Leave(c) ==
    /\ session[c].phase = "running"
    /\ \/ /\ session[c].conn = "closed"
          /\ session' = [session EXCEPT ![c].phase = "ending"]
       \/ /\ session[c].conn # "closed"
          /\ session[c].sendDone \/ session[c].eventsDone \/ session[c].metricsDone
          /\ session' = [session EXCEPT ![c].phase = "panicked"]
    /\ UNCHANGED <<ring, harmony, registry, commands, asked>>

\* the three tasks have ended: remove_client
Unlist(c) ==
    /\ session[c].phase = "ending"
    /\ session[c].sendDone /\ session[c].eventsDone /\ session[c].metricsDone
    /\ session' = [session EXCEPT ![c].phase = "gone"]
    /\ registry' = registry \ {c}
    /\ UNCHANGED <<ring, harmony, commands, asked>>

\* the steps the server's tasks take by themselves
Works(c) == Start(c) \/ PumpEvent(c) \/ HandOver(c) \/ Send(c) \/ PumpMetrics(c) \/ Leave(c) \/ Unlist(c)

HubNext ==
    \/ Publish \/ PublishMetrics \/ Handle
    \/ \E c \in Client : Works(c) \/ Accept(c) \/ Ask(c) \/ Hangup(c) \/ RecvError(c) \/ Ping(c)

-----------------------------------------------------------------------------
(* Properties *)

\* A session whose loop has ended is unlisted once its client is gone: every
\* one of its tasks notices, through the next message it cannot pass on.  After
\* a receive error it stays listed, without reading, until the client goes.
ClosedSessionsUnlisted ==
    \A c \in Client : (session[c].phase = "ending" /\ session[c].conn # "open") ~> c \notin registry

\* A client that stays connected gets the answer to its command, however slow
\* it is, unless the answer itself was overwritten in the broadcast channel.
CommandsAnswered ==
    \A c \in Client : asked[c] = "queued" ~> (asked[c] \in {"answered", "lost"} \/ session[c].conn # "open")
=============================================================================
