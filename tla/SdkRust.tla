------------------------------ MODULE SdkRust ------------------------------
(***************************************************************************)
(* The Rust client (sdk/rust/src/lib.rs).  Callers put commands into a     *)
(* bounded queue and notify the connection task, which connects,           *)
(* authenticates, and then serves its heartbeat, the notifications and the *)
(* socket until the socket fails.  Notify keeps one permit when nobody     *)
(* waits.  Commands are numbered in the order in which they are queued.    *)
(***************************************************************************)
EXTENDS Integers, Sequences

CONSTANTS
    RsBuffer,      \* buffer_limit
    RsCommands,    \* bound: commands ever queued
    RsBackoff,     \* multiplications of the delay from its minimum to its maximum
    RsKeys,        \* is there a key to authenticate with?
    RsReconnect

ASSUME SdkRustAssumption ==
    /\ RsBuffer \in Nat \ {0} /\ {RsCommands, RsBackoff} \subseteq Nat
    /\ {RsKeys, RsReconnect} \subseteq BOOLEAN

VARIABLES
    rs,      \* the client and its connection task
    rsSent   \* the commands written to a socket

rsVars == <<rs, rsSent>>

RsInit ==
    /\ rs = [conn |-> "connecting", broken |-> FALSE, queue |-> <<>>, permit |-> FALSE,
             hand |-> 0, backoff |-> 0, next |-> 1, stuck |-> FALSE]
    /\ rsSent = <<>>

\* Mutant: a notification that finds nobody waiting is forgotten
RsSendNoPermit ==
    /\ rs.next <= RsCommands
    /\ rs' = [rs EXCEPT !.queue = Append(IF Len(@) >= RsBuffer THEN Tail(@) ELSE @, rs.next),
                        !.next = @ + 1, !.permit = @ \/ rs.conn = "running"]
    /\ UNCHANGED rsSent

\* send: a full queue loses its oldest command
RsSend ==
    /\ rs.next <= RsCommands
    /\ rs' = [rs EXCEPT !.queue = Append(IF Len(@) >= RsBuffer THEN Tail(@) ELSE @, rs.next),
                        !.next = @ + 1, !.permit = TRUE]
    /\ UNCHANGED rsSent

\* every command method is a send
RsCommand == RsSend

\* what follows a lost connection or a failed attempt
Down(r) == [r EXCEPT !.conn = IF RsReconnect THEN "waiting" ELSE "ended", !.broken = FALSE]

\* connect_async, and the authentication; when that fails the next attempt is made at once
Connected ==
    /\ rs.conn = "connecting"
    /\ rs' = [rs EXCEPT !.conn = "running"]
    /\ UNCHANGED rsSent

AttemptFails ==
    /\ rs.conn = "connecting"
    /\ rs' \in {Down(rs)} \cup (IF RsKeys THEN {rs} ELSE {})
    /\ UNCHANGED rsSent

\* the delay before the next attempt
Delay ==
    /\ rs.conn = "waiting"
    /\ rs' = [rs EXCEPT !.conn = "connecting", !.backoff = IF @ < RsBackoff THEN @ + 1 ELSE @]
    /\ UNCHANGED rsSent

\* the transport fails; the task does not know yet
Breaks ==
    /\ rs.conn \in {"running", "draining"} /\ ~rs.broken
    /\ rs' = [rs EXCEPT !.broken = TRUE]
    /\ UNCHANGED rsSent

\* select: the heartbeat or the socket's next message finds the transport broken
Noticed ==
    /\ rs.conn = "running" /\ rs.broken
    /\ rs' = [Down(rs) EXCEPT !.backoff = 0]
    /\ UNCHANGED rsSent

\* select: notified
Notified ==
    /\ rs.conn = "running" /\ rs.permit
    /\ rs' = [rs EXCEPT !.conn = "draining", !.permit = FALSE]
    /\ UNCHANGED rsSent

\* pop_front, or the end of the drain
Drain ==
    /\ rs.conn = "draining" /\ rs.hand = 0
    /\ rs' = IF rs.queue = <<>> THEN [rs EXCEPT !.conn = "running", !.stuck = FALSE]
             ELSE [rs EXCEPT !.hand = Head(rs.queue), !.queue = Tail(@)]
    /\ UNCHANGED rsSent

\* send_command, after the throttle
SendCommand ==
    /\ rs.conn = "draining" /\ rs.hand # 0 /\ ~rs.broken
    /\ rsSent' = Append(rsSent, rs.hand)
    /\ rs' = [rs EXCEPT !.hand = 0]

\* send_command fails: its command is gone, the rest waits for a notification
SendFails ==
    /\ rs.conn = "draining" /\ rs.hand # 0 /\ rs.broken
    /\ rs' = [rs EXCEPT !.hand = 0, !.conn = "running", !.stuck = rs.queue # <<>>]
    /\ UNCHANGED rsSent

RsNext ==
    \/ RsCommand \/ Connected \/ AttemptFails \/ Delay \/ Breaks \/ Noticed
    \/ Notified \/ Drain \/ SendCommand \/ SendFails

-----------------------------------------------------------------------------
(* Properties *)

\* Commands reach a socket at most once and in the order they were queued,
\* whatever connections break under them.
RsSentInOrder == \A i \in 2 .. Len(rsSent) : rsSent[i - 1] < rsSent[i]

\* A queued command leaves the queue without another call of send, even when it
\* was queued while the client was disconnected, unless a failed send has left
\* the queue behind (stuck) or the client has given up.
RsQueueDrained == rs.queue # <<>> ~> (rs.queue = <<>> \/ rs.stuck \/ rs.conn = "ended")
=============================================================================
