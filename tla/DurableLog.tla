----------------------------- MODULE DurableLog -----------------------------
(***************************************************************************)
(* What a durable append-only log promises its callers.  Records are the   *)
(* numbers of the append calls.                                            *)
(***************************************************************************)
EXTENDS Integers, Sequences

CONSTANT Records   \* the numbers an append call may have

VARIABLES
    contents,   \* the records a restart would replay, oldest first
    acked       \* the records whose append was acknowledged

vars == <<contents, acked>>

Init == contents = <<>> /\ acked = {}

\* A record newer than all others becomes part of the log.
Commit ==
    \E r \in Records :
      /\ \A i \in DOMAIN contents : contents[i] < r
      /\ contents' = Append(contents, r)
      /\ UNCHANGED acked

Acknowledge ==
    \E i \in DOMAIN contents :
      /\ acked' = acked \cup {contents[i]}
      /\ UNCHANGED contents

\* Records that were not acknowledged may be lost, from the end.
Lose ==
    \E n \in 0..Len(contents) :
      /\ \A i \in (n + 1)..Len(contents) : contents[i] \notin acked
      /\ contents' = SubSeq(contents, 1, n)
      /\ UNCHANGED acked

Next == Commit \/ Acknowledge \/ Lose

Spec == Init /\ [][Next]_vars
=============================================================================
